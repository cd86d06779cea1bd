CONSTANTS
  Tags = {t1, t2}
  NoTag = NoTag
  MaxBurst = 2
  PageWords = 4
  NumPages = 3
  BufPages <- MCBufPages
  OutBursts = 2
  CntMod = 5
  FifoCap = 2
  PageReqCap = 1
  OrderedCap = 1
  ScoreCap = 2
  WordCap = 2
  LinkCap = 1
  PipeCap = 1
  Requests <- MCRequests
  MaxRequests = 2
SPECIFICATION LazyUserSpec
INVARIANTS TypeOK OutputFits DoneTagsWait
PROPERTIES ReadsInOrder LinkDrains WordsDelivered
CHECK_DEADLOCK FALSE
