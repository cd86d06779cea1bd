CONSTANTS
  MaxBurst = 2
  PageWords = 4
  NumPages = 3
  BufPages <- MCBufPages
  FifoCap = 1
  PageReqCap = 2
  WordCap = 3
  CntMod = 6
  WriteTags = 2
  ReadTags = 1
  SendCap = 2
  MergeCap = 1
  WriteRequests <- MCWrites
  ReadRequests <- MCReads
  MaxWrites = 2
  MaxReads = 1
  MaxData = 8
  MaxReplies = 1
SPECIFICATION LazyUserSpec
INVARIANTS TypeOK BurstHasData Framed InPlace
PROPERTIES RepliesLeave EverythingLeaves
CHECK_DEADLOCK FALSE
