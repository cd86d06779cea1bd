SPECIFICATION FairSpec
CONSTANTS
  Slots = 2
  IdxMod = 3
  UserCap = 1
  FifoCap = 1
  DmaCap = 2
  RecvCap = 1
  DownCap = 1
  MaxMsgs = 3
  MaxWords = 2
  MaxRestarts = 1
  EarlyMessages = FALSE
INVARIANTS TypeOK InOrder WordsArrive
PROPERTIES NotOverwritten CatchUp
CHECK_DEADLOCK FALSE
