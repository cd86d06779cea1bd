SPECIFICATION FairSpec
CONSTANTS
  t1 = t1  t2 = t2
  Threads = {t1, t2}
  None = None
  d1 = d1  d2 = d2  d3 = d3  d4 = d4  d5 = d5  d6 = d6
  Data <- MCData
  Pad = Pad  Junk = Junk
  PageCells = 2
  HalfPages = 1
  FpgaPages = 3
  Calls <- MCCalls
  MaxCalls = 2
  MaxRestarts = 1
  RestartUnderWay = FALSE
  ReadTags = {1, 2}
  CmdCap = 2
  DramCap = 2
INVARIANTS TypeOK 
  
CHECK_DEADLOCK FALSE
