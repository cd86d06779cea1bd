CONSTANTS
  Threads = {t1, t2}
  NoThread = NoThread
  IO_QUEUE_SIZE = 2
  WordMod = 4
  ReadMod = 4
  TlpCap = 2
  FifoCap = 1
  IoReadCap = 1
  WriteKinds = {"user"}
  ReadKinds = {"user"}
  MaxRestarts = 0
SPECIFICATION FairSpec
INVARIANTS TypeOK
PROPERTIES CallsReturn
