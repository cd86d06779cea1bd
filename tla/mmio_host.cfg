CONSTANTS
  Threads = {t1, t2}
  NoThread = NoThread
  IO_QUEUE_SIZE = 3
  WordMod = 5
  ReadMod = 5
  TlpCap = 2
  FifoCap = 1
  IoReadCap = 1
  WriteKinds = {"user"}
  ReadKinds = {"config"}
  MaxRestarts = 0
SPECIFICATION LazyUserSpec
  
PROPERTIES LoadsAnswered
