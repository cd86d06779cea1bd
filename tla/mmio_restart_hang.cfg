CONSTANTS
  Threads = {t1}
  NoThread = NoThread
  IO_QUEUE_SIZE = 2
  WordMod = 8
  ReadMod = 4
  TlpCap = 2
  FifoCap = 1
  IoReadCap = 1
  WriteKinds = {"user"}
  ReadKinds = {}
  MaxRestarts = 1
SPECIFICATION FairSpec
PROPERTIES CallsReturn
