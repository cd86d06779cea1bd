CONSTANTS
  Threads = {t1}
  NoThread = NoThread
  IO_QUEUE_SIZE = 2
  WordMod = 5
  ReadMod = 4
  TlpCap = 2
  FifoCap = 1
  IoReadCap = 1
  WriteKinds = {"user", "config"}
  ReadKinds = {"user", "fixed"}
  MaxRestarts = 1
SPECIFICATION Spec
INVARIANTS RestartBacklog ReadCreditsCover
