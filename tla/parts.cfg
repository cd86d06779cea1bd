CONSTANTS
  Size = 4
  MaxWords = 12
  Window = 3
  Creator = "drain"
  PacketLens = {2, 4, 6}
  TlpqCap = 2
  MaxHalves = 16
  Sources = 4
  MergeFifo = 1
  NoMod = 2
  Watched = 1
  Readers = {0, 1}
  Writers = {0, 1}
  ReadBursts <- MCReadBursts
  WriteBursts <- MCWriteBursts
  RegionRows = 4
  Banks = 2
  Highs = 2
  DramFifo = 1
  SyncFifo = 1
  RowFifo = 2
  ReadReqCap = 2
  MaxBursts = 3
SPECIFICATION PartsSpec
INVARIANTS PacketsWhole KeepsOrder ReadsFresh
PROPERTIES RingIsQueue RingGoesOn NobodyStarves
CHECK_DEADLOCK FALSE
