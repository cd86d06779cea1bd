CONSTANTS
  Size = 3
  MaxWords = 8
  Window = 8
  Creator = "source"
SPECIFICATION Spec
INVARIANTS NothingLost
CHECK_DEADLOCK FALSE
