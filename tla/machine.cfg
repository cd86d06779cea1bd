SPECIFICATION Spec
CONSTANTS
  p1 = p1  p2 = p2  p3 = p3
  a1 = a1  a2 = a2  q1 = q1  q2 = q2
  Pages = {p1, p2, p3}
  None = None
  NumPages = 2
  BarPages = 1
  Wrap = 100
  Procs = {q1, q2}
  Maps <- MCMaps
  HostMap <- MCHostMap
  Addrs = {a1, a2}
  MaxFaults = 1
  MaxPrograms = 2
  MaxReboots = 2
  MaxLoads = 2
  FilesSynced = TRUE
  RunFirst = TRUE
SYMMETRY MCSymmetry
INVARIANTS    NothingHeld Rescanned
 
CHECK_DEADLOCK FALSE
