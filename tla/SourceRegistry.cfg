CONSTANTS
  c1 = c1
  c2 = c2
  o1 = o1
  o2 = o2
  Clients <- MCClients
  Objects <- MCObjects
  Names = {n1, n2}
  MaxLeaks = 1
  Server = Server
  NULL = NULL
SPECIFICATION Spec
SYMMETRY MCSymmetry
INVARIANTS TypeOK RefsExact DestroyedOnce PointersAlive OnlyOwnerCloses GoneClientLeavesNoSource
CHECK_DEADLOCK FALSE
