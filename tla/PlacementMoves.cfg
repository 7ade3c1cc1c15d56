SPECIFICATION FairSpec
CONSTANTS
  u1 = u1
  u2 = u2
  n1 = n1
  n2 = n2
  None = None
  Uid = {u1, u2}
  Classes <- MCClasses
  Node = {n1, n2}
  MaxMoves = 1
  MaxLosses = 1
INVARIANTS PVLeadsToVolume MisplacedByNamesake GoneLeavesNothing
PROPERTY ClaimsProvisioned
CHECK_DEADLOCK FALSE
