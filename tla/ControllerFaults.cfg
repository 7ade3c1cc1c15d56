SPECIFICATION Spec
CONSTANTS
  None = None
  v1 = v1
  v2 = v2
  s1 = s1
  n1 = n1
  Vol = {v1, v2}
  Snap = {s1}
  NodeOf <- OneNode
  SnapOf <- OfV1
  From <- Restored
  Growing = {v1}
  MaxTimeouts = 1
  Together = FALSE
  MaxFaults = 2
CHECK_DEADLOCK FALSE
INVARIANTS IInv BoundHasVolume ReadyHasSnapshot NothingLeft PartialHasJob
