SPECIFICATION FairSpec
CONSTANTS
  None = None
  v1 = v1
  v2 = v2
  s1 = s1
  n1 = n1
  Vol = {v1}
  Snap = {s1}
  NodeOf <- OneNode
  SnapOf <- OfV1
  From <- Plain
  MaxTimeouts = 1
  Together = FALSE
  Growing = {v1}
  MaxFaults = 0
CHECK_DEADLOCK FALSE
PROPERTIES Served
