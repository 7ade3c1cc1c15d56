SPECIFICATION HSpec
CONSTANTS
  None = None
  Vol = {v1, v2}
  Size = {1, 2}
  File = {f1, f2}
  Req = {r1}
  TextLen <- MCTextLen
  Racing = FALSE
  FaultKinds = {"io"}
  MaxFaults = 1
  PodActs = {}
SYMMETRY Symmetry
CHECK_DEADLOCK FALSE
PROPERTIES CopyIsComplete
