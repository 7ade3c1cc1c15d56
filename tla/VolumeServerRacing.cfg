SPECIFICATION Spec
CONSTANTS
  None = None
  Vol = {v1, v2}
  Size = {1, 2}
  File = {f1}
  Req = {r1, r2}
  TextLen <- MCTextLen
  Racing = TRUE
  FaultKinds = {"crash", "io"}
  MaxFaults = 2
  PodActs = {"write", "delete"}
SYMMETRY Symmetry
CHECK_DEADLOCK FALSE
INVARIANTS IInv TornByAnother
