SPECIFICATION HSpec
CONSTANTS
  None = None
  Vol = {v1, v2}
  Size = {1, 2}
  File = {f1}
  Req = {r1, r2, r3}
  TextLen <- MCTextLen
  Racing = FALSE
  FaultKinds = {"crash"}
  MaxFaults = 1
  PodActs = {"write", "delete"}
SYMMETRY Symmetry
CHECK_DEADLOCK FALSE
INVARIANTS DebrisIsBlamed ListNeverOmits
PROPERTIES ImplementsRegistry CopyIsComplete
