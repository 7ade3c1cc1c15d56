SPECIFICATION FairSpec
CONSTANTS
  v1 = v1
  v2 = v2
  s1 = s1
  s2 = s2
  h1 = h1
  n1 = n1
  n2 = n2
  None = None
  Volume = {v1, v2}
  Content = {s1, s2, h1}
  Preprovisioned = {h1}
  Ungrouped = {v2}
  Older = {v1, s1}
  Node = {n1, n2}
  Home <- MCHome
  Faults = {"agent", "node", "group", "debris", "api", "config", "deletion", "loss"}
  MaxCalls = 1
  MaxFaults = 1
  MaxFailed = 1
INVARIANTS ConnectionsAccounted 
PROPERTIES PanicsNamed VolumesListed
CHECK_DEADLOCK FALSE
