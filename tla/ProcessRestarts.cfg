SPECIFICATION ProcessFairSpec
CONSTANTS
  a1 = a1
  a2 = a2
  c1 = c1
  Nobody = Nobody
  Process = {a1, a2, c1}
  Controller = {c1}
  Endpoint <- MCEndpoint
  Ports <- MCPorts
  MaxCrashes = 1
INVARIANTS ServesSynced
PROPERTIES ReachableUntilReplaced WantedServes
CHECK_DEADLOCK FALSE
