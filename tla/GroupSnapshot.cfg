SPECIFICATION FairSpec
CONSTANTS
  None = None
  v1 = v1
  v2 = v2
  v3 = v3
  n1 = n1
  n2 = n2
  Vol = {v1, v2, v3}
  NodeOf <- MCNodeOf
  Fleeting = {v1, v3}
  Growing = {v1}
  MaxLost = 1
  MaxFails = 2
CHECK_DEADLOCK FALSE
INVARIANTS ReadyIsAll ListedExists DeletedAllNamed
PROPERTIES GroupServed
