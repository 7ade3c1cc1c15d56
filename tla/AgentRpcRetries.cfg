SPECIFICATION FairSpec
CONSTANTS
  k1 = k1
  k2 = k2
  k3 = k3
  Call = {k1, k2, k3}
  MaxDowns = 2
  MaxDeadlines = 2
  MaxUnlisted = 1
INVARIANTS UnavailableBlamed MadeOnce
PROPERTIES CallsEnd ImplementsCallOnce
CHECK_DEADLOCK FALSE
