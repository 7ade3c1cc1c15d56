SPECIFICATION FairSpec
CONSTANTS
  c1 = c1
  c2 = c2
  Nothing = Nothing
  Claim = {c1, c2}
  Size = {1, 9, 17}
  Mi = 2
  Gi = 8
  Word = 64
  MaxLosses = 1
INVARIANTS MetaIsPV RestoredFits
PROPERTIES AtLeastAsked ExpansionEnds
CHECK_DEADLOCK FALSE
