SPECIFICATION FairSpec
CONSTANTS
  t1 = t1
  t2 = t2
  Target = {t1, t2}
  Block = {t2}
  Readonly = {t1}
  MaxLate = 2
  MaxFaults = 2
CHECK_DEADLOCK FALSE
INVARIANTS RunningHasVolume ReadonlyHonoured GoneIsClean
PROPERTIES TeardownEnds
