SPECIFICATION FairSpec
CONSTANTS
  r1 = r1
  r2 = r2
  Requests = {r1, r2}
  Targets <- MCTargets
  Broken = {2}
  Blank = {}
  Codes = {200, 502, 504}
  MaxVersion = 2
INVARIANTS
  StaleIsNoticed
  WarmKeysServe
  BodyWasConfigured
  AlarmTruth
PROPERTY EventuallyFresh
CHECK_DEADLOCK FALSE
