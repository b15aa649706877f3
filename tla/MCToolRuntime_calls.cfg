SPECIFICATION Spec
CONSTANTS
  c1 = c1
  c2 = c2
  c3 = c3
  k = k
  NoKey = NoKey
  Calls = {c1, c2, c3}
  Keys = {k}
  KeyOf <- MixedKeys
  MaxAttempts = 2
  Threshold = 2
  SideEffecting = FALSE
  SyncHandler = TRUE
  Durable = TRUE
  MaxCrashes = 1
SYMMETRY SameKey
INVARIANTS
  BreakerAgrees
  ReplaySound
  SuccessIsRecorded
  AuditAgrees
CHECK_DEADLOCK FALSE
