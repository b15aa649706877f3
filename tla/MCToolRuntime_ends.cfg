SPECIFICATION FairSpec
CONSTANTS
  c1 = c1
  c2 = c2
  c3 = c3
  k = k
  NoKey = NoKey
  Calls = {c1, c2}
  Keys = {k}
  KeyOf <- OneKey
  MaxAttempts = 2
  Threshold = 2
  SideEffecting = TRUE
  SyncHandler = TRUE
  Durable = TRUE
  MaxCrashes = 1
PROPERTIES
  EveryCallEnds
  BoundedCalls
  FinalIsNotDoneAgain
  KeepsPromise
CHECK_DEADLOCK FALSE
