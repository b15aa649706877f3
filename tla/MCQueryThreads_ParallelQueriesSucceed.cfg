SPECIFICATION Spec
CONSTANTS
  q1 = q1
  q2 = q2
  q3 = q3
  None = None
  Queries = {q1, q2}
  Pool = 2
  MaxAttempts = 2
  Threshold = 2
  MayFail = FALSE
INVARIANT ParallelQueriesSucceed
CHECK_DEADLOCK FALSE
