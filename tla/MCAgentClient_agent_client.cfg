SPECIFICATION Spec
CONSTANTS
  g1 = g1
  g2 = g2
  g3 = g3
  None = None
  Goroutines = {g1, g2, g3}
INVARIANTS
  NothingOnlyAfterError
  OneForAll
PROPERTY EveryCallReturns
CHECK_DEADLOCK FALSE
