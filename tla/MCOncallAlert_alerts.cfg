SPECIFICATION Spec
CONSTANTS
  o1 = o1
  o2 = o2
  d1 = d1
  d2 = d2
  P0 = P0
  P1 = P1
  flow = flow
  r1 = r1
  c1 = c1
  Nothing = Nothing
  Nil = Nothing
  Orders = {o1, o2}
  Levels = {P0, P1}
  Tenants = {"rdTenant", "newTenant"}
  CrossFlows = {flow}
  Deliveries = {d1, d2}
  Replicas = {r1}
  Cards = {c1}
  Requests <- MCRequests
  CardRequests <- MCCardRequests
SYMMETRY Symmetric
INVARIANTS
  DuplicateMeansRace
  SilenceIsJustified
  SilencedStaysSilent
  LaterDeliveryWins
  MarkedMeansAsked
  EveryAlertHasItsRecord
PROPERTIES
  KeepsBook
CHECK_DEADLOCK FALSE
