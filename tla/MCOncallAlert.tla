---------------------------- MODULE MCOncallAlert ----------------------------
(***************************************************************************)
(* Values for the constants of OncallAlert: two orders of one flow and     *)
(* business, one of them delivered with every gap the handler looks at.    *)
(***************************************************************************)
EXTENDS OncallAlert, TLC

CONSTANTS o1, o2, d1, d2, P0, P1, flow, r1, c1, Nothing

Body(action, order, level, stage) ==
  [Action |-> action,
   OncallFlow |->
     [Id |-> order, TenantId |-> "rdTenant", Level |-> level, Stage |-> stage,
      CrossOncallFlowId |-> flow, Described |-> TRUE]]

Complete == Body("init", o1, P0, "doing")

MCRequests ==
  {Complete,
   [Body("init", o1, P1, "doing") EXCEPT !.OncallFlow.TenantId = "newTenant",
                                         !.OncallFlow.CrossOncallFlowId = Nothing],
   Body("", o2, P0, Nothing),
   Body("init", o1, P0, "not_start"),
   [Body("solve_flow", o1, Nothing, "doing") EXCEPT !.OncallFlow.Described = FALSE],
   [Complete EXCEPT !.OncallFlow.TenantId = Nothing]}

Card(type, id, level) ==
  [AlertContext |->
     [metricType |-> type, originalOncallId |-> id, workOrderLevel |-> level]]

MCCardRequests ==
  {[AlertContext |-> Nothing], Card("other", o1, P0), Card("workOrderLevel", "malformed", P0),
   Card("workOrderLevel", o1, P0), Card("workOrderLevel", o1, Nothing)}

Symmetric == Permutations(Deliveries) \cup Permutations(Replicas)

=============================================================================
