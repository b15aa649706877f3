-------------------------------- MODULE Batch --------------------------------
(***************************************************************************)
(* What the harness relies on when it asks a batch of queries: each gets   *)
(* one item, once, whatever its thread does before or after.  A query      *)
(* waits for a free thread of the pool; one that is given up while it      *)
(* waits never runs, one that is given up while it runs keeps its thread,  *)
(* and what that thread finds is dropped.                                  *)
(***************************************************************************)
EXTENDS Naturals, FiniteSets

CONSTANTS
  Query,
  Workers,  \* threads of the pool
  Result    \* what an item may say, "timeout" among it

VARIABLES
  given,  \* given[q]: the item of query q, or "none"
  stage   \* stage[q]: it waits, it runs, or it is over

batch == <<given, stage>>

Running == {q \in Query : stage[q] = "runs"}

Init ==
  /\ given = [q \in Query |-> "none"]
  /\ stage = [q \in Query |-> "waits"]

Start(q) ==
  /\ stage[q] = "waits" /\ given[q] = "none"
  /\ Cardinality(Running) < Workers
  /\ stage' = [stage EXCEPT ![q] = "runs"]
  /\ UNCHANGED given

\* a deadline passes
GiveUp(q) ==
  /\ given[q] = "none"
  /\ given' = [given EXCEPT ![q] = "timeout"]
  /\ stage' = [stage EXCEPT ![q] = IF @ = "waits" THEN "over" ELSE @]

\* with an item if it is not too late
Finish(q) ==
  /\ stage[q] = "runs"
  /\ stage' = [stage EXCEPT ![q] = "over"]
  /\ IF given[q] = "none"
     THEN \E result \in Result : given' = [given EXCEPT ![q] = result]
     ELSE UNCHANGED given

Next == \E q \in Query : Start(q) \/ GiveUp(q) \/ Finish(q)

Spec == Init /\ [][Next]_batch
=============================================================================
