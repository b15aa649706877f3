---------------------------- MODULE HarnessProofs ----------------------------
(***************************************************************************)
(* Proofs about Harness, for every value of its constants.                 *)
(***************************************************************************)
EXTENDS Harness, FiniteSetTheorems, WellFoundedInduction, TLAPS

-----------------------------------------------------------------------------
(***************************************************************************)
(* Operators of the model.                                                 *)
(***************************************************************************)

(***************************************************************************)
(* A nonempty set of natural numbers has a least element.                  *)
(***************************************************************************)
LEMMA LeastElement ==
  ASSUME NEW S \in SUBSET Nat, S # {}
  PROVE  \E n \in S : \A m \in S : n <= m
<1>1. PICK n \in S : \A m \in S : ~(<<m, n>> \in OpToRel(<, Nat))
  BY NatLessThanWellFounded, WFMin
<1>2. \A m \in Nat : m < n => <<m, n>> \in OpToRel(<, Nat)
  BY DEF OpToRel
<1>3. \A m \in S : ~(m < n)
  BY <1>1, <1>2
<1> QED BY <1>3

\* The indices up to n are a finite set of n elements.
LEMMA InitialSegment ==
  ASSUME NEW n \in Nat
  PROVE  IsFiniteSet(1 .. n) /\ Cardinality(1 .. n) = n
<1>1. IsFiniteSet(1 .. n) /\ Cardinality(1 .. n) = IF 1 > n THEN 0 ELSE n - 1 + 1
  BY FS_Interval
<1> QED BY <1>1

(***************************************************************************)
(* FirstObserved (ledger.observed(q)[0]) is an observed item of the query  *)
(* whenever the ledger has one.                                            *)
(***************************************************************************)
LEMMA FirstObservedIsObserved ==
  ASSUME NEW ev \in Seq(Item), NEW q \in Query, HasObserved(ev, q)
  PROVE  /\ FirstObserved(ev, q) \in DOMAIN ev
         /\ ev[FirstObserved(ev, q)].query = q
         /\ ev[FirstObserved(ev, q)].status = "observed"
<1> DEFINE O == {i \in DOMAIN ev : ev[i].query = q /\ ev[i].status = "observed"}
<1>1. O \in SUBSET Nat /\ O # {}
  BY DEF HasObserved
<1>2. PICK n \in O : \A m \in O : n <= m
  BY <1>1, LeastElement
<1>3. \E i \in Indices(ev, q) :
        /\ ev[i].status = "observed"
        /\ \A j \in Indices(ev, q) : ev[j].status = "observed" => i <= j
  BY <1>2 DEF Indices
<1>4. /\ FirstObserved(ev, q) \in Indices(ev, q)
      /\ ev[FirstObserved(ev, q)].status = "observed"
  BY <1>3 DEF FirstObserved
<1> QED BY <1>4 DEF Indices

(***************************************************************************)
(* Cutting a plan to the budget gives a plan made of the first steps of it *)
(* that fits in what is left of the budget.                                *)
(***************************************************************************)
LEMMA TruncatedIsPrefix ==
  ASSUME NEW steps \in Seq(Step), NEW ev \in Seq(Item)
  PROVE  /\ Truncated(steps, ev) \in Seq(Step)
         /\ DOMAIN Truncated(steps, ev) \subseteq DOMAIN steps
         /\ \A i \in DOMAIN Truncated(steps, ev) : Truncated(steps, ev)[i] = steps[i]
         /\ Len(ev) <= MaxQueries => Len(ev) + Len(Truncated(steps, ev)) <= MaxQueries
<1> DEFINE left == MaxQueries - Len(ev)
<1>0. /\ left \in Int /\ Len(ev) \in Nat /\ MaxQueries = Len(ev) + left
      /\ Len(steps) \in Nat /\ DOMAIN steps = 1 .. Len(steps)
  BY BudgetAssumption
<1>1. CASE left >= Len(steps)
  <2>1. Truncated(steps, ev) = steps
    BY <1>1 DEF Truncated
  <2> QED BY <1>0, <1>1, <2>1
<1>2. CASE left < Len(steps) /\ left > 0
  <2>1. Truncated(steps, ev) = SubSeq(steps, 1, left)
    BY <1>0, <1>2 DEF Truncated
  <2>2. /\ SubSeq(steps, 1, left) \in Seq(Step)
        /\ Len(SubSeq(steps, 1, left)) = left
        /\ \A i \in 1 .. left : SubSeq(steps, 1, left)[i] = steps[i]
    BY <1>0, <1>2
  <2> QED BY <1>0, <1>2, <2>1, <2>2
<1>3. CASE left < Len(steps) /\ ~(left > 0)
  <2>1. Truncated(steps, ev) = <<>>
    BY <1>0, <1>3 DEF Truncated
  <2> QED BY <1>0, <1>3, <2>1
<1> HIDE DEF left
<1> QED BY <1>0, <1>1, <1>2, <1>3

-----------------------------------------------------------------------------
(***************************************************************************)
(* The plans of the planner.                                               *)
(***************************************************************************)

(***************************************************************************)
(* The steps at positions I of a plan ask nothing that has been answered,  *)
(* and no two of them ask the same; query.ir is free to do both.           *)
(***************************************************************************)
Fresh(steps, I, ev) ==
  \A i \in I : steps[i].query \in Catalog =>
    /\ ~HasObserved(ev, steps[i].query)
    /\ \A j \in I : i # j => steps[j].query # steps[i].query

NoRepeat(ev) ==
  \A i, j \in DOMAIN ev :
    i < j /\ ev[i].query = ev[j].query /\ ev[i].query \in Catalog
    => ev[i].status # "observed"

(***************************************************************************)
(* If success has never been repeated, a query whose latest item failed    *)
(* has never succeeded: retryable_failed, which looks at the latest item   *)
(* only, is enough for the retry branch not to repeat a success.           *)
(***************************************************************************)
LEMMA FailedLatestNeverObserved ==
  ASSUME NEW ev \in Seq(Item), NoRepeat(ev),
         NEW q \in RetryableFailed(ev) \cap Catalog
  PROVE  ~HasObserved(ev, q)
<1>1. PICK i \in DOMAIN ev : ev[i].query = q /\ IsLatest(ev, i) /\ ev[i].status = "retryable"
  BY DEF RetryableFailed
<1>2. SUFFICES ASSUME NEW j \in DOMAIN ev, ev[j].query = q, ev[j].status = "observed"
               PROVE  FALSE
  BY DEF HasObserved
<1>3. j < i
  BY <1>1, <1>2 DEF IsLatest
<1> QED BY <1>1, <1>2, <1>3 DEF NoRepeat

\* The catalog is finite, so a set of retries can be listed as a plan.
LEMMA CatalogIsFinite == IsFiniteSet(Catalog)
<1> DEFINE all == <<"ping.summary", "ping.trend", "ping.by_asn", "ping.by_prefix24",
                    "ping.outliers", "ping.compare_window", "trace.paths",
                    "trace.path_change">>
<1>1. all \in Seq(Catalog) /\ Len(all) = 8
  BY DEF Catalog
<1>2. \A q \in Catalog : \E n \in 1 .. 8 : all[n] = q
  BY DEF Catalog
<1>3. \A q \in Catalog : \E n \in 1 .. Len(all) : all[n] = q
  BY <1>1, <1>2
<1> HIDE DEF all
<1> QED BY <1>1, <1>3 DEF IsFiniteSet

\* The steps of a retry are finitely many.
LEMMA RetriesAreFinite ==
  ASSUME NEW ev \in Seq(Item)
  PROVE  IsFiniteSet({Plain(q) : q \in RetryableFailed(ev) \cap Catalog})
<1> DEFINE Q == RetryableFailed(ev) \cap Catalog
           S == {Plain(q) : q \in Q}
           f == [q \in Q |-> Plain(q)]
<1>1. IsFiniteSet(Q)
  BY CatalogIsFinite, FS_Subset
<1>2. f \in Surjection(Q, S)
  BY DEF Surjection
<1>3. IsFiniteSet(S)
  <2> HIDE DEF Q, S, f
  <2> QED BY <1>1, <1>2, FS_Surjection
<1> QED BY <1>3

(***************************************************************************)
(* The retry branch lists each failed query once.                          *)
(***************************************************************************)
LEMMA RetryPlansAreFresh ==
  ASSUME NEW ev \in Seq(Item), NEW steps \in RetryPlans(ev)
  PROVE  steps \in Seq(Step) /\ (NoRepeat(ev) => Fresh(steps, DOMAIN steps, ev))
<1> DEFINE Q == RetryableFailed(ev) \cap Catalog
           S == {Plain(q) : q \in Q}
<1>1. IsFiniteSet(S)
  BY RetriesAreFinite
<1>2. S \subseteq Step
  BY DEF Plain, Step, Scope, Query
<1>3. Cardinality(S) \in Nat
  BY <1>1, FS_CardinalityType
<1> DEFINE D == 1 .. Cardinality(S)
<1>4. steps \in [D -> S] /\ \A i, j \in D : i # j => steps[i] # steps[j]
  BY DEF RetryPlans, SetToSeqs
<1>5. steps \in Seq(Step) /\ DOMAIN steps = D
  BY <1>2, <1>3, <1>4
<1>6. \A i \in D : steps[i].query \in Q /\ steps[i] = Plain(steps[i].query)
  <2>1. \A s \in S : s.query \in Q /\ s = Plain(s.query)
    BY DEF Plain
  <2>2. \A i \in D : steps[i] \in S
    BY <1>4
  <2> QED BY <2>1, <2>2
<1>7. NoRepeat(ev) => \A i \in D : ~HasObserved(ev, steps[i].query)
  BY <1>6, FailedLatestNeverObserved
<1>8. \A i, j \in D : i # j => steps[i].query # steps[j].query
  BY <1>4, <1>6
<1> HIDE DEF D
<1> QED BY <1>5, <1>7, <1>8 DEF Fresh

(***************************************************************************)
(* Every query the recipe asks for is a catalog query not yet answered.    *)
(***************************************************************************)
LEMMA RecipeQueryIsFresh ==
  ASSUME NEW t \in Task, NEW ev \in Seq(Item), RecipeQuery(t, ev) # None
  PROVE  RecipeQuery(t, ev) \in Catalog /\ ~HasObserved(ev, RecipeQuery(t, ev))
<1>1. EarlyQuery(t, ev) # None =>
        EarlyQuery(t, ev) \in Catalog /\ ~HasObserved(ev, EarlyQuery(t, ev))
  BY DEF EarlyQuery, Catalog
<1>2. DrilldownQuery(t, ev) # None =>
        DrilldownQuery(t, ev) \in Catalog /\ ~HasObserved(ev, DrilldownQuery(t, ev))
  BY DEF DrilldownQuery, Catalog
<1> QED BY <1>1, <1>2 DEF RecipeQuery

(***************************************************************************)
(* Whatever plan the planner chooses, the recipe's or the model's, it is   *)
(* a list of steps that repeats no success, if none has been repeated yet. *)
(***************************************************************************)
LEMMA PlannerPlansAreFresh ==
  ASSUME NEW t \in Task, NEW ev \in Seq(Item),
         NEW steps \in PlannerPlans(t, ev)
  PROVE  steps \in Seq(Step) /\ (NoRepeat(ev) => Fresh(steps, DOMAIN steps, ev))
<1>1. CASE steps = <<>>
  BY <1>1 DEF Fresh
<1>2. CASE ev = <<>> /\ steps = InitialPlan(t)
  <2>1. \A q \in Query : ~HasObserved(ev, q)
    BY <1>2 DEF HasObserved
  <2>2. CASE t.needs_baseline
    <3>1. steps = <<Plain("ping.compare_window"), Plain("ping.summary"), Plain("ping.trend")>>
      BY <1>2, <2>2 DEF InitialPlan
    <3> QED BY <2>1, <3>1 DEF Fresh, Plain, Step, Scope, Query, Catalog
  <2>3. CASE ~t.needs_baseline
    <3>1. steps = <<Plain("ping.summary"), Plain("ping.trend")>>
      BY <1>2, <2>3 DEF InitialPlan
    <3> QED BY <2>1, <3>1 DEF Fresh, Plain, Step, Scope, Query, Catalog
  <2> QED BY <2>2, <2>3
<1>3. CASE steps \in RetryPlans(ev)
  BY <1>3, RetryPlansAreFresh
<1>4. ASSUME NEW s \in Step, steps = <<s>>,
             s.query \in Catalog => ~HasObserved(ev, s.query)
      PROVE  steps \in Seq(Step) /\ Fresh(steps, DOMAIN steps, ev)
  BY <1>4 DEF Fresh
<1>5. CASE /\ RecipeQuery(t, ev) # None
           /\ steps = <<[query |-> RecipeQuery(t, ev),
                        scope |-> RecipeScope(ev, RecipeQuery(t, ev)), deps |-> {}]>>
  <2>1. RecipeScope(ev, RecipeQuery(t, ev)) \in Scope
    BY DEF RecipeScope, Scope
  <2>2. [query |-> RecipeQuery(t, ev),
         scope |-> RecipeScope(ev, RecipeQuery(t, ev)), deps |-> {}] \in Step
    BY <1>5, <2>1, RecipeQueryIsFresh DEF Step, Query
  <2> QED BY <1>4, <1>5, <2>2, RecipeQueryIsFresh
<1>6. ASSUME NEW s \in LLMSteps(t, ev), steps = <<s>>
      PROVE  steps \in Seq(Step) /\ Fresh(steps, DOMAIN steps, ev)
  <2>1. PICK q \in LLMQueries(t, ev) :
          s \in [query : {q}, scope : LLMScopes(q),
                 deps : IF q = "query.ir" THEN {{}} ELSE Dependencies]
    BY <1>6 DEF LLMSteps
  <2>2. q \in Query /\ (q # "query.ir" => ~HasObserved(ev, q))
    BY InputAssumption DEF LLMQueries
  <2>3. LLMScopes(q) \subseteq Scope
    BY <2>2 DEF LLMScopes, Scope, Query, Catalog
  <2>4. s \in Step /\ s.query = q
    BY <2>1, <2>2, <2>3, InputAssumption DEF Step
  <2>5. "query.ir" \notin Catalog
    BY DEF Catalog
  <2> QED BY <1>4, <1>6, <2>2, <2>4, <2>5
<1> QED BY <1>1, <1>2, <1>3, <1>5, <1>6 DEF PlannerPlans, RecipePlans

-----------------------------------------------------------------------------
(***************************************************************************)
(* The facts of the verifier.                                              *)
(***************************************************************************)

(***************************************************************************)
(* What a fact cites: observed items of exactly its sources.               *)
(***************************************************************************)
WellCited(f, ev) ==
  /\ f.ids \subseteq DOMAIN ev
  /\ \A i \in f.ids : ev[i].status = "observed"
  /\ {ev[i].query : i \in f.ids} = Sources(f.fact)

\* Every fact the verifier derives is well cited at that moment.
LEMMA FactsAreWellCited ==
  ASSUME NEW t \in Task, NEW ev \in Seq(Item), NEW f \in FactsOf(t, ev)
  PROVE  f \in Fact /\ WellCited(f, ev)
<1>1. PICK g \in FactName :
        /\ \A q \in Sources(g) : HasObserved(ev, q)
        /\ f = [fact |-> g, ids |-> {FirstObserved(ev, q) : q \in Sources(g)}]
  BY DEF FactsOf
<1>2. Sources(g) \subseteq Query
  BY DEF Sources, FactName, Query, Catalog
<1>3. \A q \in Sources(g) : /\ FirstObserved(ev, q) \in DOMAIN ev
                            /\ ev[FirstObserved(ev, q)].query = q
                            /\ ev[FirstObserved(ev, q)].status = "observed"
  BY <1>1, <1>2, FirstObservedIsObserved
<1>4. DOMAIN ev \subseteq Nat \ {0}
  OBVIOUS
<1>5. f \in Fact
  BY <1>1, <1>3, <1>4 DEF Fact
<1>6. f.fact = g /\ f.ids = {FirstObserved(ev, q) : q \in Sources(g)}
  BY <1>1
<1>7. {ev[i].query : i \in f.ids} = Sources(g)
  BY <1>3, <1>6
<1> QED BY <1>3, <1>5, <1>6, <1>7 DEF WellCited

-----------------------------------------------------------------------------
(***************************************************************************)
(* Type correctness: every variable keeps its type in every reachable      *)
(* state, whatever the model proposes and the tools return.                *)
(***************************************************************************)
LEMMA OutcomesAreItems ==
  ASSUME NEW step \in Step, NEW item \in Outcomes(step)
  PROVE  item \in Item /\ item.query = step.query
<1>1. step.query \in Query /\ step.scope \in Scope
  BY DEF Step
<1>2. Answers[step.query] \subseteq Datum
  BY <1>1, InputAssumption
<1>3. NoData \in Datum
  BY DEF NoData, Datum
<1> QED BY <1>1, <1>2, <1>3 DEF Outcomes, Item, Status

\* The initial state has the types of TypeOK.
LEMMA InitType == Init => TypeOK
<1> SUFFICES ASSUME Init PROVE TypeOK
  OBVIOUS
<1>1. verification \in Verification
  BY DEF Init, Verification, Verdict
<1>2. plan \in Seq(Step) /\ evidence \in Seq(Item)
  BY DEF Init
<1> QED BY <1>1, <1>2, InputAssumption DEF Init, TypeOK, Node

\* Every node, the routing function and the deadline keep the types.
LEMMA NextType == TypeOK /\ [Next]_vars => TypeOK'
<1> SUFFICES ASSUME TypeOK, [Next]_vars PROVE TypeOK'
  OBVIOUS
<1> USE DEF TypeOK
<1>1. CASE Understand
  BY <1>1, InputAssumption DEF Understand, EnrichedTasks, Node
<1>2. CASE Context
  BY <1>2 DEF Context, Node
<1>3. CASE ContextRaises \/ PlannerRaises \/ VerifierFails
  BY <1>3 DEF ContextRaises, PlannerRaises, VerifierFails, Raise, Terminal
<1>4. CASE Planner
  <2>1. PICK steps \in PlannerPlans(task, evidence) :
          plan' = Truncated(steps, evidence) /\ pending' = DOMAIN plan'
    BY <1>4 DEF Planner
  <2>2. steps \in Seq(Step)
    BY PlannerPlansAreFresh
  <2>3. plan' \in Seq(Step)
    BY <2>1, <2>2, TruncatedIsPrefix
  <2> QED BY <1>4, <2>1, <2>3 DEF Planner, Node
<1>5. CASE ExecuteStep
  <2>1. PICK k \in pending : /\ \E item \in Outcomes(plan[k]) : evidence' = Append(evidence, item)
                             /\ pending' = pending \ {k}
    BY <1>5 DEF ExecuteStep
  <2>2. plan[k] \in Step
    OBVIOUS
  <2>3. Outcomes(plan[k]) \subseteq Item
    BY <2>2, OutcomesAreItems
  <2>4. evidence' \in Seq(Item)
    BY <2>1, <2>3
  <2> QED BY <1>5, <2>1, <2>4 DEF ExecuteStep
<1>6. CASE ExecutorDone
  BY <1>6 DEF ExecutorDone, Node
<1>7. CASE Verifier
  <2>1. PICK semantic \in CriticObjectives :
          verification' =
            [verdict |-> VerdictOf(task, evidence, FactsOf(task, evidence),
                                   Missing(task, evidence) \cup semantic),
             facts |-> FactsOf(task, evidence),
             objectives |-> Missing(task, evidence) \cup semantic]
    BY <1>7 DEF Verifier
  <2>2. FactsOf(task, evidence) \subseteq Fact
    BY FactsAreWellCited
  <2>3. Missing(task, evidence) \cup semantic \subseteq Objective
    BY DEF Missing, CriticObjectives, Objective
  <2>4. VerdictOf(task, evidence, FactsOf(task, evidence),
                  Missing(task, evidence) \cup semantic) \in Verdict
    BY DEF VerdictOf, Verdict
  <2>5. verification' \in Verification
    BY <2>1, <2>2, <2>3, <2>4 DEF Verification
  <2> QED BY <1>7, <2>5 DEF Verifier, Node
<1>8. CASE AfterVerifier
  BY <1>8 DEF AfterVerifier, Node
<1>9. CASE Synthesizer
  BY <1>9 DEF Synthesizer, Verification, Terminal
<1>10. CASE Deadline
  BY <1>10 DEF Deadline
<1>11. CASE UNCHANGED vars
  BY <1>11 DEF vars
<1> QED BY <1>1, <1>2, <1>3, <1>4, <1>5, <1>6, <1>7, <1>8, <1>9, <1>10, <1>11
        DEF Next, RunNode

\* Every variable keeps its type: the nodes only pass each other plans of
\* catalog steps, items of the ledger and facts that exist.
THEOREM TypeCorrect == Spec => []TypeOK
  BY InitType, NextType, PTL DEF Spec

-----------------------------------------------------------------------------
(***************************************************************************)
(* The budgets.  WithinBudget is not inductive: that a second round begins *)
(* below max_rounds is known to the routing function, and lost by the time *)
(* the planner counts the round, unless the invariant says where it holds. *)
(***************************************************************************)
BudgetInv ==
  /\ WithinBudget
  /\ pc \in {"understand", "context"} => round = 0
  /\ pc = "planner" => round = 0 \/ round < MaxRounds
  /\ pc # "executor" => pending = {}

\* Every step keeps the budget invariant: only the planner adds pending
\* queries, and it is cut to what is left.
LEMMA BudgetNext == TypeOK /\ BudgetInv /\ [Next]_vars => BudgetInv'
<1> SUFFICES ASSUME TypeOK, BudgetInv, [Next]_vars PROVE BudgetInv'
  OBVIOUS
<1> USE BudgetAssumption DEF BudgetInv, WithinBudget
<1>0. /\ round \in Nat /\ Len(evidence) \in Nat
      /\ IsFiniteSet(pending) /\ Cardinality(pending) \in Nat
  <2>1. plan \in Seq(Step) /\ evidence \in Seq(Item) /\ pending \subseteq DOMAIN plan /\ round \in Nat
    BY DEF TypeOK
  <2>2. DOMAIN plan = 1 .. Len(plan) /\ Len(plan) \in Nat
    BY <2>1
  <2>3. IsFiniteSet(pending)
    BY <2>1, <2>2, InitialSegment, FS_Subset
  <2> QED BY <2>1, <2>3, FS_CardinalityType
<1>1. CASE Planner
  <2>1. PICK steps \in PlannerPlans(task, evidence) :
          plan' = Truncated(steps, evidence) /\ pending' = DOMAIN plan'
    BY <1>1 DEF Planner
  <2>2. steps \in Seq(Step)
    BY PlannerPlansAreFresh DEF TypeOK
  <2>3. Len(evidence) <= MaxQueries
    BY <1>0
  <2>4. plan' \in Seq(Step) /\ Len(evidence) + Len(plan') <= MaxQueries
    BY <2>1, <2>2, <2>3, TruncatedIsPrefix DEF TypeOK
  <2>5. pending' = 1 .. Len(plan') /\ Len(plan') \in Nat
    BY <2>1, <2>4
  <2>6. Cardinality(pending') = Len(plan')
    BY <2>5, InitialSegment
  <2>7. round' <= 1 \/ round' <= MaxRounds
    BY <1>0, <1>1 DEF Planner
  <2> QED BY <1>1, <2>4, <2>6, <2>7 DEF Planner
<1>2. CASE ExecuteStep
  <2>1. PICK k \in pending : /\ \E item \in Outcomes(plan[k]) : evidence' = Append(evidence, item)
                             /\ pending' = pending \ {k}
    BY <1>2 DEF ExecuteStep
  <2>2. Cardinality(pending') = Cardinality(pending) - 1
    BY <1>0, <2>1, FS_RemoveElement
  <2>3. Len(evidence') = Len(evidence) + 1
    BY <2>1 DEF TypeOK
  <2> QED BY <1>0, <1>2, <2>2, <2>3 DEF ExecuteStep
<1>3. CASE AfterVerifier
  BY <1>3 DEF AfterVerifier, ShouldRetry
<1>4. CASE Understand \/ Context \/ ContextRaises \/ PlannerRaises \/ ExecutorDone
           \/ Verifier \/ VerifierFails \/ Synthesizer \/ Deadline
  BY <1>4 DEF Understand, Context, ContextRaises, PlannerRaises, Raise, ExecutorDone,
              Verifier, VerifierFails, Synthesizer, Deadline
<1>5. CASE UNCHANGED vars
  BY <1>5 DEF vars
<1> QED BY <1>1, <1>2, <1>3, <1>4, <1>5 DEF Next, RunNode

\* The budget invariant holds at every instant.
LEMMA BudgetAlways == Spec => []BudgetInv
<1>1. Init => BudgetInv
  BY BudgetAssumption, FS_EmptySet DEF Init, BudgetInv, WithinBudget
<1> QED BY <1>1, BudgetNext, TypeCorrect, PTL DEF Spec

(***************************************************************************)
(* The queries asked and pending never exceed max_queries, and the rounds  *)
(* never exceed max_rounds, whatever the model plans and the critic wants. *)
(***************************************************************************)
THEOREM BudgetsHold == Spec => []WithinBudget
<1>1. BudgetInv => WithinBudget
  BY DEF BudgetInv
<1> QED BY <1>1, BudgetAlways, PTL

-----------------------------------------------------------------------------
(***************************************************************************)
(* Termination, as far as it is safety: each step leaves less to do, and   *)
(* while something is left there is a step to take.                        *)
(***************************************************************************)

\* The parts of StepsLeft are natural numbers, and the planner has a round.
LEMMA PartsOfStepsLeft ==
  TypeOK /\ BudgetInv =>
    /\ Rounds \in Nat /\ round \in Nat /\ round <= Rounds
    /\ pc = "planner" => round < Rounds
    /\ IsFiniteSet(pending) /\ Cardinality(pending) \in Nat
    /\ pc # "executor" => Cardinality(pending) = 0
    /\ Len(evidence) \in Nat
<1> SUFFICES ASSUME TypeOK, BudgetInv
             PROVE  /\ Rounds \in Nat /\ round \in Nat /\ round <= Rounds
                    /\ pc = "planner" => round < Rounds
                    /\ IsFiniteSet(pending) /\ Cardinality(pending) \in Nat
                    /\ pc # "executor" => Cardinality(pending) = 0
                    /\ Len(evidence) \in Nat
  OBVIOUS
<1>1. /\ Rounds \in Nat /\ round \in Nat /\ round <= Rounds
      /\ pc = "planner" => round < Rounds
  BY BudgetAssumption DEF Rounds, TypeOK, BudgetInv, WithinBudget
<1>2. IsFiniteSet(pending) /\ Cardinality(pending) \in Nat
  <2>1. pending \subseteq 1 .. Len(plan) /\ Len(plan) \in Nat
    BY DEF TypeOK
  <2>2. IsFiniteSet(pending)
    BY <2>1, InitialSegment, FS_Subset
  <2> QED BY <2>2, FS_CardinalityType
<1>3. pc # "executor" => Cardinality(pending) = 0
  BY FS_EmptySet DEF BudgetInv
<1> QED BY <1>1, <1>2, <1>3 DEF TypeOK

\* The rounds that are left, in steps: a round less is a RoundLength less.
LEMMA OneRoundLess ==
  ASSUME NEW a \in Nat, NEW b \in Nat, NEW c \in Nat
  PROVE  /\ b <= a => (a - b) * c \in Nat
         /\ (a - (b + 1)) * c = (a - b) * c - c
  OBVIOUS

\* In every state a natural number of steps is left.
LEMMA StepsLeftIsNatural == TypeOK /\ BudgetInv => StepsLeft \in Nat
<1> SUFFICES ASSUME TypeOK, BudgetInv PROVE StepsLeft \in Nat
  OBVIOUS
<1>1. RoundLength \in Nat
  BY BudgetAssumption DEF RoundLength
<1>2. (Rounds - round) * RoundLength \in Nat
  BY <1>1, PartsOfStepsLeft, OneRoundLess
<1>3. NodesLeft[pc] \in Nat
  BY DEF NodesLeft, TypeOK, Node, Terminal
<1> QED BY <1>2, <1>3, PartsOfStepsLeft DEF StepsLeft

\* Every step that is taken leaves less: the planner gives up a round, the
\* executor a pending query, the other nodes their place, the clock its turn.
LEMMA StepsLeftDecreases == TypeOK /\ BudgetInv /\ Next => StepsLeft' < StepsLeft
<1> SUFFICES ASSUME TypeOK, BudgetInv, Next PROVE StepsLeft' < StepsLeft
  OBVIOUS
<1> DEFINE rounds == (Rounds - round) * RoundLength
           asked  == Cardinality(pending)
           clock  == IF late THEN 0 ELSE 1
<1>0. RoundLength \in Nat /\ RoundLength = MaxQueries + 4 /\ MaxQueries \in Nat
  BY BudgetAssumption DEF RoundLength
<1>1. rounds \in Nat /\ asked \in Nat /\ clock \in 0 .. 1
  BY <1>0, PartsOfStepsLeft, OneRoundLess
<1>2. StepsLeft = rounds + NodesLeft[pc] + asked + clock
  BY DEF StepsLeft
<1>3. StepsLeft' = rounds' + NodesLeft[pc'] + asked' + clock'
  BY DEF StepsLeft
<1>4. /\ NodesLeft["end"] = 0 /\ NodesLeft["failed"] = 0
      /\ NodesLeft["planner"] = 1 /\ NodesLeft["synthesizer"] = 1
      /\ NodesLeft["context"] = 2 /\ NodesLeft["route"] = 2
      /\ NodesLeft["understand"] = 3 /\ NodesLeft["verifier"] = 3
      /\ NodesLeft["executor"] = 4
  BY DEF NodesLeft, Node, Terminal
<1>5. CASE Planner
  <2>1. PICK steps \in PlannerPlans(task, evidence) :
          plan' = Truncated(steps, evidence) /\ pending' = DOMAIN plan'
    BY <1>5 DEF Planner
  <2>2. steps \in Seq(Step)
    BY PlannerPlansAreFresh DEF TypeOK
  <2>3. Len(evidence) <= MaxQueries
    BY <1>0, <1>1, PartsOfStepsLeft DEF BudgetInv, WithinBudget
  <2>4. plan' \in Seq(Step) /\ Len(evidence) + Len(plan') <= MaxQueries
    BY <2>1, <2>2, <2>3, TruncatedIsPrefix DEF TypeOK
  <2>5. pending' = 1 .. Len(plan') /\ Len(plan') \in Nat
    BY <2>1, <2>4
  <2>6. asked' = Len(plan')
    BY <2>5, InitialSegment
  <2>7. asked' \in Nat /\ asked' <= MaxQueries
    BY <1>0, <2>4, <2>5, <2>6, PartsOfStepsLeft
  <2>8. rounds' = rounds - RoundLength
    <3>1. round' = round + 1 /\ RoundLength' = RoundLength /\ Rounds' = Rounds
      BY <1>5 DEF Planner, Rounds, RoundLength
    <3>2. Rounds \in Nat /\ round \in Nat
      BY PartsOfStepsLeft
    <3>3. (Rounds - (round + 1)) * RoundLength = (Rounds - round) * RoundLength - RoundLength
      <4> HIDE DEF rounds
      <4> QED BY <1>0, <3>2, OneRoundLess
    <3> QED BY <3>1, <3>3
  <2>9. pc = "planner" /\ pc' = "executor" /\ clock' = clock
    BY <1>5 DEF Planner
  <2> HIDE DEF rounds, asked, clock
  <2> QED BY <1>0, <1>1, <1>2, <1>3, <1>4, <2>7, <2>8, <2>9
<1>6. CASE ExecuteStep
  <2>1. PICK k \in pending : pending' = pending \ {k}
    BY <1>6 DEF ExecuteStep
  <2>2. asked' = asked - 1
    BY <2>1, PartsOfStepsLeft, FS_RemoveElement
  <2>3. rounds' = rounds /\ pc' = pc /\ pc = "executor" /\ clock' = clock
    BY <1>6 DEF ExecuteStep
  <2> HIDE DEF rounds, asked, clock
  <2> QED BY <1>1, <1>2, <1>3, <1>4, <2>2, <2>3
<1>7. CASE Deadline
  <2>1. rounds' = rounds /\ pc' = pc /\ asked' = asked /\ clock = 1 /\ clock' = 0
    BY <1>7 DEF Deadline
  <2>2. NodesLeft[pc] \in Nat
    BY DEF NodesLeft, TypeOK, Node, Terminal
  <2> HIDE DEF rounds, asked, clock
  <2> QED BY <1>1, <1>2, <1>3, <2>1, <2>2
<1>8. ASSUME UNCHANGED <<round, pending, late>>,
             NodesLeft[pc'] \in Nat, NodesLeft[pc] \in Nat, NodesLeft[pc'] < NodesLeft[pc]
      PROVE  StepsLeft' < StepsLeft
  <2>1. rounds' = rounds /\ asked' = asked /\ clock' = clock
    BY <1>8
  <2> HIDE DEF rounds, asked, clock
  <2> QED BY <1>1, <1>2, <1>3, <1>8, <2>1
<1>9. CASE Understand \/ Context \/ ExecutorDone \/ Verifier \/ AfterVerifier \/ Synthesizer
  BY <1>4, <1>8, <1>9 DEF Understand, Context, ExecutorDone, Verifier, AfterVerifier, Synthesizer
<1>10. CASE ContextRaises \/ PlannerRaises \/ VerifierFails
  BY <1>4, <1>8, <1>10 DEF ContextRaises, PlannerRaises, VerifierFails, Raise
<1> QED BY <1>5, <1>6, <1>7, <1>9, <1>10 DEF Next, RunNode

(***************************************************************************)
(* For every budget and whatever model, tools and clock do, a run takes at *)
(* most Rounds * RoundLength + 4 steps: the loop planner, executor,        *)
(* verifier, router cannot go on for ever.                                 *)
(***************************************************************************)
THEOREM RunsAreBounded == Spec => BoundedRun
<1> DEFINE Most  == StepsLeft <= Rounds * RoundLength + 4
           Less  == StepsLeft' < StepsLeft
           Natural == StepsLeft \in Nat
           Bounded == StepsLeft \in 0 .. Rounds * RoundLength + 4
<1>0. Rounds * RoundLength \in Nat
  <2>1. Rounds \in Nat /\ RoundLength \in Nat
    BY BudgetAssumption DEF Rounds, RoundLength
  <2> QED BY <2>1
<1>1. Init => Most
  <2> SUFFICES ASSUME Init PROVE StepsLeft = Rounds * RoundLength + 4
    BY <1>0
  <2>1. NodesLeft["understand"] = 3
    BY DEF NodesLeft, Node, Terminal
  <2>2. Cardinality({}) = 0
    BY FS_EmptySet
  <2>3. (Rounds - 0) * RoundLength = Rounds * RoundLength
    BY BudgetAssumption DEF Rounds
  <2>4. StepsLeft = (Rounds - 0) * RoundLength + 3 + 0 + 1
    BY <2>1, <2>2 DEF Init, StepsLeft
  <2> QED BY <1>0, <2>3, <2>4
<1>2. TypeOK /\ BudgetInv /\ [Next]_vars => [Less]_vars
  BY StepsLeftDecreases
<1>3. TypeOK /\ BudgetInv /\ Natural /\ Natural' /\ Most /\ [Next]_vars => Most'
  <2> SUFFICES ASSUME TypeOK, BudgetInv, Natural, Natural', Most, [Next]_vars PROVE Most'
    OBVIOUS
  <2>1. CASE UNCHANGED vars
    BY <2>1 DEF vars, StepsLeft, Rounds, RoundLength
  <2>2. CASE Next
    <3>1. StepsLeft' < StepsLeft
      BY <2>2, StepsLeftDecreases
    <3> QED BY <1>0, <3>1
  <2> QED BY <2>1, <2>2
<1>4. Natural /\ Most => Bounded
  BY <1>0
<1>5. TypeOK /\ BudgetInv => Natural
  BY StepsLeftIsNatural
<1>6. Spec => []Bounded /\ [][Less]_vars
  <2> HIDE DEF Most, Less, Natural, Bounded
  <2> QED BY <1>1, <1>2, <1>3, <1>4, <1>5, TypeCorrect, BudgetAlways, PTL DEF Spec
<1> QED BY <1>6 DEF BoundedRun

\* A set of retries can be listed, so the retry branch has a plan.
LEMMA RetriesCanBeListed ==
  ASSUME NEW ev \in Seq(Item)
  PROVE  RetryPlans(ev) # {}
<1> DEFINE S == {Plain(q) : q \in RetryableFailed(ev) \cap Catalog}
           D == 1 .. Cardinality(S)
<1>1. ExistsBijection(D, S)
  BY RetriesAreFinite, FS_CardinalityType
<1>2. PICK f \in [D -> S] : \A i, j \in D : f[i] = f[j] => i = j
  BY <1>1 DEF ExistsBijection, Bijection, Injection, IsInjective
<1>3. f \in SetToSeqs(S)
  BY <1>2 DEF SetToSeqs
<1> QED BY <1>3 DEF RetryPlans

(***************************************************************************)
(* A run that has not ended is never stuck: the planner has a plan or      *)
(* raises, and a pending step has its turn even when what it depends on is *)
(* never answered.                                                         *)
(***************************************************************************)
THEOREM RunsAreNeverStuck == Spec => []NeverStuck
<1>1. TypeOK => NeverStuck
  <2> SUFFICES ASSUME TypeOK PROVE NeverStuck
    OBVIOUS
  <2>1. PlannerPlans(task, evidence) # {}
    BY RetriesCanBeListed DEF TypeOK, PlannerPlans, RecipePlans
  <2>2. ASSUME pending # {}
        PROVE  \E k \in pending : IsNext(k) /\ Outcomes(plan[k]) # {}
    <3> DEFINE ready == {j \in pending : IsReady(plan[j])}
               batch == IF ready = {} THEN pending ELSE ready
    <3>1. batch \in SUBSET Nat /\ batch # {} /\ batch \subseteq pending
      BY <2>2 DEF TypeOK
    <3>2. PICK k \in batch : \A j \in batch : k <= j
      BY <3>1, LeastElement
    <3>3. IsNext(k)
      BY <3>2 DEF IsNext
    <3>4. Outcomes(plan[k]) # {}
      BY DEF Outcomes
    <3> QED BY <3>1, <3>3, <3>4
  <2> QED BY <2>1, <2>2 DEF NeverStuck
<1> QED BY <1>1, TypeCorrect, PTL

-----------------------------------------------------------------------------
(***************************************************************************)
(* Success is never repeated.  Inductive once it says what the executor    *)
(* still has to do: its pending steps are fresh with respect to each other *)
(* and to the ledger, so answering one of them leaves the others fresh.    *)
(***************************************************************************)
FreshInv ==
  /\ NeverRepeatsSuccess
  /\ Fresh(plan, pending, evidence)

(***************************************************************************)
(* Appending the result of a fresh step keeps both parts of the invariant. *)
(***************************************************************************)
LEMMA AppendKeepsFresh ==
  ASSUME NEW ev \in Seq(Item), NoRepeat(ev), NEW item \in Item,
         NEW steps, NEW I, NEW k \in I, Fresh(steps, I, ev),
         item.query = steps[k].query
  PROVE  /\ NoRepeat(Append(ev, item))
         /\ Fresh(steps, I \ {k}, Append(ev, item))
<1> DEFINE after == Append(ev, item)
<1>1. /\ Len(ev) \in Nat /\ DOMAIN ev = 1 .. Len(ev)
      /\ DOMAIN after = 1 .. Len(ev) + 1
      /\ after[Len(ev) + 1] = item
      /\ \A i \in DOMAIN ev : after[i] = ev[i]
  OBVIOUS
<1> HIDE DEF after
<1>2. NoRepeat(after)
  <2> SUFFICES ASSUME NEW i \in DOMAIN after, NEW j \in DOMAIN after, i < j,
                      after[i].query = after[j].query, after[i].query \in Catalog
               PROVE  after[i].status # "observed"
    BY DEF NoRepeat
  <2>1. i \in DOMAIN ev /\ after[i] = ev[i]
    BY <1>1
  <2>2. CASE j \in DOMAIN ev
    BY <1>1, <2>1, <2>2 DEF NoRepeat
  <2>3. CASE j = Len(ev) + 1
    BY <1>1, <2>1, <2>3 DEF Fresh, HasObserved
  <2> QED BY <1>1, <2>2, <2>3
<1>3. Fresh(steps, I \ {k}, after)
  <2> SUFFICES ASSUME NEW i \in I \ {k}, steps[i].query \in Catalog
               PROVE  ~HasObserved(after, steps[i].query)
    BY DEF Fresh
  <2>1. steps[i].query # item.query
    BY DEF Fresh
  <2>2. ~HasObserved(ev, steps[i].query)
    BY DEF Fresh
  <2> QED BY <1>1, <2>1, <2>2 DEF HasObserved
<1> QED BY <1>2, <1>3 DEF after

\* Every step keeps the freshness invariant: the planner makes fresh plans,
\* the executor appends results of fresh steps.
LEMMA FreshNext ==
  TypeOK /\ BudgetInv /\ FreshInv /\ [Next]_vars => FreshInv'
<1> SUFFICES ASSUME TypeOK, BudgetInv, FreshInv, [Next]_vars PROVE FreshInv'
  OBVIOUS
<1> USE DEF FreshInv
<1>1. NoRepeat(evidence)
  BY DEF NoRepeat, NeverRepeatsSuccess
<1>2. CASE Planner
  <2>1. PICK steps \in PlannerPlans(task, evidence) :
          plan' = Truncated(steps, evidence) /\ pending' = DOMAIN plan'
    BY <1>2 DEF Planner
  <2>2. steps \in Seq(Step) /\ Fresh(steps, DOMAIN steps, evidence)
    BY <1>1, PlannerPlansAreFresh DEF TypeOK
  <2>3. pending' \subseteq DOMAIN steps /\ \A i \in pending' : plan'[i] = steps[i]
    BY <2>1, <2>2, TruncatedIsPrefix DEF TypeOK
  <2>4. Fresh(plan', pending', evidence)
    BY <2>2, <2>3 DEF Fresh
  <2> QED BY <1>2, <2>4 DEF Planner, NeverRepeatsSuccess
<1>3. CASE ExecuteStep
  <2>1. PICK k \in pending : \E item \in Outcomes(plan[k]) :
          evidence' = Append(evidence, item) /\ pending' = pending \ {k}
    BY <1>3 DEF ExecuteStep
  <2>2. PICK item \in Outcomes(plan[k]) :
          evidence' = Append(evidence, item) /\ pending' = pending \ {k}
    BY <2>1
  <2>3. item \in Item /\ item.query = plan[k].query
    <3>1. plan[k] \in Step
      BY DEF TypeOK
    <3> QED BY <2>2, <3>1, OutcomesAreItems
  <2>4. NoRepeat(evidence') /\ Fresh(plan, pending', evidence')
    BY <1>1, <2>2, <2>3, AppendKeepsFresh DEF TypeOK
  <2> QED BY <1>3, <2>4 DEF ExecuteStep, NoRepeat, NeverRepeatsSuccess
<1>4. CASE UNCHANGED <<plan, pending, evidence>>
  BY <1>4 DEF NeverRepeatsSuccess
<1> QED BY <1>2, <1>3, <1>4
        DEF Next, RunNode, vars, Understand, Context, ContextRaises, PlannerRaises, Raise,
            ExecutorDone, Verifier, VerifierFails, AfterVerifier, Synthesizer, Deadline

\* The freshness invariant holds at every instant.
LEMMA FreshAlways == Spec => []FreshInv
<1>1. Init => FreshInv
  BY DEF Init, FreshInv, NeverRepeatsSuccess, Fresh
<1> QED BY <1>1, FreshNext, TypeCorrect, BudgetAlways, PTL DEF Spec

(***************************************************************************)
(* A catalog query that has been answered is never asked again, in any     *)
(* round, by recipe, retry or model.                                       *)
(***************************************************************************)
THEOREM SuccessIsNeverRepeated == Spec => []NeverRepeatsSuccess
<1>1. FreshInv => NeverRepeatsSuccess
  BY DEF FreshInv
<1> QED BY <1>1, FreshAlways, PTL

-----------------------------------------------------------------------------
(***************************************************************************)
(* Citations.  The facts of the last verification outlive the rounds that  *)
(* follow it: what they cite stays in the ledger, which only grows.        *)
(***************************************************************************)
CitedInv ==
  /\ \A f \in verification.facts : WellCited(f, evidence)
  /\ claims \subseteq verification.facts
  /\ pc # "end" => claims = {}

\* A fact that is well cited stays so when the ledger grows.
LEMMA AppendKeepsCited ==
  ASSUME NEW ev \in Seq(Item), NEW item \in Item, NEW f, WellCited(f, ev)
  PROVE  WellCited(f, Append(ev, item))
<1>1. \A i \in f.ids : i \in DOMAIN Append(ev, item) /\ Append(ev, item)[i] = ev[i]
  BY DEF WellCited
<1>2. {Append(ev, item)[i].query : i \in f.ids} = {ev[i].query : i \in f.ids}
  BY <1>1
<1> QED BY <1>1, <1>2 DEF WellCited

\* Every step keeps the citation invariant.
LEMMA CitedNext == TypeOK /\ CitedInv /\ [Next]_vars => CitedInv'
<1> SUFFICES ASSUME TypeOK, CitedInv, [Next]_vars PROVE CitedInv'
  OBVIOUS
<1> USE DEF CitedInv
<1>1. CASE ExecuteStep
  <2>1. PICK k \in pending : \E item \in Outcomes(plan[k]) : evidence' = Append(evidence, item)
    BY <1>1 DEF ExecuteStep
  <2>2. PICK item \in Outcomes(plan[k]) : evidence' = Append(evidence, item)
    BY <2>1
  <2>3. item \in Item
    <3>1. plan[k] \in Step
      BY DEF TypeOK
    <3> QED BY <2>2, <3>1, OutcomesAreItems
  <2>4. \A f \in verification.facts : WellCited(f, evidence')
    BY <2>2, <2>3, AppendKeepsCited DEF TypeOK
  <2> QED BY <1>1, <2>4 DEF ExecuteStep
<1>2. CASE Verifier
  <2>1. verification'.facts = FactsOf(task, evidence)
    BY <1>2 DEF Verifier
  <2>2. \A f \in verification'.facts : WellCited(f, evidence)
    BY <2>1, FactsAreWellCited DEF TypeOK
  <2> QED BY <1>2, <2>2 DEF Verifier
<1>3. CASE Synthesizer
  BY <1>3 DEF Synthesizer
<1>4. CASE UNCHANGED <<evidence, verification, claims>> /\ (pc = "end" <=> pc' = "end")
  BY <1>4
<1>5. CASE Understand \/ Context \/ ContextRaises \/ Planner \/ PlannerRaises
           \/ ExecutorDone \/ VerifierFails \/ AfterVerifier \/ Deadline
  BY <1>4, <1>5 DEF Understand, Context, ContextRaises, Planner, PlannerRaises, Raise,
                    ExecutorDone, VerifierFails, AfterVerifier, Deadline
<1>6. CASE UNCHANGED vars
  BY <1>4, <1>6 DEF vars
<1> QED BY <1>1, <1>2, <1>3, <1>5, <1>6 DEF Next, RunNode

\* The citation invariant holds at every instant.
LEMMA CitedAlways == Spec => []CitedInv
<1>1. Init => CitedInv
  BY DEF Init, CitedInv
<1> QED BY <1>1, CitedNext, TypeCorrect, PTL DEF Spec

(***************************************************************************)
(* The claims of an answer cite observed items of exactly the queries      *)
(* their facts are about, and no later item of a catalog query replaces    *)
(* one of them: success being never repeated, the first observed item that *)
(* the verifier cites is also the latest one that the branches read.       *)
(***************************************************************************)
THEOREM ClaimsAreCurrent == Spec => []ClaimsCiteLatest
<1>1. TypeOK /\ NeverRepeatsSuccess /\ CitedInv => ClaimsCiteLatest
  <2> SUFFICES ASSUME TypeOK, NeverRepeatsSuccess, CitedInv, NEW c \in claims
               PROVE  /\ {evidence[i].query : i \in c.ids} = Sources(c.fact)
                      /\ \A i \in c.ids : /\ evidence[i].status = "observed"
                                          /\ evidence[i].query \in Catalog => IsLatest(evidence, i)
    BY DEF ClaimsCiteLatest
  <2>1. WellCited(c, evidence)
    BY DEF CitedInv
  <2>2. ASSUME NEW i \in c.ids, evidence[i].query \in Catalog
        PROVE  IsLatest(evidence, i)
    BY <2>1, <2>2 DEF WellCited, IsLatest, NeverRepeatsSuccess, TypeOK
  <2> QED BY <2>1, <2>2 DEF WellCited
<1> QED BY <1>1, TypeCorrect, SuccessIsNeverRepeated, CitedAlways, PTL

-----------------------------------------------------------------------------
(***************************************************************************)
(* The harness implements the bounded investigation.                       *)
(***************************************************************************)
LEMMA AppendObserves ==
  ASSUME NEW ev \in Seq(Item), NEW item \in Item
  PROVE  ObservedQueries(Append(ev, item)) =
           IF item.status = "observed" THEN ObservedQueries(ev) \cup {item.query}
           ELSE ObservedQueries(ev)
<1> DEFINE after == Append(ev, item)
<1>1. /\ Len(ev) \in Nat /\ DOMAIN ev = 1 .. Len(ev)
      /\ DOMAIN after = DOMAIN ev \cup {Len(ev) + 1}
      /\ after[Len(ev) + 1] = item
      /\ \A i \in DOMAIN ev : after[i] = ev[i]
  OBVIOUS
<1> HIDE DEF after
<1>2. item.query \in Query
  BY DEF Item
<1>3. \A q : HasObserved(after, q) <=>
              HasObserved(ev, q) \/ (item.query = q /\ item.status = "observed")
  BY <1>1 DEF HasObserved
<1>4. ObservedQueries(after) =
        IF item.status = "observed" THEN ObservedQueries(ev) \cup {item.query}
        ELSE ObservedQueries(ev)
  BY <1>2, <1>3 DEF ObservedQueries
<1> QED BY <1>4 DEF after

\* The questions of the ledger grow with it.
LEMMA AppendAsks ==
  ASSUME NEW ev \in Seq(Item), NEW item \in Item
  PROVE  /\ [i \in DOMAIN Append(ev, item) |-> Append(ev, item)[i].query]
              = Append([i \in DOMAIN ev |-> ev[i].query], item.query)
         /\ Len([i \in DOMAIN ev |-> ev[i].query]) = Len(ev)
<1> DEFINE queries == [i \in DOMAIN ev |-> ev[i].query]
           after   == Append(ev, item)
<1>1. /\ Len(ev) \in Nat /\ DOMAIN ev = 1 .. Len(ev)
      /\ DOMAIN after = 1 .. Len(ev) + 1
      /\ after[Len(ev) + 1] = item
      /\ \A i \in 1 .. Len(ev) : after[i] = ev[i] /\ ev[i] \in Item
  OBVIOUS
<1> HIDE DEF after
<1>2. queries \in Seq(Query) /\ Len(queries) = Len(ev)
  BY <1>1 DEF Item
<1> HIDE DEF queries
<1>3. /\ DOMAIN Append(queries, item.query) = 1 .. Len(ev) + 1
      /\ Append(queries, item.query)[Len(ev) + 1] = item.query
      /\ \A i \in 1 .. Len(ev) : Append(queries, item.query)[i] = queries[i]
      /\ Append(queries, item.query) = [i \in 1 .. Len(ev) + 1 |-> Append(queries, item.query)[i]]
  BY <1>1, <1>2 DEF Item
<1>4. \A i \in 1 .. Len(ev) : queries[i] = ev[i].query
  BY <1>1 DEF queries
<1>5. \A i \in 1 .. Len(ev) + 1 : after[i].query = Append(queries, item.query)[i]
  BY <1>1, <1>3, <1>4
<1> QED BY <1>1, <1>2, <1>3, <1>5 DEF queries, after

\* Every step of the nodes is a step of the investigation or changes nothing
\* of it.
LEMMA ContractNext ==
  TypeOK /\ BudgetInv /\ FreshInv /\ CitedInv /\ [Next]_vars
    => [Contract!Next]_(Contract!investigation)
<1> SUFFICES ASSUME TypeOK, BudgetInv, FreshInv, CitedInv, [Next]_vars
             PROVE  Contract!Next \/ UNCHANGED Contract!investigation
  OBVIOUS
<1>1. CASE ExecuteStep
  <2>1. PICK k \in pending : \E item \in Outcomes(plan[k]) : evidence' = Append(evidence, item)
    BY <1>1 DEF ExecuteStep
  <2>2. PICK item \in Outcomes(plan[k]) : evidence' = Append(evidence, item)
    BY <2>1
  <2> DEFINE q == plan[k].query
  <2>3. item \in Item /\ item.query = q /\ q \in Query
    <3>1. plan[k] \in Step
      BY DEF TypeOK
    <3> QED BY <2>2, <3>1, OutcomesAreItems DEF Step
  <2>4. Len(evidence) < MaxQueries
    <3>1. plan \in Seq(Step) /\ pending \subseteq 1 .. Len(plan) /\ Len(plan) \in Nat
          /\ Len(evidence) \in Nat
      BY DEF TypeOK
    <3>2. IsFiniteSet(pending)
      BY <3>1, InitialSegment, FS_Subset
    <3>3. Cardinality(pending) \in Nat /\ Cardinality(pending) # 0
      BY <3>2, FS_CardinalityType, FS_EmptySet
    <3> QED BY <3>1, <3>3, BudgetAssumption DEF BudgetInv, WithinBudget
  <2>5. q \in ObservedQueries(evidence) => q \in {"query.ir"}
    BY <2>3 DEF FreshInv, Fresh, ObservedQueries, Query
  <2>6. ObservedQueries(evidence') \in
          {ObservedQueries(evidence), ObservedQueries(evidence) \cup {q}}
    BY <2>2, <2>3, AppendObserves DEF TypeOK
  <2>7. CitedQueries = {} /\ CitedQueries' = {}
    BY <1>1 DEF ExecuteStep, CitedInv, CitedQueries
  <2>8. RunStatus = "open" /\ RunStatus' = "open"
    BY <1>1 DEF ExecuteStep, RunStatus
  <2>9. AskedQueries' = Append(AskedQueries, q) /\ Len(AskedQueries) = Len(evidence)
    <3>1. evidence \in Seq(Item)
      BY DEF TypeOK
    <3> QED BY <2>2, <2>3, <3>1, AppendAsks DEF AskedQueries
  <2>10. Contract!Ask(q)
    BY <2>4, <2>5, <2>6, <2>7, <2>8, <2>9 DEF Contract!Ask
  <2> QED BY <2>3, <2>10 DEF Contract!Next
<1>2. CASE Synthesizer
  <2>1. claims' \subseteq verification.facts /\ evidence' = evidence
    BY <1>2 DEF Synthesizer
  <2>2. CitedQueries' \subseteq ObservedQueries(evidence)
    <3> SUFFICES ASSUME NEW c \in claims', NEW i \in c.ids
                 PROVE  evidence[i].query \in ObservedQueries(evidence)
      BY <2>1 DEF CitedQueries
    <3>1. i \in DOMAIN evidence /\ evidence[i].status = "observed"
      BY <2>1 DEF CitedInv, WellCited
    <3>2. evidence \in Seq(Item)
      BY DEF TypeOK
    <3>3. evidence[i] \in Item
      BY <3>1, <3>2
    <3>4. evidence[i].query \in Query
      BY <3>3 DEF Item
    <3> QED BY <3>1, <3>4 DEF ObservedQueries, HasObserved
  <2>3. RunStatus = "open" /\ RunStatus' = "answered"
    BY <1>2 DEF Synthesizer, RunStatus
  <2>4. Contract!Answer
    BY <2>1, <2>2, <2>3 DEF Contract!Answer, AskedQueries
  <2> QED BY <2>4 DEF Contract!Next
<1>3. CASE ContextRaises \/ PlannerRaises \/ VerifierFails
  <2>1. UNCHANGED <<evidence, claims>> /\ RunStatus = "open" /\ RunStatus' = "failed"
    BY <1>3 DEF ContextRaises, PlannerRaises, VerifierFails, Raise, RunStatus
  <2>2. Contract!Fail
    BY <2>1 DEF Contract!Fail, CitedQueries, AskedQueries
  <2> QED BY <2>2 DEF Contract!Next
<1>4. CASE UNCHANGED <<evidence, claims>> /\ RunStatus' = RunStatus
  BY <1>4 DEF Contract!investigation, CitedQueries, AskedQueries
<1>5. CASE Understand \/ Context \/ Planner \/ ExecutorDone \/ Verifier \/ AfterVerifier
           \/ Deadline
  <2>1. UNCHANGED <<evidence, claims>> /\ RunStatus' = RunStatus
    BY <1>5 DEF Understand, Context, Planner, ExecutorDone, Verifier, AfterVerifier, Deadline,
                RunStatus
  <2> QED BY <1>4, <2>1
<1>6. CASE UNCHANGED vars
  BY <1>4, <1>6 DEF vars, RunStatus
<1> QED BY <1>1, <1>2, <1>3, <1>5, <1>6 DEF Next, RunNode

(***************************************************************************)
(* Every behaviour of the harness is a bounded investigation: a question   *)
(* once answered is not put again, the budget is never exceeded, and an    *)
(* answer cites only what was learnt before it.                            *)
(***************************************************************************)
THEOREM ContractIsKept == Spec => KeepsContract
<1>1. Init => Contract!Init
  <2> SUFFICES ASSUME Init PROVE Contract!Init
    OBVIOUS
  <2>1. ObservedQueries(evidence) = {} /\ AskedQueries = <<>>
    BY DEF Init, ObservedQueries, HasObserved, AskedQueries
  <2>2. CitedQueries = {} /\ RunStatus = "open"
    BY DEF Init, CitedQueries, RunStatus
  <2> QED BY <2>1, <2>2 DEF Contract!Init
<1> QED BY <1>1, ContractNext, TypeCorrect, BudgetAlways, FreshAlways, CitedAlways, PTL
        DEF Spec, KeepsContract, Contract!Spec
=============================================================================
