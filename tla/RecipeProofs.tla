---------------------------- MODULE RecipeProofs ----------------------------
(***************************************************************************)
(* Proofs about Harness in recipe mode, where _steps writes every plan:    *)
(* planner and verifier read the same ledger with two sets of branches,    *)
(* and these theorems say that the two agree.                              *)
(***************************************************************************)
EXTENDS HarnessProofs

-----------------------------------------------------------------------------
(***************************************************************************)
(* The plans of the recipe.                                                *)
(***************************************************************************)

\* The catalog names every query but query.ir.
LEMMA CatalogQueries == Catalog \subseteq Query /\ None \notin Query
  BY DEF Query, Catalog, None

(***************************************************************************)
(* The retry branch lists queries that failed, and at least one when one   *)
(* of the catalog can be retried.                                          *)
(***************************************************************************)
LEMMA RetryPlansRetry ==
  ASSUME NEW ev \in Seq(Item), NEW steps \in RetryPlans(ev)
  PROVE  /\ \A i \in DOMAIN steps : steps[i].query \in RetryableFailed(ev) \cap Catalog
         /\ RetryableFailed(ev) \cap Catalog # {} => steps # <<>>
<1> DEFINE Q == RetryableFailed(ev) \cap Catalog
           S == {Plain(q) : q \in Q}
           f == [q \in Q |-> Plain(q)]
<1>1. IsFiniteSet(S)
  <2>1. IsFiniteSet(Q)
    BY CatalogIsFinite, FS_Subset
  <2>2. f \in Surjection(Q, S)
    BY DEF Surjection
  <2> HIDE DEF Q, S, f
  <2> QED BY <2>1, <2>2, FS_Surjection
<1>2. Cardinality(S) \in Nat /\ (S # {} => Cardinality(S) # 0)
  <2> HIDE DEF S
  <2> QED BY <1>1, FS_CardinalityType, FS_EmptySet
<1>3. steps \in [1 .. Cardinality(S) -> S]
  BY DEF RetryPlans, SetToSeqs
<1>4. \A s \in S : s.query \in Q
  BY DEF Plain
<1>5. \A i \in DOMAIN steps : steps[i].query \in Q
  <2> HIDE DEF Q, S
  <2> QED BY <1>3, <1>4
<1>6. Q # {} => S # {}
  OBVIOUS
<1>7. Q # {} => 1 \in DOMAIN steps
  <2> HIDE DEF Q, S
  <2> QED BY <1>2, <1>3, <1>6
<1> QED BY <1>5, <1>7

(***************************************************************************)
(* What the recipe may ask: catalog queries, for a network analysis of a   *)
(* known region.                                                           *)
(***************************************************************************)
LEMMA RecipeStaysInCatalog ==
  ASSUME NEW t \in Task, NEW ev \in Seq(Item), NEW steps \in RecipePlans(t, ev)
  PROVE  /\ \A i \in DOMAIN steps : steps[i].query \in Catalog
         /\ steps # <<>> => Plannable(t)
<1>1. steps # <<>> => Plannable(t)
  BY DEF RecipePlans
<1>2. CASE steps = <<>>
  BY <1>2
<1>3. CASE steps = InitialPlan(t)
  <2>1. CASE t.needs_baseline
    <3>1. steps = <<Plain("ping.compare_window"), Plain("ping.summary"), Plain("ping.trend")>>
      BY <1>3, <2>1 DEF InitialPlan
    <3> QED BY <1>1, <3>1 DEF Plain, Catalog
  <2>2. CASE ~t.needs_baseline
    <3>1. steps = <<Plain("ping.summary"), Plain("ping.trend")>>
      BY <1>3, <2>2 DEF InitialPlan
    <3> QED BY <1>1, <3>1 DEF Plain, Catalog
  <2> QED BY <2>1, <2>2
<1>4. CASE steps \in RetryPlans(ev)
  BY <1>1, <1>4, RetryPlansRetry
<1>5. CASE /\ RecipeQuery(t, ev) # None
           /\ steps = <<[query |-> RecipeQuery(t, ev),
                        scope |-> RecipeScope(ev, RecipeQuery(t, ev)), deps |-> {}]>>
  BY <1>1, <1>5, RecipeQueryIsFresh
<1> QED BY <1>2, <1>3, <1>4, <1>5 DEF RecipePlans

\* A query that was asked has a latest item.
LEMMA LatestExists ==
  ASSUME NEW ev \in Seq(Item), NEW i0 \in DOMAIN ev
  PROVE  \E i \in DOMAIN ev : ev[i].query = ev[i0].query /\ IsLatest(ev, i)
<1> DEFINE q == ev[i0].query
           S == {n \in Nat : n < Len(ev) /\ ev[Len(ev) - n].query = q}
<1>1. DOMAIN ev = 1 .. Len(ev) /\ Len(ev) \in Nat
  OBVIOUS
<1>2. Len(ev) - i0 \in S
  <2>1. Len(ev) - (Len(ev) - i0) = i0
    BY <1>1
  <2> QED BY <1>1, <2>1
<1>3. PICK n \in S : \A m \in S : n <= m
  BY <1>2, LeastElement
<1> DEFINE i == Len(ev) - n
<1>4. i \in DOMAIN ev /\ ev[i].query = q
  BY <1>1, <1>3
<1>5. ASSUME NEW j \in DOMAIN ev, ev[j].query = q
      PROVE  j <= i
  <2>1. Len(ev) - (Len(ev) - j) = j
    BY <1>1, <1>5
  <2>2. Len(ev) - j \in S
    BY <1>1, <1>5, <2>1
  <2>3. n \in Nat /\ n <= Len(ev) - j
    BY <1>3, <2>2
  <2> QED BY <1>1, <2>3
<1> HIDE DEF S, q, i
<1>6. IsLatest(ev, i)
  BY <1>4, <1>5 DEF IsLatest
<1> QED BY <1>4, <1>6 DEF q

(***************************************************************************)
(* What the verifier misses the recipe asks for: when the verifier has an  *)
(* objective left and did not raise, _steps has a step and does not raise. *)
(***************************************************************************)
LEMMA MissingIsAskable ==
  ASSUME NEW t \in Task, NEW ev \in Seq(Item),
         Plannable(t), ev # <<>>, Missing(t, ev) # {},
         \A i \in DOMAIN ev : ev[i].query \in Catalog
  PROVE  /\ <<>> \notin RecipePlans(t, ev)
         /\ ~VerifierRaises(t, ev) => ~RecipeRaises(t, ev)
<1>1. Attributes(t)
  BY DEF Missing
<1>2. t.goal = "diagnose" /\ NeedsAsn(t)
  BY <1>1 DEF Attributes
<1>3. ~VerifierRaises(t, ev) => ~RecipeRaises(t, ev)
  <2> SUFFICES ASSUME ConcentrationRaises(ev) PROVE HasObserved(ev, "ping.by_asn")
    BY <1>1 DEF VerifierRaises, RecipeRaises
  <2>1. Indices(ev, "ping.by_asn") # {} /\ Latest(ev, "ping.by_asn").status = "observed"
    BY DEF ConcentrationRaises, AsnObserved
  <2>2. PICK i0 \in DOMAIN ev : ev[i0].query = "ping.by_asn"
    BY <2>1 DEF Indices
  <2>3. \E i \in Indices(ev, "ping.by_asn") : IsLatest(ev, i)
    BY <2>2, LatestExists DEF Indices
  <2>4. \E i \in Indices(ev, "ping.by_asn") : Latest(ev, "ping.by_asn") = ev[i]
    BY <2>3 DEF Latest
  <2> QED BY <2>1, <2>4 DEF Indices, HasObserved
<1>4. CASE RetryableFailed(ev) # {}
  <2>1. RetryableFailed(ev) \cap Catalog # {}
    BY <1>4 DEF RetryableFailed
  <2>2. RecipePlans(t, ev) = RetryPlans(ev)
    BY <1>4 DEF RecipePlans
  <2> QED BY <1>3, <2>1, <2>2, RetryPlansRetry
<1>5. CASE RetryableFailed(ev) = {}
  <2>1. RecipeQuery(t, ev) # None
    <3>1. CASE ~HasObserved(ev, "ping.by_asn")
      BY <1>2, <3>1 DEF RecipeQuery, EarlyQuery, None
    <3>2. CASE HasObserved(ev, "ping.by_asn")
      <4>1. \/ Concentrated(ev) /\ ~HasObserved(ev, "ping.by_prefix24")
            \/ /\ t.wants_path /\ HasObserved(ev, "ping.by_prefix24")
               /\ \/ ~HasObserved(ev, "trace.paths")
                  \/ ~HasObserved(ev, "trace.path_change")
        BY <1>1, <3>2 DEF Missing
      <4> QED BY <1>2, <4>1 DEF RecipeQuery, EarlyQuery, DrilldownQuery, None
    <3> QED BY <3>1, <3>2
  <2>2. RecipePlans(t, ev) =
          {<<[query |-> RecipeQuery(t, ev),
              scope |-> RecipeScope(ev, RecipeQuery(t, ev)), deps |-> {}]>>}
    BY <1>5, <2>1 DEF RecipePlans
  <2> QED BY <1>3, <2>2
<1> QED BY <1>4, <1>5

(***************************************************************************)
(* What the verifier does not miss the recipe does not ask for: when there *)
(* is no objective left and no error, the trend is asked and the order of  *)
(* the recipe was kept, _steps has no step.                                *)
(***************************************************************************)
LEMMA NothingLeftToAsk ==
  ASSUME NEW t \in Task, NEW ev \in Seq(Item),
         ev # <<>>, Missing(t, ev) = {}, ~HasErrors(ev),
         t.kind = "network_analysis", t.wants_path => Attributes(t),
         \E i \in DOMAIN ev : ev[i].query = "ping.trend",
         /\ t.wants_path
         /\ \E i \in DOMAIN ev : ev[i].query = "ping.by_asn"
         => HasObserved(ev, "trace.path_change")
  PROVE  RecipePlans(t, ev) = {<<>>}
<1>1. RetryableFailed(ev) = {}
  BY DEF RetryableFailed, HasErrors
<1>2. HasObserved(ev, "ping.trend")
  <2>1. PICK i \in DOMAIN ev : ev[i].query = "ping.trend" /\ IsLatest(ev, i)
    BY LatestExists
  <2> QED BY <2>1 DEF HasErrors, HasObserved
<1>3. Attributes(t) => HasObserved(ev, "ping.by_asn")
  BY DEF Missing
<1>4. t.wants_path => HasObserved(ev, "trace.path_change")
  BY <1>3 DEF HasObserved
<1>5. t.goal = "diagnose" /\ NeedsAsn(t) => Attributes(t)
  BY DEF Attributes
<1>6. EarlyQuery(t, ev) = None
  BY <1>2, <1>3, <1>4, <1>5 DEF EarlyQuery
<1>7. t.goal = "diagnose" => Attributes(t)
  BY <1>5 DEF NeedsAsn
<1>8. t.goal = "diagnose" =>
        /\ ~(Concentrated(ev) /\ ~HasObserved(ev, "ping.by_prefix24"))
        /\ ~(/\ t.wants_path /\ HasObserved(ev, "ping.by_prefix24")
             /\ ~HasObserved(ev, "trace.paths"))
  BY <1>3, <1>7 DEF Missing
<1>9. RecipeQuery(t, ev) = None
  BY <1>6, <1>8 DEF RecipeQuery, DrilldownQuery
<1> QED BY <1>1, <1>9 DEF RecipePlans

\* What is left of the budget leaves a plan something to do.
LEMMA TruncatedKeepsSome ==
  ASSUME NEW steps \in Seq(Step), NEW ev \in Seq(Item),
         steps # <<>>, Len(ev) < MaxQueries
  PROVE  Truncated(steps, ev) # <<>>
<1>1. MaxQueries - Len(ev) > 0
  BY BudgetAssumption
<1>2. CASE MaxQueries - Len(ev) >= Len(steps)
  BY <1>2 DEF Truncated
<1>3. CASE ~(MaxQueries - Len(ev) >= Len(steps))
  <2>1. Truncated(steps, ev) = SubSeq(steps, 1, MaxQueries - Len(ev))
    BY <1>1, <1>3 DEF Truncated
  <2>2. Len(Truncated(steps, ev)) = MaxQueries - Len(ev)
    BY <1>1, <1>3, <2>1, BudgetAssumption
  <2> QED BY <1>1, <2>2
<1> QED BY <1>2, <1>3

\* The first plan asks the trend, and not the ASN breakdown.
LEMMA InitialPlanAsksTrend ==
  ASSUME NEW t \in Task, MaxQueries >= 3
  PROVE  /\ Truncated(InitialPlan(t), <<>>) = InitialPlan(t)
         /\ \E i \in DOMAIN InitialPlan(t) : InitialPlan(t)[i].query = "ping.trend"
         /\ \A i \in DOMAIN InitialPlan(t) : InitialPlan(t)[i].query # "ping.by_asn"
<1>1. CASE t.needs_baseline
  <2>1. InitialPlan(t) =
          <<Plain("ping.compare_window"), Plain("ping.summary"), Plain("ping.trend")>>
    BY <1>1 DEF InitialPlan
  <2>2. Len(InitialPlan(t)) = 3 /\ DOMAIN InitialPlan(t) = 1 .. 3
    BY <2>1
  <2>3. Truncated(InitialPlan(t), <<>>) = InitialPlan(t)
    BY <2>2, BudgetAssumption DEF Truncated
  <2>4. InitialPlan(t)[3].query = "ping.trend"
    BY <2>1 DEF Plain
  <2>5. \A i \in 1 .. 3 : InitialPlan(t)[i].query # "ping.by_asn"
    BY <2>1 DEF Plain
  <2> QED BY <2>2, <2>3, <2>4, <2>5
<1>2. CASE ~t.needs_baseline
  <2>1. InitialPlan(t) = <<Plain("ping.summary"), Plain("ping.trend")>>
    BY <1>2 DEF InitialPlan
  <2>2. Len(InitialPlan(t)) = 2 /\ DOMAIN InitialPlan(t) = 1 .. 2
    BY <2>1
  <2>3. Truncated(InitialPlan(t), <<>>) = InitialPlan(t)
    BY <2>2, BudgetAssumption DEF Truncated
  <2>4. InitialPlan(t)[2].query = "ping.trend"
    BY <2>1 DEF Plain
  <2>5. \A i \in 1 .. 2 : InitialPlan(t)[i].query # "ping.by_asn"
    BY <2>1 DEF Plain
  <2> QED BY <2>2, <2>3, <2>4, <2>5
<1> QED BY <1>1, <1>2

-----------------------------------------------------------------------------
(***************************************************************************)
(* The invariant.  Each part names the switches it needs, so that one      *)
(* theorem about a switch does not assume the other.                       *)
(***************************************************************************)

Asked(q)   == \E i \in DOMAIN evidence : evidence[i].query = q
Planned(q) == \E k \in pending : plan[k].query = q

(***************************************************************************)
(* The recipe asks catalog queries only, and only for a network analysis   *)
(* of a known region; nothing is asked before the question is understood.  *)
(***************************************************************************)
PlanInv ==
  /\ \A k \in DOMAIN plan : plan[k].query \in Catalog
  /\ \A i \in DOMAIN evidence : evidence[i].query \in Catalog
  /\ plan # <<>> \/ evidence # <<>> =>
       Plannable(task) /\ pc \notin {"understand", "context"}

\* The verdict still speaks of the ledger it was given for.
VerdictInv ==
  pc \in {"route", "synthesizer", "end"} =>
    /\ verification.verdict = "REPLAN" =>
         /\ evidence # <<>>
         /\ ~VerifierRaises(task, evidence)
         /\ ~CriticLLM => Missing(task, evidence) # {}
    /\ verification.verdict = "PASS" /\ task.kind = "network_analysis" =>
         /\ evidence # <<>>
         /\ Missing(task, evidence) = {}
         /\ ~HasErrors(evidence)

\* A round that adds nothing is never begun.
ActionInv ==
  /\ pc \in {"executor", "verifier", "route"} => plan # <<>> \/ evidence = <<>>
  /\ pc = "planner" =>
       \/ evidence = <<>>
       \/ <<>> \notin RecipePlans(task, evidence) /\ Len(evidence) < MaxQueries

(***************************************************************************)
(* The order of the recipe: the trend is asked from the start, and the ASN *)
(* breakdown of a path question after the path change is known.            *)
(***************************************************************************)
OrderInv ==
  /\ pc # "executor" => pending = {}
  /\ evidence # <<>> \/ pending # {} => Asked("ping.trend") \/ Planned("ping.trend")
  /\ task.wants_path /\ (Asked("ping.by_asn") \/ Planned("ping.by_asn")) =>
       HasObserved(evidence, "trace.path_change")

RecipeInv ==
  /\ VerdictInv
  /\ ~PlannerLLM => PlanInv
  /\ ~PlannerLLM /\ ~CriticLLM => ActionInv
  /\ ~PlannerLLM /\ MaxQueries >= 3 => OrderInv

\* RecipeInv holds before the question is read.
LEMMA RecipeInit == Init => RecipeInv
<1> SUFFICES ASSUME Init PROVE RecipeInv
  OBVIOUS
<1>1. pc = "understand" /\ plan = <<>> /\ pending = {} /\ evidence = <<>>
  BY DEF Init
<1>2. VerdictInv /\ ActionInv
  BY <1>1 DEF VerdictInv, ActionInv
<1>3. PlanInv
  BY <1>1 DEF PlanInv
<1>4. OrderInv
  BY <1>1 DEF OrderInv, Asked, Planned
<1> QED BY <1>2, <1>3, <1>4 DEF RecipeInv

(***************************************************************************)
(* In recipe mode the planner's plan is one of the recipe's, cut to the    *)
(* budget.                                                                 *)
(***************************************************************************)
LEMMA PlannerTakesRecipe ==
  ASSUME TypeOK, Planner, ~PlannerLLM
  PROVE  \E steps \in RecipePlans(task, evidence) :
           /\ steps \in Seq(Step)
           /\ plan' = Truncated(steps, evidence)
           /\ plan' \in Seq(Step)
           /\ \A i \in DOMAIN plan' : i \in DOMAIN steps /\ plan'[i] = steps[i]
           /\ pending' = DOMAIN plan'
<1>1. PICK steps \in PlannerPlans(task, evidence) :
        plan' = Truncated(steps, evidence) /\ pending' = DOMAIN plan'
  BY DEF Planner
<1>2. steps \in RecipePlans(task, evidence)
  BY DEF PlannerPlans
<1>3. task \in Task /\ evidence \in Seq(Item)
  BY DEF TypeOK
<1>4. steps \in Seq(Step)
  BY <1>3, PlannerPlansAreFresh
<1>5. /\ plan' \in Seq(Step)
      /\ \A i \in DOMAIN plan' : i \in DOMAIN steps /\ plan'[i] = steps[i]
  BY <1>1, <1>3, <1>4, TruncatedIsPrefix
<1> QED BY <1>1, <1>2, <1>4, <1>5

(***************************************************************************)
(* What one executed step does to the ledger.                              *)
(***************************************************************************)
LEMMA StepIsAppended ==
  ASSUME TypeOK, ExecuteStep
  PROVE  \E k \in pending : \E item \in Item :
           /\ k \in DOMAIN plan
           /\ item.query = plan[k].query
           /\ evidence' = Append(evidence, item)
           /\ evidence' \in Seq(Item)
           /\ Len(evidence') = Len(evidence) + 1
           /\ DOMAIN evidence' = DOMAIN evidence \cup {Len(evidence) + 1}
           /\ \A i \in DOMAIN evidence : evidence'[i] = evidence[i]
           /\ evidence'[Len(evidence) + 1] = item
           /\ pending' = pending \ {k}
<1>1. PICK k \in pending : /\ \E item \in Outcomes(plan[k]) : evidence' = Append(evidence, item)
                           /\ pending' = pending \ {k}
  BY DEF ExecuteStep
<1>2. k \in DOMAIN plan /\ plan[k] \in Step
  BY DEF TypeOK
<1>3. PICK item \in Outcomes(plan[k]) : evidence' = Append(evidence, item)
  BY <1>1
<1>4. item \in Item /\ item.query = plan[k].query
  BY <1>2, OutcomesAreItems
<1>5. evidence \in Seq(Item)
  BY DEF TypeOK
<1>6. /\ evidence' \in Seq(Item)
      /\ Len(evidence') = Len(evidence) + 1
      /\ DOMAIN evidence' = DOMAIN evidence \cup {Len(evidence) + 1}
      /\ \A i \in DOMAIN evidence : evidence'[i] = evidence[i]
      /\ evidence'[Len(evidence) + 1] = item
  BY <1>3, <1>4, <1>5
<1> QED BY <1>1, <1>2, <1>3, <1>4, <1>6

\* The recipe stays in the catalog.
LEMMA PlanNext ==
  TypeOK /\ ~PlannerLLM /\ PlanInv /\ [Next]_vars => PlanInv'
<1> SUFFICES ASSUME TypeOK, ~PlannerLLM, PlanInv, [Next]_vars PROVE PlanInv'
  OBVIOUS
<1>0. evidence \in Seq(Item) /\ plan \in Seq(Step) /\ pending \subseteq DOMAIN plan /\ task \in Task
  BY DEF TypeOK
<1>1. CASE Planner
  <2>1. PICK steps \in RecipePlans(task, evidence) :
          /\ \A i \in DOMAIN plan' : i \in DOMAIN steps /\ plan'[i] = steps[i]
          /\ plan' = Truncated(steps, evidence)
          /\ steps \in Seq(Step)
          /\ plan' \in Seq(Step)
    BY <1>1, PlannerTakesRecipe
  <2>2. \A i \in DOMAIN plan' : plan'[i].query \in Catalog
    BY <1>0, <2>1, RecipeStaysInCatalog
  <2>3. plan' # <<>> => Plannable(task)
    <3> SUFFICES ASSUME plan' # <<>> PROVE Plannable(task)
      OBVIOUS
    <3>1. steps # <<>>
      BY <2>1
    <3> QED BY <1>0, <3>1, RecipeStaysInCatalog
  <2>4. task' = task /\ evidence' = evidence /\ pc' = "executor"
    BY <1>1 DEF Planner
  <2> QED BY <2>2, <2>3, <2>4 DEF PlanInv
<1>2. CASE ExecuteStep
  <2>1. PICK k \in pending : \E item \in Item :
           /\ k \in DOMAIN plan
           /\ item.query = plan[k].query
           /\ DOMAIN evidence' = DOMAIN evidence \cup {Len(evidence) + 1}
           /\ \A i \in DOMAIN evidence : evidence'[i] = evidence[i]
           /\ evidence'[Len(evidence) + 1] = item
    BY <1>2, StepIsAppended
  <2>2. \A i \in DOMAIN evidence' : evidence'[i].query \in Catalog
    BY <2>1 DEF PlanInv
  <2>3. plan # <<>>
    BY <1>0, <2>1
  <2>4. task' = task /\ plan' = plan /\ pc' = pc
    BY <1>2 DEF ExecuteStep
  <2> QED BY <2>2, <2>3, <2>4 DEF PlanInv
<1>3. CASE Understand
  BY <1>3 DEF PlanInv, Understand
<1>4. CASE Context \/ ContextRaises \/ PlannerRaises \/ ExecutorDone \/ Verifier
           \/ VerifierFails \/ AfterVerifier \/ Synthesizer \/ Deadline
  BY <1>4 DEF PlanInv, Context, ContextRaises, PlannerRaises, Raise, ExecutorDone,
              Verifier, VerifierFails, AfterVerifier, Synthesizer, Deadline
<1>5. CASE UNCHANGED vars
  BY <1>5 DEF PlanInv, vars
<1> QED BY <1>1, <1>2, <1>3, <1>4, <1>5 DEF Next, RunNode

\* The verifier writes the verdict from the ledger, and nothing moves after it.
LEMMA VerdictNext == TypeOK /\ VerdictInv /\ [Next]_vars => VerdictInv'
<1> SUFFICES ASSUME TypeOK, VerdictInv, [Next]_vars PROVE VerdictInv'
  OBVIOUS
<1>1. CASE Verifier
  <2>1. PICK semantic \in CriticObjectives :
          verification' =
            [verdict |-> VerdictOf(task, evidence, FactsOf(task, evidence),
                                   Missing(task, evidence) \cup semantic),
             facts |-> FactsOf(task, evidence),
             objectives |-> Missing(task, evidence) \cup semantic]
    BY <1>1 DEF Verifier
  <2>2. verification'.verdict = VerdictOf(task, evidence, FactsOf(task, evidence),
                                          Missing(task, evidence) \cup semantic)
    BY <2>1
  <2>3. ~CriticLLM => semantic = {}
    BY DEF CriticObjectives
  <2>4. ObservedQueries(evidence) # {} => evidence # <<>>
    BY DEF ObservedQueries, HasObserved
  <2>5. /\ task' = task /\ evidence' = evidence /\ pc' = "route"
        /\ ~VerifierRaises(task, evidence)
    BY <1>1 DEF Verifier
  <2>6. verification'.verdict = "REPLAN" =>
          /\ evidence # <<>>
          /\ ~CriticLLM => Missing(task, evidence) # {}
    BY <2>2, <2>3, <2>4 DEF VerdictOf, CanReplan
  <2>7. verification'.verdict = "PASS" /\ task.kind = "network_analysis" =>
          /\ evidence # <<>>
          /\ Missing(task, evidence) = {}
          /\ ~HasErrors(evidence)
    BY <2>2, <2>4 DEF VerdictOf
  <2> QED BY <2>5, <2>6, <2>7 DEF VerdictInv
<1>2. CASE AfterVerifier \/ Synthesizer
  BY <1>2 DEF VerdictInv, AfterVerifier, Synthesizer
<1>3. CASE Understand \/ Context \/ ContextRaises \/ Planner \/ PlannerRaises
           \/ ExecuteStep \/ ExecutorDone \/ VerifierFails
  BY <1>3 DEF VerdictInv, Understand, Context, ContextRaises, Planner, PlannerRaises,
              Raise, ExecuteStep, ExecutorDone, VerifierFails
<1>4. CASE Deadline \/ UNCHANGED vars
  BY <1>4 DEF VerdictInv, Deadline, vars
<1> QED BY <1>1, <1>2, <1>3, <1>4 DEF Next, RunNode

(***************************************************************************)
(* A round that adds nothing is never begun: the routing function sends    *)
(* back only what the recipe can go on with, and within the budget.        *)
(***************************************************************************)
LEMMA ActionNext ==
  /\ TypeOK /\ ~PlannerLLM /\ ~CriticLLM
  /\ PlanInv /\ VerdictInv /\ ActionInv /\ [Next]_vars
  => ActionInv'
<1> SUFFICES ASSUME TypeOK, ~PlannerLLM, ~CriticLLM, PlanInv, VerdictInv, ActionInv,
                    [Next]_vars
             PROVE  ActionInv'
  OBVIOUS
<1>0. evidence \in Seq(Item) /\ plan \in Seq(Step) /\ pending \subseteq DOMAIN plan /\ task \in Task
  BY DEF TypeOK
<1>1. CASE Planner
  <2>1. PICK steps \in RecipePlans(task, evidence) :
          plan' = Truncated(steps, evidence) /\ steps \in Seq(Step)
    BY <1>1, PlannerTakesRecipe
  <2>2. pc = "planner" /\ pc' = "executor" /\ evidence' = evidence
    BY <1>1 DEF Planner
  <2>3. evidence # <<>> => steps # <<>> /\ Len(evidence) < MaxQueries
    BY <2>1, <2>2 DEF ActionInv
  <2>4. evidence # <<>> => plan' # <<>>
    BY <1>0, <2>1, <2>3, TruncatedKeepsSome
  <2> QED BY <2>2, <2>4 DEF ActionInv
<1>2. CASE ExecuteStep
  <2>1. plan # <<>>
    BY <1>0, <1>2 DEF ExecuteStep
  <2>2. plan' = plan /\ pc' = pc /\ pc = "executor"
    BY <1>2 DEF ExecuteStep
  <2> QED BY <2>1, <2>2 DEF ActionInv
<1>3. CASE AfterVerifier
  <2> SUFFICES ASSUME pc' = "planner", evidence # <<>>
               PROVE  <<>> \notin RecipePlans(task, evidence) /\ Len(evidence) < MaxQueries
    BY <1>3 DEF AfterVerifier, ActionInv
  <2>1. pc = "route" /\ ShouldRetry
    BY <1>3 DEF AfterVerifier
  <2>2. Missing(task, evidence) # {} /\ Len(evidence) < MaxQueries
    BY <2>1 DEF VerdictInv, ShouldRetry
  <2> QED BY <1>0, <2>2, MissingIsAskable DEF PlanInv
<1>4. CASE Context
  BY <1>4 DEF Context, ActionInv, PlanInv
<1>5. CASE Understand \/ ContextRaises \/ PlannerRaises \/ ExecutorDone \/ Verifier
           \/ VerifierFails \/ Synthesizer
  BY <1>5 DEF ActionInv, Understand, ContextRaises, PlannerRaises, Raise, ExecutorDone,
              Verifier, VerifierFails, Synthesizer
<1>6. CASE Deadline \/ UNCHANGED vars
  BY <1>6 DEF ActionInv, Deadline, vars
<1> QED BY <1>1, <1>2, <1>3, <1>4, <1>5, <1>6 DEF Next, RunNode

\* A path question has the path change before it asks the ASN breakdown.
LEMMA RecipeAsksPathFirst ==
  ASSUME NEW t \in Task, NEW ev \in Seq(Item), NEW steps \in RecipePlans(t, ev),
         ev # <<>>, t.wants_path,
         NEW k \in DOMAIN steps, steps[k].query = "ping.by_asn"
  PROVE  \/ \E i \in DOMAIN ev : ev[i].query = "ping.by_asn"
         \/ HasObserved(ev, "trace.path_change")
<1>1. CASE steps \in RetryPlans(ev)
  <2>1. "ping.by_asn" \in RetryableFailed(ev)
    BY <1>1, RetryPlansRetry
  <2> QED BY <2>1 DEF RetryableFailed
<1>2. CASE /\ RecipeQuery(t, ev) # None
           /\ steps = <<[query |-> RecipeQuery(t, ev),
                        scope |-> RecipeScope(ev, RecipeQuery(t, ev)), deps |-> {}]>>
  <2>1. RecipeQuery(t, ev) = "ping.by_asn"
    BY <1>2
  <2> QED BY <2>1 DEF RecipeQuery, EarlyQuery, DrilldownQuery, None
<1>3. CASE steps = <<>>
  BY <1>3
<1> QED BY <1>1, <1>2, <1>3 DEF RecipePlans

\* Every step keeps the order of the recipe.
LEMMA OrderNext ==
  /\ TypeOK /\ ~PlannerLLM /\ MaxQueries >= 3
  /\ PlanInv /\ OrderInv /\ [Next]_vars
  => OrderInv'
<1> SUFFICES ASSUME TypeOK, ~PlannerLLM, MaxQueries >= 3, PlanInv, OrderInv, [Next]_vars
             PROVE  OrderInv'
  OBVIOUS
<1>0. evidence \in Seq(Item) /\ plan \in Seq(Step) /\ pending \subseteq DOMAIN plan /\ task \in Task
  BY DEF TypeOK
<1>1. CASE Planner
  <2>1. PICK steps \in RecipePlans(task, evidence) :
          /\ plan' = Truncated(steps, evidence)
          /\ \A i \in DOMAIN plan' : i \in DOMAIN steps /\ plan'[i] = steps[i]
          /\ pending' = DOMAIN plan'
    BY <1>1, PlannerTakesRecipe
  <2>2. /\ task' = task /\ evidence' = evidence /\ pc' = "executor"
        /\ pending = {}
    BY <1>1 DEF Planner, OrderInv
  <2>3. CASE evidence = <<>>
    <3>1. CASE pending' = {}
      BY <2>2, <2>3, <3>1 DEF OrderInv, Asked, Planned
    <3>2. CASE pending' # {}
      <4>1. steps # <<>>
        BY <2>1, <3>2
      <4>2. steps = InitialPlan(task)
        BY <2>3, <4>1 DEF RecipePlans
      <4>3. plan' = InitialPlan(task)
        BY <1>0, <2>1, <2>3, <4>2, InitialPlanAsksTrend
      <4>4. Planned("ping.trend")' /\ ~Planned("ping.by_asn")'
        BY <1>0, <2>1, <4>3, InitialPlanAsksTrend DEF Planned
      <4>5. ~Asked("ping.by_asn")'
        BY <2>2, <2>3 DEF Asked
      <4> QED BY <2>2, <4>4, <4>5 DEF OrderInv
    <3> QED BY <3>1, <3>2
  <2>4. CASE evidence # <<>>
    <3>1. Asked("ping.trend")'
      BY <2>2, <2>4 DEF OrderInv, Asked, Planned
    <3>2. ASSUME task.wants_path, Asked("ping.by_asn")' \/ Planned("ping.by_asn")'
          PROVE  HasObserved(evidence, "trace.path_change")
      <4>1. CASE Asked("ping.by_asn")'
        BY <2>2, <3>2, <4>1 DEF OrderInv, Asked
      <4>2. CASE Planned("ping.by_asn")'
        <5>1. PICK k \in DOMAIN steps : steps[k].query = "ping.by_asn"
          BY <2>1, <4>2 DEF Planned
        <5>2. Asked("ping.by_asn") \/ HasObserved(evidence, "trace.path_change")
          BY <1>0, <2>1, <2>4, <3>2, <5>1, RecipeAsksPathFirst DEF Asked
        <5> QED BY <3>2, <5>2 DEF OrderInv
      <4> QED BY <3>2, <4>1, <4>2
    <3> QED BY <2>2, <3>1, <3>2 DEF OrderInv
  <2> QED BY <2>3, <2>4
<1>2. CASE ExecuteStep
  <2>1. PICK k \in pending : \E item \in Item :
           /\ k \in DOMAIN plan
           /\ item.query = plan[k].query
           /\ DOMAIN evidence' = DOMAIN evidence \cup {Len(evidence) + 1}
           /\ \A i \in DOMAIN evidence : evidence'[i] = evidence[i]
           /\ evidence'[Len(evidence) + 1] = item
           /\ pending' = pending \ {k}
    BY <1>2, StepIsAppended
  <2>2. task' = task /\ plan' = plan /\ pc' = "executor"
    BY <1>2 DEF ExecuteStep
  <2>3. \A q : (Asked(q) \/ Planned(q))' <=> Asked(q) \/ Planned(q)
    BY <2>1, <2>2 DEF Asked, Planned
  <2>4. HasObserved(evidence, "trace.path_change") =>
          HasObserved(evidence', "trace.path_change")
    BY <2>1 DEF HasObserved
  <2>5. Asked("ping.trend") \/ Planned("ping.trend")
    BY <2>1 DEF OrderInv
  <2>6. (Asked("ping.trend") \/ Planned("ping.trend"))'
    BY <2>3, <2>5
  <2>7. task.wants_path /\ (Asked("ping.by_asn") \/ Planned("ping.by_asn"))' =>
          HasObserved(evidence', "trace.path_change")
    BY <2>3, <2>4 DEF OrderInv
  <2> QED BY <2>2, <2>6, <2>7 DEF OrderInv
<1>3. CASE Understand
  BY <1>3 DEF OrderInv, PlanInv, Understand, Asked, Planned
<1>4. CASE Context \/ ContextRaises \/ PlannerRaises \/ ExecutorDone \/ Verifier
           \/ VerifierFails \/ AfterVerifier \/ Synthesizer \/ Deadline
  BY <1>4 DEF OrderInv, Asked, Planned, Context, ContextRaises, PlannerRaises, Raise,
              ExecutorDone, Verifier, VerifierFails, AfterVerifier, Synthesizer, Deadline
<1>5. CASE UNCHANGED vars
  BY <1>5 DEF OrderInv, Asked, Planned, vars
<1> QED BY <1>1, <1>2, <1>3, <1>4, <1>5 DEF Next, RunNode

\* RecipeInv is inductive.
LEMMA RecipeNext == TypeOK /\ RecipeInv /\ [Next]_vars => RecipeInv'
  BY VerdictNext, PlanNext, ActionNext, OrderNext DEF RecipeInv

\* RecipeInv holds at every instant.
LEMMA RecipeAlways == Spec => [](TypeOK /\ RecipeInv)
  BY RecipeInit, RecipeNext, TypeCorrect, PTL DEF Spec

-----------------------------------------------------------------------------
(***************************************************************************)
(* Verifier and planner agree: whenever the verdict of _verifier sends the *)
(* run back, _steps has a step for what is missing and does not raise. It  *)
(* holds when neither the model plans nor the model criticises: a semantic *)
(* objective of the critic is none the recipe knows.                       *)
(***************************************************************************)
THEOREM ReplansAreActionable ==
  Spec => [](~PlannerLLM /\ ~CriticLLM => ReplanIsActionable)
<1>1. TypeOK /\ RecipeInv => (~PlannerLLM /\ ~CriticLLM => ReplanIsActionable)
  <2> SUFFICES ASSUME TypeOK, RecipeInv, ~PlannerLLM, ~CriticLLM,
                      pc = "route", verification.verdict = "REPLAN"
               PROVE  /\ plan # <<>>
                      /\ ~RecipeRaises(task, evidence)
                      /\ <<>> \notin RecipePlans(task, evidence)
    BY DEF ReplanIsActionable
  <2>1. PlanInv /\ VerdictInv /\ ActionInv
    BY DEF RecipeInv
  <2>2. /\ evidence # <<>>
        /\ ~VerifierRaises(task, evidence)
        /\ Missing(task, evidence) # {}
    BY <2>1 DEF VerdictInv
  <2>3. Plannable(task) /\ \A i \in DOMAIN evidence : evidence[i].query \in Catalog
    BY <2>1, <2>2 DEF PlanInv
  <2>4. task \in Task /\ evidence \in Seq(Item)
    BY DEF TypeOK
  <2>5. plan # <<>>
    BY <2>1, <2>2 DEF ActionInv
  <2> QED BY <2>2, <2>3, <2>4, <2>5, MissingIsAskable
<1> QED BY <1>1, RecipeAlways, PTL

(***************************************************************************)
(* A PASS is earned: when a network analysis ends with PASS, _steps has    *)
(* nothing left to ask.  It holds when the model does not plan, and for    *)
(* budgets that hold the first plan: with one or two queries the trend is  *)
(* cut from it and a PASS may come without it.                             *)
(***************************************************************************)
THEOREM PassesAreComplete ==
  Spec => [](~PlannerLLM /\ MaxQueries >= 3 => PassIsComplete)
<1>1. TypeOK /\ RecipeInv => (~PlannerLLM /\ MaxQueries >= 3 => PassIsComplete)
  <2> SUFFICES ASSUME TypeOK, RecipeInv, ~PlannerLLM, MaxQueries >= 3,
                      pc = "end", verification.verdict = "PASS",
                      task.kind = "network_analysis",
                      task.wants_path => Attributes(task)
               PROVE  RecipePlans(task, evidence) = {<<>>}
    BY DEF PassIsComplete
  <2>1. VerdictInv /\ OrderInv
    BY DEF RecipeInv
  <2>2. /\ evidence # <<>>
        /\ Missing(task, evidence) = {}
        /\ ~HasErrors(evidence)
    BY <2>1 DEF VerdictInv
  <2>3. Asked("ping.trend")
    BY <2>1, <2>2 DEF OrderInv, Planned
  <2>4. task.wants_path /\ Asked("ping.by_asn") => HasObserved(evidence, "trace.path_change")
    BY <2>1 DEF OrderInv
  <2>5. task \in Task /\ evidence \in Seq(Item)
    BY DEF TypeOK
  <2> QED BY <2>2, <2>3, <2>4, <2>5, NothingLeftToAsk DEF Asked
<1> QED BY <1>1, RecipeAlways, PTL
=============================================================================
