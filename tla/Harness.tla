------------------------------- MODULE Harness -------------------------------
(***************************************************************************)
(* One execution of the evidence-driven harness (src/harness): the graph   *)
(* understand -> context -> planner -> executor -> verifier, the routing   *)
(* function _after_verifier that goes back to the planner or on to the     *)
(* synthesizer, and the evidence ledger the nodes share.                   *)
(*                                                                         *)
(* Kept: every branch, early return, budget check, exception path and the  *)
(* order of the recipe.  Abstracted: rows of a result are reduced to what  *)
(* the branches read of them (Datum), parameters of a query to the scope   *)
(* that narrows it, the LLM to the set of answers its guards let through,  *)
(* the clock to one flag that says that the deadline has passed.           *)
(***************************************************************************)
EXTENDS Integers, Sequences, SequencesExt

CONSTANTS
  MaxRounds,        \* state["max_rounds"]
  MaxQueries,       \* budget["max_queries"]
  MaxToolFailures,  \* budget["max_tool_failures"]
  UnderstandLLM,    \* HARNESS_UNDERSTAND_ENABLED
  PlannerLLM,       \* HARNESS_PLANNER_ENABLED
  CriticLLM,        \* HARNESS_VERIFIER_LLM_ENABLED, mode "always"
  ContextLLM,       \* HARNESS_CONTEXT_LLM_ENABLED
  Tasks,            \* the task specifications a query can be read as
  Answers,          \* Answers[q]: the results a successful query q may return
  Proposals,        \* the queries the LLM planner may think of
  Dependencies      \* the depends_on sets an LLM step may carry

Catalog == {"ping.summary", "ping.trend", "ping.by_asn", "ping.by_prefix24",
            "ping.outliers", "ping.compare_window", "trace.paths",
            "trace.path_change"}

Query == Catalog \cup {"query.ir"}

(***************************************************************************)
(* A task: what the branches of the nodes read of a TaskSpec.  region says *)
(* that a region was found, asn that "asn" is an analysis dimension (or    *)
(* locate_asn a requirement), time that "time" is one.                     *)
(***************************************************************************)
Task == [kind : {"network_analysis", "knowledge"}, region : BOOLEAN,
         goal : {"describe", "diagnose"}, long_tail : BOOLEAN,
         needs_baseline : BOOLEAN, wants_path : BOOLEAN,
         asn : BOOLEAN, time : BOOLEAN]

(***************************************************************************)
(* A result.  rows: it has the rows a fact is built from (for ping.trend   *)
(* two with a P95, for ping.by_asn one with enough samples); bad: a row    *)
(* breaks a metric invariant; p95: the P95 of the first row after sorting  *)
(* (0 for None or 0.0, NaN for a quantile over no sample); mean: the mean  *)
(* of the P95 column; named: the first row has its ASN or prefix.          *)
(***************************************************************************)
NaN == -1
Datum == [rows : BOOLEAN, bad : BOOLEAN, p95 : Int, mean : Int, named : BOOLEAN]
NoData == [rows |-> FALSE, bad |-> FALSE, p95 |-> 0, mean |-> 0, named |-> FALSE]

ASSUME BudgetAssumption ==
  /\ MaxRounds \in Nat
  /\ MaxQueries \in Nat
  /\ MaxToolFailures \in Nat

ASSUME ModeAssumption ==
  /\ UnderstandLLM \in BOOLEAN
  /\ PlannerLLM \in BOOLEAN
  /\ CriticLLM \in BOOLEAN
  /\ ContextLLM \in BOOLEAN

ASSUME InputAssumption ==
  /\ Tasks \subseteq Task
  /\ Answers \in [Query -> SUBSET Datum]
  /\ Proposals \subseteq Query
  /\ Dependencies \subseteq SUBSET Query

Scope == {"region", "asn", "prefix"}
Step == [query : Query, scope : Scope, deps : SUBSET Query]

(***************************************************************************)
(* An item of the evidence list; its evidence_id is "E" and its position.  *)
(* The error_kind of an unavailable item matters by _retryable only:       *)
(* "retryable" is None, timeout or transient, "permanent" all the others.  *)
(***************************************************************************)
Status == {"observed", "retryable", "permanent"}
Item == [query : Query, scope : Scope, status : Status, data : Datum]

Objective == {"asn", "prefix", "paths", "path_change", "semantic"}
Verdict == {"none", "PASS", "REPLAN", "PARTIAL", "ABSTAIN"}
FactName == {"generated_measurement", "rtt_summary", "p95_spike_detected",
             "asn_concentration", "prefix24_candidates", "baseline_degradation",
             "traceroute_paths_observed", "path_change",
             "rtt_path_time_correlation"}
Fact == [fact : FactName, ids : SUBSET (Nat \ {0})]
Verification == [verdict : Verdict, facts : SUBSET Fact,
                 objectives : SUBSET Objective]

Node == {"understand", "context", "planner", "executor", "verifier", "route",
         "synthesizer"}
Terminal == {"end", "failed"}

VARIABLES
  pc,            \* the node that runs next, or how the run ended
  task,          \* state["task"]
  round,         \* state["round"]
  plan,          \* state["plan"]["steps"]
  pending,       \* the indices of plan not executed yet (executor's pending)
  evidence,      \* state["execution"]["evidence"]
  verification,  \* state["verification"]
  claims,        \* state["answer"]["claims"]
  late           \* time.time() - started_at >= deadline_seconds

vars == <<pc, task, round, plan, pending, evidence, verification, claims, late>>

-----------------------------------------------------------------------------
(***************************************************************************)
(* The evidence ledger.                                                    *)
(***************************************************************************)
Indices(ev, q) == {i \in DOMAIN ev : ev[i].query = q}
IsLatest(ev, i) == \A j \in DOMAIN ev : ev[j].query = ev[i].query => j <= i
HasObserved(ev, q) == \E i \in DOMAIN ev : ev[i].query = q /\ ev[i].status = "observed"
ObservedQueries(ev) == {q \in Query : HasObserved(ev, q)}

\* mutant: the first item of the query, answered or not
FirstObserved_AnyStatus(ev, q) ==
  CHOOSE i \in Indices(ev, q) : \A j \in Indices(ev, q) : i <= j

\* ledger.observed(q)[0] and _latest_evidence(ledger, q)
FirstObserved(ev, q) ==
  CHOOSE i \in Indices(ev, q) :
    /\ ev[i].status = "observed"
    /\ \A j \in Indices(ev, q) : ev[j].status = "observed" => i <= j
Latest(ev, q) == ev[CHOOSE i \in Indices(ev, q) : IsLatest(ev, i)]

Failures(ev) == Cardinality({i \in DOMAIN ev : ev[i].status # "observed"})

\* mutant: every failed item is retried, not only the latest of its query
RetryableFailed_AnyItem(ev) ==
  {q \in Query : \E i \in DOMAIN ev : ev[i].query = q /\ ev[i].status = "retryable"}

\* retryable_failed: the latest item of the query failed in a retryable way
RetryableFailed(ev) ==
  {q \in Query : \E i \in DOMAIN ev : /\ ev[i].query = q
                                      /\ IsLatest(ev, i)
                                      /\ ev[i].status = "retryable"}

(***************************************************************************)
(* _asn_concentration: the worst ASN is more than 1.2 times the overall    *)
(* P95, the summary's if it has one, else the mean over the ASNs.  It      *)
(* raises when the summary was asked and its latest item has no data.      *)
(***************************************************************************)
AsnObserved(ev) ==
  /\ Indices(ev, "ping.by_asn") # {}
  /\ Latest(ev, "ping.by_asn").status = "observed"

ConcentrationRaises(ev) ==
  /\ AsnObserved(ev)
  /\ Indices(ev, "ping.summary") # {}
  /\ Latest(ev, "ping.summary").status # "observed"

Concentrated(ev) ==
  /\ AsnObserved(ev)
  /\ LET asn     == Latest(ev, "ping.by_asn").data
         summary == IF Indices(ev, "ping.summary") = {} THEN 0
                    ELSE Latest(ev, "ping.summary").data.p95
         overall == IF summary # 0 THEN summary ELSE asn.mean
     IN  asn.rows /\ overall > 0 /\ 5 * asn.p95 > 6 * overall

NeedsAsn(t) == t.wants_path => t.asn

-----------------------------------------------------------------------------
(***************************************************************************)
(* The recipe, _steps: the query it asks for next.  EarlyQuery is the part *)
(* before _asn_concentration is evaluated, DrilldownQuery the part after.  *)
(***************************************************************************)
None == "none"

\* mutant: the recipe asks for the ASN breakdown only when the question names it
EarlyQuery_ExplicitAsn(t, ev) ==
  IF HasObserved(ev, "ping.summary") /\ ~HasObserved(ev, "ping.trend")
  THEN "ping.trend"
  ELSE IF t.wants_path /\ ~HasObserved(ev, "trace.path_change")
  THEN "trace.path_change"
  ELSE IF t.goal = "diagnose" /\ t.asn /\ ~HasObserved(ev, "ping.by_asn")
  THEN "ping.by_asn"
  ELSE None

EarlyQuery(t, ev) ==
  IF HasObserved(ev, "ping.summary") /\ ~HasObserved(ev, "ping.trend")
  THEN "ping.trend"
  ELSE IF t.wants_path /\ ~HasObserved(ev, "trace.path_change")
  THEN "trace.path_change"
  ELSE IF t.goal # "diagnose" /\ t.time /\ ~HasObserved(ev, "ping.trend")
  THEN "ping.trend"
  ELSE IF t.goal = "diagnose" /\ NeedsAsn(t) /\ ~HasObserved(ev, "ping.by_asn")
  THEN "ping.by_asn"
  ELSE None

DrilldownQuery(t, ev) ==
  IF Concentrated(ev) /\ ~HasObserved(ev, "ping.by_prefix24")
  THEN "ping.by_prefix24"
  ELSE IF /\ t.wants_path
          /\ HasObserved(ev, "ping.by_prefix24")
          /\ ~HasObserved(ev, "trace.paths")
  THEN "trace.paths"
  ELSE None

RecipeQuery(t, ev) ==
  IF EarlyQuery(t, ev) # None THEN EarlyQuery(t, ev)
  ELSE IF t.goal # "diagnose" THEN None
  ELSE DrilldownQuery(t, ev)

\* asn=_top_asn(ledger) and prefix24=_top_prefix(ledger) narrow a query only
\* when the first row carries the value
RecipeScope(ev, q) ==
  IF q = "ping.by_prefix24" /\ Latest(ev, "ping.by_asn").data.named THEN "asn"
  ELSE IF q = "trace.paths" /\ Latest(ev, "ping.by_prefix24").data.named
  THEN "prefix"
  ELSE "region"

Plain(q) == [query |-> q, scope |-> "region", deps |-> {}]

InitialPlan(t) ==
  IF t.needs_baseline
  THEN <<Plain("ping.compare_window"), Plain("ping.summary"), Plain("ping.trend")>>
  ELSE <<Plain("ping.summary"), Plain("ping.trend")>>

Plannable(t) == t.kind = "network_analysis" /\ t.region

(***************************************************************************)
(* The step lists _steps may return: one, except that the retry branch     *)
(* lists a Python set, in any order.                                       *)
(***************************************************************************)
RetryPlans(ev) == SetToSeqs({Plain(q) : q \in RetryableFailed(ev) \cap Catalog})

RecipePlans(t, ev) ==
  IF ~Plannable(t) THEN {<<>>}
  ELSE IF ev = <<>> THEN {InitialPlan(t)}
  ELSE IF RetryableFailed(ev) # {} THEN RetryPlans(ev)
  ELSE IF RecipeQuery(t, ev) = None THEN {<<>>}
  ELSE {<<[query |-> RecipeQuery(t, ev),
           scope |-> RecipeScope(ev, RecipeQuery(t, ev)), deps |-> {}]>>}

RecipeRaises(t, ev) ==
  /\ Plannable(t) /\ ev # <<>> /\ RetryableFailed(ev) = {}
  /\ EarlyQuery(t, ev) = None /\ t.goal = "diagnose"
  /\ ConcentrationRaises(ev)

(***************************************************************************)
(* _llm_plan: what its Plan Guard lets through.  One catalog query not yet *)
(* observed, with parameters of the model's choice, or one query.ir in     *)
(* long-tail mode.  An empty or rejected proposal leaves the recipe.       *)
(***************************************************************************)
LLMScopes(q) == CASE q = "ping.by_prefix24" -> {"region", "asn"}
                  [] q \in {"trace.paths", "trace.path_change"} -> {"region", "prefix"}
                  [] OTHER -> {"region"}

\* mutant: the Plan Guard checks the catalog and forgets what is observed
LLMQueries_Unguarded(t, ev) ==
  Proposals \ (IF t.long_tail THEN {} ELSE {"query.ir"})

LLMQueries(t, ev) ==
  {q \in Proposals : IF q = "query.ir" THEN t.long_tail ELSE ~HasObserved(ev, q)}

LLMSteps(t, ev) ==
  UNION {[query : {q}, scope : LLMScopes(q),
          deps : IF q = "query.ir" THEN {{}} ELSE Dependencies] : q \in LLMQueries(t, ev)}

PlannerPlans(t, ev) ==
  RecipePlans(t, ev)
    \cup (IF PlannerLLM /\ (t.kind = "network_analysis" \/ t.long_tail)
          THEN {<<s>> : s \in LLMSteps(t, ev)} ELSE {})

\* mutant: the plan is cut to the whole budget, not to what is left of it
Truncated_WholeBudget(steps, ev) ==
  IF MaxQueries >= Len(steps) THEN steps ELSE SubSeq(steps, 1, MaxQueries)

\* steps[:max(0, max_queries - len(evidence))]
Truncated(steps, ev) ==
  LET left == MaxQueries - Len(ev)
  IN  IF left >= Len(steps) THEN steps
      ELSE IF left > 0 THEN SubSeq(steps, 1, left) ELSE <<>>

-----------------------------------------------------------------------------
(***************************************************************************)
(* The verifier.                                                           *)
(***************************************************************************)
Sources(f) ==
  CASE f = "generated_measurement"     -> {"query.ir"}
    [] f = "rtt_summary"               -> {"ping.summary"}
    [] f = "p95_spike_detected"        -> {"ping.trend"}
    [] f = "asn_concentration"         -> {"ping.by_asn"}
    [] f = "prefix24_candidates"       -> {"ping.by_prefix24"}
    [] f = "baseline_degradation"      -> {"ping.compare_window"}
    [] f = "traceroute_paths_observed" -> {"trace.paths"}
    [] f = "path_change"               -> {"trace.path_change"}
    [] f = "rtt_path_time_correlation" -> {"ping.trend", "trace.path_change"}

DiagnosticFact == {"p95_spike_detected", "baseline_degradation",
                   "asn_concentration", "prefix24_candidates",
                   "traceroute_paths_observed", "rtt_path_time_correlation"}

\* the verifier enters its ASN part
Attributes(t) == t.kind = "network_analysis" /\ t.goal = "diagnose" /\ NeedsAsn(t)

\* facts that need rows, and the one that is built in the ASN part only
Derivable(t, ev, f) ==
  /\ f \in {"rtt_summary", "p95_spike_detected", "baseline_degradation"} =>
       \A q \in Sources(f) : ev[FirstObserved(ev, q)].data.rows
  /\ f = "asn_concentration" => Attributes(t)

FactsOf(t, ev) ==
  {[fact |-> f, ids |-> {FirstObserved(ev, q) : q \in Sources(f)}] :
     f \in {g \in FactName : /\ \A q \in Sources(g) : HasObserved(ev, q)
                             /\ Derivable(t, ev, g)}}

Missing(t, ev) ==
  IF ~Attributes(t) THEN {}
  ELSE IF ~HasObserved(ev, "ping.by_asn") THEN {"asn"}
  ELSE {o \in {"prefix", "paths", "path_change"} :
          \/ /\ o = "prefix"
             /\ Concentrated(ev) /\ ~HasObserved(ev, "ping.by_prefix24")
          \/ /\ t.wants_path /\ HasObserved(ev, "ping.by_prefix24")
             /\ \/ o = "paths" /\ ~HasObserved(ev, "trace.paths")
                \/ o = "path_change" /\ ~HasObserved(ev, "trace.path_change")}

\* a diagnosis with no diagnostic fact; the other coverage issues come with
\* an objective
NoDirection(t, facts) ==
  t.goal = "diagnose" /\ {f.fact : f \in facts} \cap DiagnosticFact = {}

\* mutant: a failure that could be retried does not count
HasErrors_PermanentOnly(ev) ==
  \E i \in DOMAIN ev : IsLatest(ev, i) /\ ev[i].status = "permanent"

HasErrors(ev) == \E i \in DOMAIN ev : IsLatest(ev, i) /\ ev[i].status # "observed"
Inconsistent(ev) == \E i \in DOMAIN ev : ev[i].status = "observed" /\ ev[i].data.bad

CanReplan(t, ev, objectives) ==
  /\ objectives # {}
  /\ t.kind = "network_analysis"
  /\ round < MaxRounds
  /\ Len(ev) < MaxQueries
  /\ ~late

VerdictOf(t, ev, facts, objectives) ==
  IF ObservedQueries(ev) = {}
  THEN IF t.kind = "knowledge" THEN "PASS" ELSE "ABSTAIN"
  ELSE IF CanReplan(t, ev, objectives) THEN "REPLAN"
  ELSE IF objectives # {} \/ NoDirection(t, facts) THEN "PARTIAL"
  ELSE IF HasErrors(ev) \/ Inconsistent(ev) THEN "PARTIAL"
  ELSE "PASS"

VerifierRaises(t, ev) ==
  Attributes(t) /\ HasObserved(ev, "ping.by_asn") /\ ConcentrationRaises(ev)

-----------------------------------------------------------------------------
(***************************************************************************)
(* The nodes.  task starts as the rule draft of understand, a function of  *)
(* the query.                                                              *)
(***************************************************************************)
Init ==
  /\ pc = "understand"
  /\ task \in Tasks
  /\ round = 0
  /\ plan = <<>>
  /\ pending = {}
  /\ evidence = <<>>
  /\ verification = [verdict |-> "none", facts |-> {}, objectives |-> {}]
  /\ claims = {}
  /\ late = FALSE

\* _llm_task_spec may replace the draft, but keeps its two routing intents
EnrichedTasks(draft) ==
  {t \in Tasks : /\ draft.needs_baseline => t.needs_baseline
                 /\ draft.wants_path => t.wants_path}

Understand ==
  /\ pc = "understand"
  /\ task' \in {task} \cup (IF UnderstandLLM THEN EnrichedTasks(task) ELSE {})
  /\ pc' = "context"
  /\ UNCHANGED <<round, plan, pending, evidence, verification, claims, late>>

\* Retrieval is best effort: its failures are caught and it decides nothing.
Context ==
  /\ pc = "context"
  /\ pc' = "planner"
  /\ UNCHANGED <<task, round, plan, pending, evidence, verification, claims, late>>

\* An exception in a node: execute returns an unsuccessful result.
Raise(node) ==
  /\ pc = node
  /\ pc' = "failed"
  /\ UNCHANGED <<task, round, plan, pending, evidence, verification, claims, late>>

\* _llm_context_synthesis iterates over the fields of the model's JSON outside
\* any try: a field that is a number or TRUE raises
ContextRaises == ContextLLM /\ Raise("context")

Planner ==
  /\ pc = "planner"
  /\ ~RecipeRaises(task, evidence)
  /\ \E steps \in PlannerPlans(task, evidence) :
       /\ plan' = Truncated(steps, evidence)
       /\ pending' = DOMAIN plan'
  /\ round' = round + 1
  /\ pc' = "executor"
  /\ UNCHANGED <<task, evidence, verification, claims, late>>

PlannerRaises == RecipeRaises(task, evidence) /\ Raise("planner")

(***************************************************************************)
(* _execute_with_runtime.  A batch is the pending steps whose dependencies *)
(* are in the evidence, or the first pending step when there is none; its  *)
(* results are recorded in plan order, here one per action; only a step of *)
(* _llm_plan has dependencies and it is alone in its plan, so a batch does *)
(* not change while it is recorded.  A step is answered, or times out, or  *)
(* fails: every failure is caught.                                         *)
(***************************************************************************)
IsReady(step) == step.deps \subseteq {evidence[i].query : i \in DOMAIN evidence}

\* mutant: only ready steps run, a dependency that is never met blocks the batch
IsNext_ReadyOnly(k) ==
  LET ready == {j \in pending : IsReady(plan[j])}
  IN  k \in ready /\ \A j \in ready : k <= j

IsNext(k) ==
  LET ready == {j \in pending : IsReady(plan[j])}
      batch == IF ready = {} THEN pending ELSE ready
  IN  k \in batch /\ \A j \in batch : k <= j

Outcomes(step) ==
  {[query |-> step.query, scope |-> step.scope, status |-> "observed", data |-> d] :
     d \in Answers[step.query]}
    \cup {[query |-> step.query, scope |-> step.scope, status |-> s, data |-> NoData] :
            s \in {"retryable", "permanent"}}

\* mutant: a failed step stays pending, to be tried again at once
ExecuteStep_UntilObserved ==
  /\ pc = "executor"
  /\ \E k \in pending :
       /\ IsNext(k)
       /\ \E item \in Outcomes(plan[k]) :
            /\ evidence' = Append(evidence, item)
            /\ pending' = IF item.status = "observed" THEN pending \ {k} ELSE pending
  /\ UNCHANGED <<pc, task, round, plan, verification, claims, late>>

ExecuteStep ==
  /\ pc = "executor"
  /\ \E k \in pending :
       /\ IsNext(k)
       /\ \E item \in Outcomes(plan[k]) : evidence' = Append(evidence, item)
       /\ pending' = pending \ {k}
  /\ UNCHANGED <<pc, task, round, plan, verification, claims, late>>

ExecutorDone ==
  /\ pc = "executor"
  /\ pending = {}
  /\ pc' = "verifier"
  /\ UNCHANGED <<task, round, plan, pending, evidence, verification, claims, late>>

\* the objectives _llm_semantic_critic may add
CriticObjectives == IF CriticLLM THEN {{}, {"semantic"}} ELSE {{}}

Verifier ==
  /\ pc = "verifier"
  /\ ~VerifierRaises(task, evidence)
  /\ \E semantic \in CriticObjectives :
       LET facts      == FactsOf(task, evidence)
           objectives == Missing(task, evidence) \cup semantic
       IN  verification' = [verdict    |-> VerdictOf(task, evidence, facts, objectives),
                            facts      |-> facts,
                            objectives |-> objectives]
  /\ pc' = "route"
  /\ UNCHANGED <<task, round, plan, pending, evidence, claims, late>>

VerifierFails == VerifierRaises(task, evidence) /\ Raise("verifier")

\* _after_verifier, evaluated after the verifier's state update
ShouldRetry ==
  /\ verification.verdict = "REPLAN"
  /\ task.kind = "network_analysis"
  /\ plan # <<>>
  /\ round < MaxRounds
  /\ Len(evidence) < MaxQueries
  /\ Failures(evidence) < MaxToolFailures
  /\ ~late

AfterVerifier ==
  /\ pc = "route"
  /\ pc' = IF ShouldRetry THEN "planner" ELSE "synthesizer"
  /\ UNCHANGED <<task, round, plan, pending, evidence, verification, claims, late>>

\* A fact becomes a claim when every item it cites is in the ledger.
Synthesizer ==
  /\ pc = "synthesizer"
  /\ claims' = {f \in verification.facts : f.ids # {} /\ f.ids \subseteq DOMAIN evidence}
  /\ pc' = "end"
  /\ UNCHANGED <<task, round, plan, pending, evidence, verification, late>>

\* The deadline passes while any node is running.
Deadline ==
  /\ pc \notin Terminal
  /\ ~late
  /\ late' = TRUE
  /\ UNCHANGED <<pc, task, round, plan, pending, evidence, verification, claims>>

RunNode ==
  \/ Understand
  \/ Context \/ ContextRaises
  \/ Planner \/ PlannerRaises
  \/ ExecuteStep \/ ExecutorDone
  \/ Verifier \/ VerifierFails
  \/ AfterVerifier
  \/ Synthesizer

Next == RunNode \/ Deadline

(***************************************************************************)
(* Every await of a node is bounded by a timeout (5 s for a model, 1 or    *)
(* 2 s for retrieval, AGENT_TOOL_TIMEOUT_SECONDS for a tool), so a node    *)
(* that has started ends.  Nothing forces the deadline to pass.            *)
(***************************************************************************)
Fairness == WF_vars(RunNode)

Spec == Init /\ [][Next]_vars

FairSpec == Spec /\ Fairness

-----------------------------------------------------------------------------
TypeOK ==
  /\ pc \in Node \cup Terminal
  /\ task \in Task
  /\ round \in Nat
  /\ plan \in Seq(Step)
  /\ pending \subseteq DOMAIN plan
  /\ evidence \in Seq(Item)
  /\ verification \in Verification
  /\ claims \subseteq Fact
  /\ late \in BOOLEAN

(***************************************************************************)
(* A catalog query that has been answered is never asked again, in any     *)
(* round, by the recipe, by a retry or by the LLM planner: its observed    *)
(* item is the last of that query.  _latest_evidence and observed()[0],    *)
(* which the nodes use interchangeably, agree because of it.               *)
(***************************************************************************)
NeverRepeatsSuccess ==
  \A i, j \in DOMAIN evidence :
    /\ i < j
    /\ evidence[i].query = evidence[j].query
    /\ evidence[i].query \in Catalog
    => evidence[i].status # "observed"

(***************************************************************************)
(* The budgets hold at every instant and not only where they are read: the *)
(* queries asked and those still pending never exceed max_queries, and a   *)
(* round beyond the first never exceeds max_rounds.                        *)
(***************************************************************************)
WithinBudget ==
  /\ Len(evidence) + Cardinality(pending) <= MaxQueries
  /\ round <= 1 \/ round <= MaxRounds

(***************************************************************************)
(* Verifier and planner agree (recipe mode): whenever the verdict sends    *)
(* the run back, the recipe has a step to take for what is missing, so     *)
(* another round is never spent on an empty plan.                          *)
(***************************************************************************)
ReplanIsActionable ==
  pc = "route" /\ verification.verdict = "REPLAN" =>
    /\ plan # <<>>
    /\ ~RecipeRaises(task, evidence)
    /\ <<>> \notin RecipePlans(task, evidence)

(***************************************************************************)
(* A PASS is earned (recipe mode): when a network analysis ends with PASS, *)
(* the recipe has nothing left to ask and nothing to retry.  Analyses that *)
(* ask for paths without the ASN part are left out: such a one can pass    *)
(* with no path measured.                                                  *)
(***************************************************************************)
PassIsComplete ==
  /\ pc = "end" /\ verification.verdict = "PASS"
  /\ task.kind = "network_analysis"
  /\ task.wants_path => Attributes(task)
  => RecipePlans(task, evidence) = {<<>>}

(***************************************************************************)
(* A claim of the answer cites observed items of exactly the queries its   *)
(* fact is about, and no later item of a catalog query contradicts or      *)
(* replaces what it cites.                                                 *)
(***************************************************************************)
ClaimsCiteLatest ==
  \A c \in claims :
    /\ {evidence[i].query : i \in c.ids} = Sources(c.fact)
    /\ \A i \in c.ids : /\ evidence[i].status = "observed"
                        /\ evidence[i].query \in Catalog => IsLatest(evidence, i)

(***************************************************************************)
(* Every run ends, with an answer or with an error: re-planning, retries   *)
(* and dependencies that are never met cannot keep it going.               *)
(***************************************************************************)
EventuallyEnds == <>(pc \in Terminal)

(***************************************************************************)
(* What is left of a run at most: of the rounds not begun, each the time   *)
(* of a plan of max_queries and of the four nodes it passes; of this one,  *)
(* the nodes to the end or to the planner and the queries still pending;   *)
(* and the deadline, if it has not passed.                                 *)
(***************************************************************************)
Rounds      == IF MaxRounds = 0 THEN 1 ELSE MaxRounds
RoundLength == MaxQueries + 4

NodesLeft ==
  [node \in Node \cup Terminal |->
     CASE node \in Terminal                   -> 0
       [] node \in {"planner", "synthesizer"} -> 1
       [] node \in {"context", "route"}       -> 2
       [] node \in {"understand", "verifier"} -> 3
       [] node = "executor"                   -> 4]

StepsLeft == (Rounds - round) * RoundLength + NodesLeft[pc] + Cardinality(pending)
               + (IF late THEN 0 ELSE 1)

(***************************************************************************)
(* A run takes a bounded number of steps, whatever the model proposes, the *)
(* critic wants, the tools answer and the clock says: each step leaves     *)
(* less, and never less than nothing.  It is why a graph with a loop in it *)
(* needs no limit of its own.                                              *)
(***************************************************************************)
BoundedRun ==
  /\ [](StepsLeft \in 0 .. Rounds * RoundLength + 4)
  /\ [][StepsLeft' < StepsLeft]_vars

(***************************************************************************)
(* A run that has not ended has a step to take: the planner has a plan or  *)
(* raises, and the executor, while steps are pending, has a next one,      *)
(* whatever they depend on, which ends with an item.                       *)
(***************************************************************************)
NeverStuck ==
  /\ pc = "planner" => RecipeRaises(task, evidence) \/ PlannerPlans(task, evidence) # {}
  /\ pc = "executor" /\ pending # {} =>
       \E k \in pending : IsNext(k) /\ Outcomes(plan[k]) # {}

(***************************************************************************)
(* The run is an investigation: its questions are the queries, what it     *)
(* has put are those of the ledger's items, what it knows is what they     *)
(* have observed, its citations are the sources of its claims.             *)
(***************************************************************************)
RunStatus == CASE pc = "end"    -> "answered"
               [] pc = "failed" -> "failed"
               [] OTHER         -> "open"

AskedQueries == [i \in DOMAIN evidence |-> evidence[i].query]

CitedQueries == {evidence[i].query : i \in UNION {c.ids : c \in claims}}

Contract == INSTANCE Investigation
              WITH Question   <- Query,
                   Repeatable <- {"query.ir"},
                   Budget     <- MaxQueries,
                   known      <- ObservedQueries(evidence),
                   asked      <- AskedQueries,
                   cited      <- CitedQueries,
                   status     <- RunStatus

(***************************************************************************)
(* Every step of the nodes is a step of the investigation or changes       *)
(* nothing of it: a question once answered is not put again, the budget is *)
(* never exceeded, and an answer cites only what was learnt before it.     *)
(***************************************************************************)
KeepsContract == Contract!Spec
=============================================================================
