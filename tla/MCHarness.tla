------------------------------ MODULE MCHarness ------------------------------
(***************************************************************************)
(* Values for the constants of Harness.                                    *)
(***************************************************************************)
EXTENDS HarnessClaims

\* data of a result: no flag set unless said
Row(p95, mean) == [rows |-> TRUE, bad |-> FALSE, p95 |-> p95, mean |-> mean, named |-> TRUE]
Plainly        == Row(0, 0)
Empty          == [Plainly EXCEPT !.rows = FALSE, !.named = FALSE]
Bad(d)         == [d EXCEPT !.bad = TRUE]
Unnamed(d)     == [d EXCEPT !.named = FALSE]

NetworkTasks ==
  {t \in Task : t.kind = "network_analysis" /\ ~t.long_tail}

(***************************************************************************)
(* Recipe mode: every reading of a network question.                       *)
(***************************************************************************)
RecipeTasks == NetworkTasks

RecipeAnswers ==
  [q \in Query |->
     CASE q = "ping.summary"      -> {Row(10, 0), Row(0, 0), Row(NaN, 0), Bad(Row(10, 0))}
       [] q = "ping.by_asn"       -> {Row(12, 8), Row(13, 8), Unnamed(Row(13, 12)), Empty}
       [] q \in {"ping.trend", "ping.by_prefix24", "ping.compare_window"}
                                  -> {Plainly, Empty}
       [] OTHER                   -> {Plainly}]

\* one answer per branch that later steps take
SmallAnswers ==
  [q \in Query |->
     CASE q = "ping.summary" -> {Row(10, 0)}
       [] q = "ping.by_asn"  -> {Row(12, 8), Row(13, 8)}
       [] OTHER              -> {Plainly}]

NoDependencies == {{}}

(***************************************************************************)
(* The LLM plans, criticises and reads the question: what it may propose   *)
(* is a query of LLMProposals, with a dependency that is met once the ASN  *)
(* breakdown has been asked.                                               *)
(***************************************************************************)
LLMTasks ==
  {t \in Task : /\ t.region /\ ~t.time
                /\ t.goal = "diagnose" /\ t.wants_path
                /\ t.asn = t.long_tail
                /\ t.needs_baseline => ~t.long_tail
                /\ t.kind = "knowledge" => t.long_tail}

LLMProposals == {"ping.summary", "ping.by_asn", "trace.path_change", "query.ir"}

SomeDependencies == {{"ping.by_asn"}}
=============================================================================
