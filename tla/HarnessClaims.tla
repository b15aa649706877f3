---------------------------- MODULE HarnessClaims ----------------------------
(***************************************************************************)
(* What the documents, comments and tests of the repository say of the     *)
(* harness and the code does not keep.  Each is checked by a run that      *)
(* expects TLC to find a counterexample; README.md discusses them.         *)
(***************************************************************************)
EXTENDS Harness

(***************************************************************************)
(* "PARTIAL and ABSTAIN are terminal, user-visible outcomes" (graph.py)    *)
(* and "verdict": "PASS | PARTIAL | ABSTAIN" (design, 5.6): REPLAN is an   *)
(* instruction to the graph and never the verdict of an answer.            *)
(***************************************************************************)
FinalVerdictIsVisible ==
  pc = "end" => verification.verdict \in {"PASS", "PARTIAL", "ABSTAIN"}

(***************************************************************************)
(* "When the remote data source is unavailable the system degrades to      *)
(* ABSTAIN/PARTIAL" (design, status note): a failed query is never the     *)
(* reason a run ends with an error.                                        *)
(***************************************************************************)
DegradesInsteadOfFailing == pc # "failed"
=============================================================================
