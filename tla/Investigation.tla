---------------------------- MODULE Investigation ----------------------------
(***************************************************************************)
(* What the harness promises its caller: a bounded investigation.          *)
(*                                                                         *)
(* Questions are put to a data source, at most Budget of them.  What has   *)
(* been learnt is never asked again, except the repeatable questions.  The *)
(* investigation closes with an answer whose citations have all been       *)
(* learnt, or with an error and no citation.                               *)
(***************************************************************************)
EXTENDS Naturals, Sequences

CONSTANTS
  Question,    \* the questions there are
  Repeatable,  \* those that may be asked again after an answer
  Budget       \* how many may be asked

VARIABLES
  known,   \* the questions that have been answered
  asked,   \* the questions put, in order
  cited,   \* the questions the answer cites
  status   \* "open", "answered" or "failed"

investigation == <<known, asked, cited, status>>

Init ==
  /\ known = {}
  /\ asked = <<>>
  /\ cited = {}
  /\ status = "open"

\* The source answers, or it does not: a failed question may be put again.
Ask(q) ==
  /\ status = "open"
  /\ Len(asked) < Budget
  /\ q \in known => q \in Repeatable
  /\ asked' = Append(asked, q)
  /\ known' \in {known, known \cup {q}}
  /\ UNCHANGED <<cited, status>>

Answer ==
  /\ status = "open"
  /\ status' = "answered"
  /\ cited' \in SUBSET known
  /\ UNCHANGED <<known, asked>>

Fail ==
  /\ status = "open"
  /\ status' = "failed"
  /\ UNCHANGED <<known, asked, cited>>

Next == (\E q \in Question : Ask(q)) \/ Answer \/ Fail

Spec == Init /\ [][Next]_investigation
=============================================================================
