----------------------------- MODULE Invocation -----------------------------
(***************************************************************************)
(* What the tool runtime promises its callers: one outcome for each call.  *)
(*                                                                         *)
(* A call acts, any number of times, and its outcome is settled once: a    *)
(* success, an error, or what was recorded under its key.  The record of a *)
(* success is a step of its own, between the act and the outcome: others   *)
(* see it before the call succeeds, and it stays when the call does not.   *)
(* Of the errors only one that is permanent may be recorded, as it is      *)
(* settled or later.  A lasting record is replaced and never forgotten.    *)
(***************************************************************************)
EXTENDS Naturals

CONSTANTS
  Call,
  Key,
  KeyOf,    \* KeyOf[c]: the key of a call; one outside Key stands for no key
  Error,    \* the errors there are, "permanent" among them
  Lasting   \* records outlive the process

VARIABLES
  settled,  \* settled[c]: the outcome of call c, or "none"
  record,   \* record[k]: the outcome recorded under k, or "none"
  seen,     \* seen[c]: what call c has read of the record of its key
  acts      \* acts[k]: what has been done under each key, and under none

invocation == <<settled, record, seen, acts>>

Init ==
  /\ settled = [c \in Call |-> "none"]
  /\ record = [k \in Key |-> "none"]
  /\ seen = [c \in Call |-> "none"]
  /\ acts = [k \in Key \cup {KeyOf[c] : c \in Call} |-> 0]

\* before or after the outcome of its call: nothing waits for it
Act(c) ==
  /\ acts' = [acts EXCEPT ![KeyOf[c]] = @ + 1]
  /\ UNCHANGED <<settled, record, seen>>

Settle(c, outcome) ==
  /\ settled[c] = "none"
  /\ settled' = [settled EXCEPT ![c] = outcome]

\* a success that is due is recorded, whether or not it is ever reported
Note(c) ==
  /\ KeyOf[c] \in Key /\ acts[KeyOf[c]] > 0
  /\ record' = [record EXCEPT ![KeyOf[c]] = "ok"]
  /\ UNCHANGED <<settled, seen, acts>>

\* a success under a key is reported when there is a record
Succeed(c) ==
  /\ acts[KeyOf[c]] > 0
  /\ KeyOf[c] \in Key => record[KeyOf[c]] # "none"
  /\ Settle(c, "ok")
  /\ UNCHANGED <<record, seen, acts>>

Fail(c) ==
  /\ \E error \in Error : Settle(c, error)
  /\ UNCHANGED <<record, seen, acts>>

\* a later call under the key is to be told the same
Freeze(c) ==
  /\ KeyOf[c] \in Key /\ settled[c] = "permanent"
  /\ record' = [record EXCEPT ![KeyOf[c]] = "permanent"]
  /\ UNCHANGED <<settled, seen, acts>>

\* where the record is at hand
FailForGood(c) ==
  /\ KeyOf[c] \in Key
  /\ Settle(c, "permanent")
  /\ record' = [record EXCEPT ![KeyOf[c]] = "permanent"]
  /\ UNCHANGED <<seen, acts>>

Look(c) ==
  /\ KeyOf[c] \in Key /\ settled[c] = "none"
  /\ seen' = [seen EXCEPT ![c] = record[KeyOf[c]]]
  /\ UNCHANGED <<settled, record, acts>>

Replay(c) ==
  /\ seen[c] # "none"
  /\ Settle(c, seen[c])
  /\ UNCHANGED <<record, seen, acts>>

Forget ==
  /\ ~Lasting
  /\ record' = [k \in Key |-> "none"]
  /\ UNCHANGED <<settled, seen, acts>>

Next ==
  \/ \E c \in Call : \/ Act(c) \/ Note(c) \/ Succeed(c)
                     \/ Fail(c) \/ Freeze(c) \/ FailForGood(c)
                     \/ Look(c) \/ Replay(c)
  \/ Forget

Spec == Init /\ [][Next]_invocation
=============================================================================
