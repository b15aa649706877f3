------------------------------ MODULE AlertBook ------------------------------
(***************************************************************************)
(* What the callback service promises of its alerts, for any number of     *)
(* pods and however far the replicas they read lag.                        *)
(*                                                                         *)
(* A delivery is about a subject.  First the order is kept, for good.      *)
(* Then its alert is entered in the book and raised, at most once by the   *)
(* delivery, or withheld, because the book says that the alert, or one     *)
(* that speaks for it, has been answered.  An answer is never taken back.  *)
(***************************************************************************)
CONSTANTS
  Delivery,
  Subject,  \* [order, level, flow, field]: what a delivery can be about
  Grade,    \* the levels that call for an alert
  Nothing   \* what a delivery is about before it has come

VARIABLES
  about,     \* about[d]: the subject of delivery d
  fate,      \* fate[d]: it is awaited or open, or its alert was raised or withheld
  kept,      \* the orders there is a record of
  listened,  \* the orders that are listened to
  book,      \* the alerts that have been entered
  answered   \* those of them that Argos has called back for

alertBook == <<about, fate, kept, listened, book, answered>>

Init ==
  /\ about = [d \in Delivery |-> Nothing]
  /\ fate = [d \in Delivery |-> "awaited"]
  /\ kept = {} /\ listened = {} /\ book = {} /\ answered = {}

\* the alert itself, or one of its level, flow and business
SpeaksFor(a, s) ==
  /\ a.level = s.level
  /\ a.order = s.order \/ (a.flow = s.flow /\ a.field = s.field)

Come(d) ==
  /\ fate[d] = "awaited"
  /\ \E s \in Subject : about' = [about EXCEPT ![d] = s]
  /\ fate' = [fate EXCEPT ![d] = "open"]
  /\ UNCHANGED <<kept, listened, book, answered>>

Keep(d) ==
  /\ fate[d] = "open"
  /\ kept' = kept \cup {about[d].order}
  /\ UNCHANGED <<about, fate, listened, book, answered>>

\* there is an alert to raise, and the record from which its card is made
Due(d) == fate[d] = "open" /\ about[d].level \in Grade /\ about[d].order \in kept

Enter(d) ==
  /\ Due(d)
  /\ book' = book \cup {about[d]}
  /\ UNCHANGED <<about, fate, kept, listened, answered>>

Raise(d) ==
  /\ Due(d)
  /\ fate' = [fate EXCEPT ![d] = "raised"]
  /\ UNCHANGED <<about, kept, listened, book, answered>>

\* the last of a delivery: one that ends well without a raise had a reason
Listen(d) ==
  /\ fate[d] \in {"open", "raised"} /\ about[d].order \in kept
  /\ listened' = listened \cup {about[d].order}
  /\ \/ UNCHANGED fate
     \/ /\ Due(d)
        /\ \E a \in answered : SpeaksFor(a, about[d])
        /\ fate' = [fate EXCEPT ![d] = "withheld"]
  /\ UNCHANGED <<about, kept, book, answered>>

CallBack(a) ==
  /\ answered' = answered \cup {b \in book : b.order = a.order /\ b.level = a.level}
  /\ UNCHANGED <<about, fate, kept, listened, book>>

Next ==
  \/ \E d \in Delivery : Come(d) \/ Keep(d) \/ Enter(d) \/ Raise(d) \/ Listen(d)
  \/ \E a \in book : CallBack(a)

Spec == Init /\ [][Next]_alertBook
=============================================================================
