-------------------------- MODULE ToolRuntimeProofs --------------------------
(***************************************************************************)
(* Proofs about ToolRuntime: its type, the agreement of the breaker's two  *)
(* fields, the soundness of replays, the ledger and the audit trail, for   *)
(* any number of calls, keys, attempts and restarts.                       *)
(***************************************************************************)
EXTENDS ToolRuntime, TLAPS

(***************************************************************************)
(* Typing.  TypeOK is not inductive: only a call with a key reads or puts  *)
(* to the store, and the failure it puts is a permanent one of its own.    *)
(***************************************************************************)
StoreAccess ==
  \A c \in Calls :
    /\ pc[c] \in {"lookup", "cached", "record", "recordFailure"} => Keyed(c)
    /\ puts[c] # {} => Keyed(c)
    /\ pc[c] \in {"idle", "lookup", "cached", "handler", "sleep"} => puts[c] = {}
    /\ pc[c] = "record" => puts[c] \subseteq {"ok"}
    /\ pc[c] = "recordFailure" \/ "permanent" \in puts[c] => result[c] = "permanent"

TypeInv == TypeOK /\ StoreAccess

\* A step of a call, of one of its abandoned threads, or of one of its puts.
Moves(c) == Start(c) \/ Proceed(c) \/ ZombieEffect(c) \/ Apply(c)

\* The initial state has the types.
LEMMA InitType == Init => TypeInv
BY DEF Init, TypeInv, TypeOK, StoreAccess, Active, Terminal, Outcome

\* A step of a call, of an abandoned thread of it or of a put of it keeps the types.
LEMMA CallType ==
  ASSUME TypeInv, NEW c \in Calls, Moves(c)
  PROVE  TypeInv'
<1> USE CallAssumption DEF TypeInv, TypeOK, StoreAccess, Active, Terminal, Outcome,
                           call, ledger, breaker, Goto, Audit, Keyed
<1>1. KeyOf[c] \in Keys \cup {NoKey} /\ (Keyed(c) => KeyOf[c] \in Keys)
  OBVIOUS
<1>2. ASSUME Admit(c), pc[c] \in {"idle", "cached"} PROVE TypeInv'
  <2>1. CASE Allow
    <3>1. pc' = [pc EXCEPT ![c] = "handler"] /\ attempts' = [attempts EXCEPT ![c] = 1]
      BY <1>2, <2>1 DEF Admit
    <3>2. UNCHANGED <<cached, effect, zombies, hit, store, puts, commits, failures,
                      opened, crashes, result, audit>>
      BY <1>2, <2>1 DEF Admit
    <3>3. TypeOK'
      BY <3>1, <3>2
    <3>4. StoreAccess'
      BY <1>2, <3>1, <3>2
    <3>. QED
      BY <3>3, <3>4
  <2>2. CASE ~Allow
    <3>1. /\ pc' = [pc EXCEPT ![c] = "done"]
          /\ result' = [result EXCEPT ![c] = "circuit_open"]
          /\ audit' = [audit EXCEPT ![c] = Append(@, "circuit_open")]
      BY <1>2, <2>2 DEF Admit
    <3>2. UNCHANGED <<cached, effect, zombies, hit, store, puts, commits, failures,
                      opened, crashes, attempts>>
      BY <1>2, <2>2 DEF Admit
    <3>3. TypeOK'
      BY <3>1, <3>2
    <3>4. StoreAccess'
      BY <1>2, <3>1, <3>2
    <3>. QED
      BY <3>3, <3>4
  <2>. QED
    BY <2>1, <2>2
<1>. DEFINE Same == UNCHANGED <<cached, attempts, effect, hit, commits, crashes>>
<1>9. ASSUME NEW kind \in {"ok", "permanent"}, Put(c, kind), Keyed(c)
      PROVE  /\ store' \in [Keys -> {"none", "ok", "permanent"}]
             /\ puts' \in [Calls -> SUBSET {"ok", "permanent"}]
             /\ \A d \in Calls : puts'[d] \subseteq puts[d] \cup (IF d = c THEN {kind} ELSE {})
  <2>1. CASE Durable
    <3>1. store' = store /\ puts' = [puts EXCEPT ![c] = puts[c] \cup {kind}]
      BY <1>9, <2>1 DEF Put
    <3>2. puts[c] \cup {kind} \in SUBSET {"ok", "permanent"}
      OBVIOUS
    <3>. QED
      BY <3>1, <3>2
  <2>2. CASE ~Durable
    <3>1. puts' = puts /\ store' = [store EXCEPT ![KeyOf[c]] = kind]
      BY <1>9, <2>2 DEF Put
    <3>. QED
      BY <3>1
  <2>. QED
    BY <2>1, <2>2
<1>10. ASSUME Same, zombies' \in [Calls -> Nat], failures' \in Nat,
              opened' \in {"none", "recent", "elapsed"}, pc[c] \in {"handler", "record"},
              NEW kind \in {"timeout", "transient", "permanent"}, GiveUp(c, kind),
              pc[c] = "record" => kind = "permanent"
       PROVE  TypeInv'
  <2>1. CASE Keyed(c) /\ kind = "permanent"
    <3>1. Put(c, "permanent") /\ Goto(c, "recordFailure") /\ Audit(c, "permanent")
      BY <1>10, <2>1 DEF GiveUp, Recordable
    <3>2. TypeOK'
      BY <1>9, <1>10, <2>1, <3>1
    <3>3. StoreAccess'
      BY <1>9, <1>10, <2>1, <3>1
    <3>. QED
      BY <3>2, <3>3
  <2>2. CASE ~(Keyed(c) /\ kind = "permanent")
    <3>1. UNCHANGED ledger /\ Goto(c, "done") /\ Audit(c, kind)
      BY <1>10, <2>2 DEF GiveUp, Recordable
    <3>2. TypeOK'
      BY <1>10, <3>1
    <3>3. pc[c] # "record"
      BY <1>10, <2>2
    <3>4. StoreAccess'
      BY <1>10, <3>1, <3>3
    <3>. QED
      BY <3>2, <3>4
  <2>. QED
    BY <2>1, <2>2
<1>11. ASSUME Same, zombies' \in [Calls -> Nat], BreakerFailure, pc[c] = "handler",
              NEW kind \in {"timeout", "transient"}, Retry(c, kind)
       PROVE  TypeInv'
  <2>1. failures' \in Nat /\ opened' \in {"none", "recent", "elapsed"}
    BY <1>11 DEF BreakerFailure
  <2>2. CASE attempts[c] < MaxAttempts
    BY <1>11, <2>1, <2>2 DEF Retry
  <2>3. CASE ~(attempts[c] < MaxAttempts)
    BY <1>10, <1>11, <2>1, <2>3 DEF Retry
  <2>. QED
    BY <2>2, <2>3
<1>3. CASE Start(c)
  <2>1. CASE Reject(c)
    BY <2>1 DEF Reject
  <2>2. CASE StartKeyed(c)
    BY <2>2 DEF StartKeyed
  <2>3. CASE StartUnkeyed(c)
    BY <1>2, <2>3 DEF StartUnkeyed
  <2>. QED
    BY <1>3, <2>1, <2>2, <2>3 DEF Start
<1>4. CASE ZombieEffect(c)
  BY <1>1, <1>4 DEF ZombieEffect
<1>5. CASE Proceed(c)
  <2>1. CASE LookupMiss(c)
    BY <1>2, <2>1 DEF LookupMiss
  <2>2. CASE LookupHit(c)
    <3>1. cached[c] \in {"none", "ok", "permanent"}
      OBVIOUS
    <3>. QED
      BY <2>2, <3>1 DEF LookupHit
  <2>3. CASE LookupFails(c)
    BY <2>3 DEF LookupFails
  <2>4. CASE HandlerEffect(c)
    BY <1>1, <2>4 DEF HandlerEffect
  <2>5. CASE HandlerReturns(c)
    <3>1. UNCHANGED <<cached, attempts, effect, zombies, hit, commits, crashes>>
      BY <2>5 DEF HandlerReturns
    <3>2. failures' = 0 /\ opened' = "none" /\ pc[c] = "handler"
      BY <2>5 DEF HandlerReturns, BreakerSuccess
    <3>3. CASE Keyed(c) /\ Put(c, "ok") /\ Goto(c, "record") /\ UNCHANGED <<result, audit>>
      <4>1. TypeOK'
        BY <1>9, <3>1, <3>2, <3>3
      <4>2. StoreAccess'
        BY <1>9, <3>1, <3>2, <3>3
      <4>. QED
        BY <4>1, <4>2
    <3>4. CASE ~Keyed(c) /\ Audit(c, "ok") /\ Goto(c, "done") /\ UNCHANGED ledger
      BY <3>1, <3>2, <3>4
    <3>. QED
      BY <2>5, <3>3, <3>4 DEF HandlerReturns
  <2>6. CASE HandlerTimesOut(c)
    <3>1. zombies' \in [Calls -> Nat]
      BY <2>6 DEF HandlerTimesOut
    <3>2. Same /\ BreakerFailure /\ Retry(c, "timeout") /\ pc[c] = "handler"
      BY <2>6 DEF HandlerTimesOut
    <3>. QED
      BY <1>11, <3>1, <3>2
  <2>7. CASE HandlerIsTransient(c)
    BY <1>11, <2>7 DEF HandlerIsTransient
  <2>8. CASE HandlerIsPermanent(c)
    BY <1>10, <2>8 DEF HandlerIsPermanent
  <2>9. CASE Wake(c)
    BY <2>9 DEF Wake
  <2>10. CASE Record(c)
    BY <1>1, <2>10 DEF Record
  <2>11. CASE RecordFails(c)
    BY <1>10, <2>11 DEF RecordFails
  <2>12. CASE RecordFailure(c)
    BY <1>1, <2>12 DEF RecordFailure
  <2>13. CASE RecordFailureFails(c)
    BY <2>13 DEF RecordFailureFails
  <2>14. CASE Lookup(c)
    BY <1>1, <2>14 DEF Lookup
  <2>. QED
    BY <1>5, <2>1, <2>2, <2>3, <2>4, <2>5, <2>6, <2>7, <2>8, <2>9, <2>10,
       <2>11, <2>12, <2>13, <2>14 DEF Proceed
<1>6. CASE Apply(c)
  <2>1. Keyed(c)
    BY <1>6 DEF Apply
  <2>2. PICK kind \in puts[c] : /\ store' = [store EXCEPT ![KeyOf[c]] = kind]
                                /\ puts' = [puts EXCEPT ![c] = @ \ {kind}]
                                /\ UNCHANGED <<call, commits, breaker, crashes>>
    BY <1>6 DEF Apply
  <2>3. TypeOK'
    <3>1. puts[c] \ {kind} \in SUBSET {"ok", "permanent"} /\ kind \in {"ok", "permanent"}
      OBVIOUS
    <3>2. /\ puts' \in [Calls -> SUBSET {"ok", "permanent"}]
          /\ store' \in [Keys -> {"none", "ok", "permanent"}]
      BY <2>2, <3>1
    <3>. QED
      BY <2>2, <3>2
  <2>4. StoreAccess'
    BY <2>2
  <2>. QED
    BY <2>3, <2>4
<1>. QED
  BY <1>3, <1>4, <1>5, <1>6 DEF Moves

\* Every step keeps the types.
LEMMA NextType == TypeInv /\ [Next]_vars => TypeInv'
<1> SUFFICES ASSUME TypeInv, [Next]_vars PROVE TypeInv'
  OBVIOUS
<1>1. ASSUME NEW c \in Calls, Moves(c) PROVE TypeInv'
  BY <1>1, CallType
<1>2. CASE Recover
  BY <1>2 DEF Recover, TypeInv, TypeOK, StoreAccess, Keyed, call, ledger
<1>3. CASE Crash
  BY <1>3 DEF Crash, TypeInv, TypeOK, StoreAccess, Keyed, Active, Terminal
<1>4. CASE UNCHANGED vars
  BY <1>4 DEF vars, call, ledger, breaker, TypeInv, TypeOK, StoreAccess, Keyed
<1>. QED
  BY <1>1, <1>2, <1>3, <1>4 DEF Next, Moves

\* What a put does: the record is written, or on its way to the ledger.
LEMMA PutDoes ==
  ASSUME TypeInv, NEW c \in Calls, Keyed(c), NEW kind \in {"ok", "permanent"}, Put(c, kind)
  PROVE  /\ \A d \in Calls \ {c} : puts'[d] = puts[d]
         /\ puts'[c] \subseteq puts[c] \cup {kind}
         /\ \A k \in Keys : store'[k] # store[k] => k = KeyOf[c] /\ store'[k] = kind
         /\ kind \in puts'[c] \/ store'[KeyOf[c]] = kind
<1>1. KeyOf[c] \in Keys
  BY CallAssumption DEF Keyed
<1> USE <1>1 DEF TypeInv, TypeOK
<1>2. CASE Durable
  BY <1>2 DEF Put
<1>3. CASE ~Durable
  BY <1>3 DEF Put
<1>. QED
  BY <1>2, <1>3

\* An attempt that fails, or whose success is not recorded.
AttemptFails(c) ==
  HandlerTimesOut(c) \/ HandlerIsTransient(c) \/ HandlerIsPermanent(c) \/ RecordFails(c)

\* It is followed by another, or by the outcome, which is put when it is permanent.
LEMMA AfterFailure ==
  ASSUME NEW c \in Calls, AttemptFails(c)
  PROVE  /\ UNCHANGED <<cached, attempts, effect, hit, commits, crashes>>
         /\ pc[c] \in {"handler", "record"}
         /\ \/ /\ pc[c] = "handler" /\ attempts[c] < MaxAttempts
               /\ Goto(c, "sleep") /\ UNCHANGED <<result, audit, ledger>>
            \/ \E kind \in {"timeout", "transient", "permanent"} :
                  /\ kind = "permanent" => ~Keyed(c)
                  /\ pc[c] = "record" => kind = "permanent"
                  /\ Goto(c, "done") /\ Audit(c, kind) /\ UNCHANGED ledger
            \/ /\ Keyed(c) /\ Put(c, "permanent")
               /\ Goto(c, "recordFailure") /\ Audit(c, "permanent")
BY DEF AttemptFails, HandlerTimesOut, HandlerIsTransient, HandlerIsPermanent, RecordFails,
       Retry, GiveUp, Recordable

\* The types, and who may access the store, at every instant.
LEMMA TypeAlways == Spec => []TypeInv
BY InitType, NextType, PTL DEF Spec

(***************************************************************************)
(* Every variable keeps its type: in particular the store only ever holds  *)
(* successes and permanent failures.                                       *)
(***************************************************************************)
THEOREM TypeCorrect == Spec => []TypeOK
BY TypeAlways, PTL DEF TypeInv

(***************************************************************************)
(* The breaker.  No step touches one of its fields without the other being *)
(* what it should: Recover leaves it open, and a failure opens it at the   *)
(* threshold and not before.                                               *)
(***************************************************************************)

\* What a step may do to the breaker.
BreakerStep ==
  \/ UNCHANGED <<failures, opened>>
  \/ failures' = 0 /\ opened' = "none"
  \/ BreakerFailure
  \/ opened = "recent" /\ opened' = "elapsed" /\ UNCHANGED failures

\* Every step is one of these for the breaker.
LEMMA NextBreaker == [Next]_vars => BreakerStep
<1> USE DEF breaker, BreakerStep
<1>1. ASSUME NEW c \in Calls, Start(c) PROVE BreakerStep
  BY <1>1 DEF Start, Reject, StartKeyed, StartUnkeyed, Admit
<1>2. ASSUME NEW c \in Calls, Proceed(c) PROVE BreakerStep
  BY <1>2 DEF Proceed, LookupMiss, LookupHit, LookupFails, Admit, HandlerEffect,
              HandlerReturns, BreakerSuccess, HandlerTimesOut, HandlerIsTransient,
              HandlerIsPermanent, Wake, Record, RecordFails, RecordFailure,
              RecordFailureFails, Lookup
<1>3. ASSUME NEW c \in Calls, ZombieEffect(c) PROVE BreakerStep
  BY <1>3 DEF ZombieEffect
<1>4. ASSUME NEW c \in Calls, Apply(c) PROVE BreakerStep
  BY <1>4 DEF Apply
<1>. QED
  BY <1>1, <1>2, <1>3, <1>4 DEF Next, Recover, Crash, vars

(***************************************************************************)
(* The two fields of the breaker agree in every state of every execution.  *)
(***************************************************************************)
THEOREM BreakerIsConsistent == Spec => []BreakerAgrees
<1>1. Init => BreakerAgrees
  BY PolicyAssumption DEF Init, BreakerAgrees
<1>2. TypeInv /\ BreakerAgrees /\ [Next]_vars => BreakerAgrees'
  <2> SUFFICES ASSUME TypeInv, BreakerAgrees, BreakerStep PROVE BreakerAgrees'
    BY NextBreaker
  <2>. failures \in Nat /\ opened \in {"none", "recent", "elapsed"} /\ Threshold \in Nat \ {0}
    BY PolicyAssumption DEF TypeInv, TypeOK
  <2>. QED
    BY DEF BreakerAgrees, BreakerStep, BreakerFailure
<1>. QED
  BY <1>1, <1>2, TypeAlways, PTL DEF Spec

(***************************************************************************)
(* Effects and records.  A success is reported or recorded only after an   *)
(* effect under its key, because a handler returns after its effect, an    *)
(* effect is never taken back, and only the call that saw its handler      *)
(* return puts a success, which is then applied and read.                  *)
(***************************************************************************)
Effected(k) == commits[k] > 0

EffectInv ==
  /\ \A c \in Calls : effect[c] => Effected(KeyOf[c])
  /\ \A c \in Calls : pc[c] = "record" => effect[c]
  /\ \A c \in Calls : "ok" \in puts[c] \/ cached[c] = "ok" => Effected(KeyOf[c])
  /\ \A k \in Keys : store[k] = "ok" => Effected(k)

ReportInv ==
  /\ \A c \in Calls : result[c] = "ok" => Effected(KeyOf[c])
  /\ \A c \in Calls : hit[c] => pc[c] = "done" /\ result[c] \in {"ok", "permanent"}

\* Nothing has happened yet.
LEMMA InitEffect == Init => EffectInv /\ ReportInv
BY CallAssumption DEF Init, EffectInv, ReportInv

\* A step of a call keeps what is known of effects and records.
LEMMA CallEffect ==
  ASSUME TypeInv, EffectInv, NEW c \in Calls,
         Moves(c)
  PROVE  EffectInv'
<1> USE CallAssumption DEF TypeInv, TypeOK, StoreAccess, EffectInv, Effected,
                           Goto, Audit, Keyed, call, ledger
<1>1. CASE Start(c)
  <2>1. CASE Reject(c)
    BY <2>1 DEF Reject
  <2>2. CASE StartKeyed(c)
    BY <2>2 DEF StartKeyed
  <2>3. CASE StartUnkeyed(c)
    BY <2>3 DEF StartUnkeyed, Admit
  <2>. QED
    BY <1>1, <2>1, <2>2, <2>3 DEF Start
<1>2. CASE Proceed(c)
  <2>1. CASE LookupMiss(c)
    BY <2>1 DEF LookupMiss, Admit
  <2>2. CASE LookupHit(c)
    BY <2>2 DEF LookupHit
  <2>3. CASE LookupFails(c)
    BY <2>3 DEF LookupFails
  <2>4. CASE HandlerEffect(c)
    BY <2>4 DEF HandlerEffect
  <2>5. CASE HandlerReturns(c)
    <3>1. CASE Keyed(c) /\ Put(c, "ok") /\ Goto(c, "record") /\ UNCHANGED <<result, audit>>
      <4>1. /\ \A d \in Calls \ {c} : puts'[d] = puts[d]
            /\ puts'[c] \subseteq puts[c] \cup {"ok"}
            /\ \A k \in Keys : store'[k] # store[k] => k = KeyOf[c] /\ store'[k] = "ok"
            /\ "ok" \in puts'[c] \/ store'[KeyOf[c]] = "ok"
        BY <3>1, PutDoes
      <4>. QED
        BY <2>5, <3>1, <4>1 DEF HandlerReturns
    <3>2. CASE ~Keyed(c) /\ Audit(c, "ok") /\ Goto(c, "done") /\ UNCHANGED ledger
      BY <2>5, <3>2 DEF HandlerReturns
    <3>. QED
      BY <2>5, <3>1, <3>2 DEF HandlerReturns
  <2>6. CASE AttemptFails(c)
    <3>0. UNCHANGED <<cached, attempts, effect, hit, commits>> /\ pc[c] \in {"handler", "record"}
      BY <2>6, AfterFailure
    <3>1. ASSUME Goto(c, "sleep"), UNCHANGED <<result, audit, ledger>>,
                 pc[c] = "handler", attempts[c] < MaxAttempts
          PROVE  EffectInv'
      BY <3>0, <3>1
    <3>2. ASSUME NEW kind \in {"timeout", "transient", "permanent"},
                 kind = "permanent" => ~Keyed(c), Goto(c, "done"), Audit(c, kind),
                 UNCHANGED ledger
          PROVE  EffectInv'
      BY <3>0, <3>2
    <3>3. CASE Keyed(c) /\ Put(c, "permanent") /\ Goto(c, "recordFailure") /\ Audit(c, "permanent")
      <4>1. /\ \A d \in Calls \ {c} : puts'[d] = puts[d]
            /\ puts'[c] \subseteq puts[c] \cup {"permanent"}
            /\ \A k \in Keys : store'[k] # store[k] => k = KeyOf[c] /\ store'[k] = "permanent"
            /\ "permanent" \in puts'[c] \/ store'[KeyOf[c]] = "permanent"
        BY <3>3, PutDoes
      <4>. QED
        BY <3>0, <3>3, <4>1
    <3>. QED
      BY <2>6, <3>1, <3>2, <3>3, AfterFailure
  <2>9. CASE Wake(c)
    BY <2>9 DEF Wake
  <2>10. CASE Record(c)
    BY <2>10 DEF Record
  <2>12. CASE RecordFailure(c)
    BY <2>12 DEF RecordFailure
  <2>13. CASE RecordFailureFails(c)
    BY <2>13 DEF RecordFailureFails
  <2>14. CASE Lookup(c)
    BY <2>14 DEF Lookup
  <2>. QED
    BY <1>2, <2>1, <2>2, <2>3, <2>4, <2>5, <2>6, <2>9, <2>10, <2>12,
       <2>13, <2>14 DEF Proceed, AttemptFails
<1>3. CASE ZombieEffect(c)
  BY <1>3 DEF ZombieEffect
<1>4. CASE Apply(c)
  <2>1. PICK kind \in puts[c] : /\ store' = [store EXCEPT ![KeyOf[c]] = kind]
                                /\ puts' = [puts EXCEPT ![c] = @ \ {kind}]
                                /\ UNCHANGED <<call, commits, breaker, crashes>>
    BY <1>4 DEF Apply
  <2>. QED
    BY <2>1
<1>. QED
  BY <1>1, <1>2, <1>3, <1>4 DEF Moves

\* A step of a call keeps what is known of the results that are reported.
LEMMA CallReport ==
  ASSUME TypeInv, EffectInv, ReportInv, NEW c \in Calls,
         Moves(c)
  PROVE  ReportInv'
<1> USE CallAssumption DEF TypeInv, TypeOK, StoreAccess, EffectInv, ReportInv,
                           Effected, Goto, Audit, Keyed, call, ledger
<1>1. CASE Start(c)
  <2>1. CASE Reject(c)
    BY <2>1 DEF Reject
  <2>2. CASE StartKeyed(c)
    BY <2>2 DEF StartKeyed
  <2>3. CASE StartUnkeyed(c)
    <3>1. CASE Allow
      BY <2>3, <3>1 DEF StartUnkeyed, Admit
    <3>2. CASE ~Allow
      <4>1. /\ pc[c] = "idle" /\ Goto(c, "done") /\ Audit(c, "circuit_open")
            /\ UNCHANGED <<hit, commits>>
        BY <2>3, <3>2 DEF StartUnkeyed, Admit
      <4>. QED
        BY <4>1
    <3>. QED
      BY <3>1, <3>2
  <2>. QED
    BY <1>1, <2>1, <2>2, <2>3 DEF Start
<1>2. CASE Proceed(c)
  <2>1. CASE LookupMiss(c)
    <3>1. CASE Allow
      BY <2>1, <3>1 DEF LookupMiss, Admit
    <3>2. CASE ~Allow
      BY <2>1, <3>2 DEF LookupMiss, Admit
    <3>. QED
      BY <3>1, <3>2
  <2>2. CASE LookupHit(c)
    BY <2>2 DEF LookupHit
  <2>3. CASE LookupFails(c)
    BY <2>3 DEF LookupFails
  <2>4. CASE HandlerEffect(c)
    BY <2>4 DEF HandlerEffect
  <2>5. CASE HandlerReturns(c)
    <3>1. CASE Keyed(c) /\ Put(c, "ok") /\ Goto(c, "record") /\ UNCHANGED <<result, audit>>
      <4>1. /\ \A d \in Calls \ {c} : puts'[d] = puts[d]
            /\ puts'[c] \subseteq puts[c] \cup {"ok"}
            /\ \A k \in Keys : store'[k] # store[k] => k = KeyOf[c] /\ store'[k] = "ok"
            /\ "ok" \in puts'[c] \/ store'[KeyOf[c]] = "ok"
        BY <3>1, PutDoes
      <4>. QED
        BY <2>5, <3>1, <4>1 DEF HandlerReturns
    <3>2. CASE ~Keyed(c) /\ Audit(c, "ok") /\ Goto(c, "done") /\ UNCHANGED ledger
      BY <2>5, <3>2 DEF HandlerReturns
    <3>. QED
      BY <2>5, <3>1, <3>2 DEF HandlerReturns
  <2>6. CASE AttemptFails(c)
    <3>0. UNCHANGED <<cached, attempts, effect, hit, commits>> /\ pc[c] \in {"handler", "record"}
      BY <2>6, AfterFailure
    <3>1. ASSUME Goto(c, "sleep"), UNCHANGED <<result, audit, ledger>>,
                 pc[c] = "handler", attempts[c] < MaxAttempts
          PROVE  ReportInv'
      BY <3>0, <3>1
    <3>2. ASSUME NEW kind \in {"timeout", "transient", "permanent"},
                 kind = "permanent" => ~Keyed(c), Goto(c, "done"), Audit(c, kind),
                 UNCHANGED ledger
          PROVE  ReportInv'
      BY <3>0, <3>2
    <3>3. CASE Keyed(c) /\ Put(c, "permanent") /\ Goto(c, "recordFailure") /\ Audit(c, "permanent")
      <4>1. /\ \A d \in Calls \ {c} : puts'[d] = puts[d]
            /\ puts'[c] \subseteq puts[c] \cup {"permanent"}
            /\ \A k \in Keys : store'[k] # store[k] => k = KeyOf[c] /\ store'[k] = "permanent"
            /\ "permanent" \in puts'[c] \/ store'[KeyOf[c]] = "permanent"
        BY <3>3, PutDoes
      <4>. QED
        BY <3>0, <3>3, <4>1
    <3>. QED
      BY <2>6, <3>1, <3>2, <3>3, AfterFailure
  <2>9. CASE Wake(c)
    BY <2>9 DEF Wake
  <2>10. CASE Record(c)
    BY <2>10 DEF Record
  <2>12. CASE RecordFailure(c)
    BY <2>12 DEF RecordFailure
  <2>13. CASE RecordFailureFails(c)
    BY <2>13 DEF RecordFailureFails
  <2>14. CASE Lookup(c)
    BY <2>14 DEF Lookup
  <2>. QED
    BY <1>2, <2>1, <2>2, <2>3, <2>4, <2>5, <2>6, <2>9, <2>10, <2>12,
       <2>13, <2>14 DEF Proceed, AttemptFails
<1>3. CASE ZombieEffect(c)
  BY <1>3 DEF ZombieEffect
<1>4. CASE Apply(c)
  <2>1. PICK kind \in puts[c] : /\ store' = [store EXCEPT ![KeyOf[c]] = kind]
                                /\ puts' = [puts EXCEPT ![c] = @ \ {kind}]
                                /\ UNCHANGED <<call, commits, breaker, crashes>>
    BY <1>4 DEF Apply
  <2>. QED
    BY <2>1
<1>. QED
  BY <1>1, <1>2, <1>3, <1>4 DEF Moves

\* Every step keeps both parts.
LEMMA NextEffect ==
  TypeInv /\ EffectInv /\ ReportInv /\ [Next]_vars => EffectInv' /\ ReportInv'
<1> SUFFICES ASSUME TypeInv, EffectInv, ReportInv, [Next]_vars
             PROVE  EffectInv' /\ ReportInv'
  OBVIOUS
<1>1. ASSUME NEW c \in Calls, Moves(c)
      PROVE  EffectInv' /\ ReportInv'
  BY <1>1, CallEffect, CallReport
<1>2. CASE Recover
  BY <1>2 DEF Recover, call, ledger, EffectInv, ReportInv, Effected
<1>3. CASE Crash
  BY <1>3 DEF Crash, EffectInv, ReportInv, Effected, Active
<1>4. CASE UNCHANGED vars
  BY <1>4 DEF vars, call, ledger, EffectInv, ReportInv, Effected
<1>. QED
  BY <1>1, <1>2, <1>3, <1>4 DEF Next, Moves

(***************************************************************************)
(* A replay reports only successes and permanent failures, and a success   *)
(* is reported only after an effect under its key, in every execution.     *)
(***************************************************************************)
THEOREM ReplaysAreSound == Spec => []ReplaySound
<1>1. EffectInv /\ ReportInv => ReplaySound
  BY DEF ReportInv, ReplaySound, Effected
<1>. QED
  BY <1>1, InitEffect, NextEffect, TypeAlways, PTL DEF Spec

(***************************************************************************)
(* Progress of a call.  It is told nothing before its attempts are over,   *)
(* and its attempts are counted up to max_attempts: the loop sleeps only   *)
(* when there is another one to make.                                      *)
(***************************************************************************)
ProgressInv ==
  \A c \in Calls :
    /\ pc[c] \in {"idle", "lookup", "cached", "handler", "sleep", "record"} => result[c] = "none"
    /\ pc[c] \in {"handler", "sleep"} => attempts[c] \in 1 .. MaxAttempts
    /\ pc[c] = "sleep" => attempts[c] < MaxAttempts

\* A step of a call keeps the property.
LEMMA CallProgress ==
  ASSUME TypeInv, ProgressInv, NEW c \in Calls,
         Moves(c)
  PROVE  ProgressInv'
<1> USE PolicyAssumption DEF TypeInv, TypeOK, ProgressInv, Goto, Audit
<1>1. CASE Start(c)
  <2>1. CASE Reject(c)
    BY <2>1 DEF Reject
  <2>2. CASE StartKeyed(c)
    BY <2>2 DEF StartKeyed
  <2>3. CASE StartUnkeyed(c)
    <3>1. CASE Allow
      BY <2>3, <3>1 DEF StartUnkeyed, Admit
    <3>2. CASE ~Allow
      BY <2>3, <3>2 DEF StartUnkeyed, Admit
    <3>. QED
      BY <3>1, <3>2
  <2>. QED
    BY <1>1, <2>1, <2>2, <2>3 DEF Start
<1>2. CASE Proceed(c)
  <2>1. CASE LookupMiss(c)
    <3>1. CASE Allow
      BY <2>1, <3>1 DEF LookupMiss, Admit
    <3>2. CASE ~Allow
      BY <2>1, <3>2 DEF LookupMiss, Admit
    <3>. QED
      BY <3>1, <3>2
  <2>2. CASE LookupHit(c)
    BY <2>2 DEF LookupHit
  <2>3. CASE LookupFails(c)
    BY <2>3 DEF LookupFails
  <2>4. CASE HandlerEffect(c)
    BY <2>4 DEF HandlerEffect
  <2>5. CASE HandlerReturns(c)
    <3>1. CASE Keyed(c) /\ Put(c, "ok") /\ Goto(c, "record") /\ UNCHANGED <<result, audit>>
      <4>1. /\ \A d \in Calls \ {c} : puts'[d] = puts[d]
            /\ puts'[c] \subseteq puts[c] \cup {"ok"}
            /\ \A k \in Keys : store'[k] # store[k] => k = KeyOf[c] /\ store'[k] = "ok"
            /\ "ok" \in puts'[c] \/ store'[KeyOf[c]] = "ok"
        BY <3>1, PutDoes
      <4>. QED
        BY <2>5, <3>1, <4>1 DEF HandlerReturns
    <3>2. CASE ~Keyed(c) /\ Audit(c, "ok") /\ Goto(c, "done") /\ UNCHANGED ledger
      BY <2>5, <3>2 DEF HandlerReturns
    <3>. QED
      BY <2>5, <3>1, <3>2 DEF HandlerReturns
  <2>6. CASE AttemptFails(c)
    <3>0. UNCHANGED <<cached, attempts, effect, hit, commits>> /\ pc[c] \in {"handler", "record"}
      BY <2>6, AfterFailure
    <3>1. ASSUME Goto(c, "sleep"), UNCHANGED <<result, audit, ledger>>,
                 pc[c] = "handler", attempts[c] < MaxAttempts
          PROVE  ProgressInv'
      BY <3>0, <3>1
    <3>2. ASSUME NEW kind \in {"timeout", "transient", "permanent"},
                 kind = "permanent" => ~Keyed(c), Goto(c, "done"), Audit(c, kind),
                 UNCHANGED ledger
          PROVE  ProgressInv'
      BY <3>0, <3>2
    <3>3. CASE Keyed(c) /\ Put(c, "permanent") /\ Goto(c, "recordFailure") /\ Audit(c, "permanent")
      <4>1. /\ \A d \in Calls \ {c} : puts'[d] = puts[d]
            /\ puts'[c] \subseteq puts[c] \cup {"permanent"}
            /\ \A k \in Keys : store'[k] # store[k] => k = KeyOf[c] /\ store'[k] = "permanent"
            /\ "permanent" \in puts'[c] \/ store'[KeyOf[c]] = "permanent"
        BY <3>3, PutDoes
      <4>. QED
        BY <3>0, <3>3, <4>1
    <3>. QED
      BY <2>6, <3>1, <3>2, <3>3, AfterFailure
  <2>9. CASE Wake(c)
    BY <2>9 DEF Wake
  <2>10. CASE Record(c)
    BY <2>10 DEF Record
  <2>12. CASE RecordFailure(c)
    BY <2>12 DEF RecordFailure
  <2>13. CASE RecordFailureFails(c)
    BY <2>13 DEF RecordFailureFails
  <2>14. CASE Lookup(c)
    BY <2>14 DEF Lookup
  <2>. QED
    BY <1>2, <2>1, <2>2, <2>3, <2>4, <2>5, <2>6, <2>9, <2>10, <2>12,
       <2>13, <2>14 DEF Proceed, AttemptFails
<1>3. CASE ZombieEffect(c)
  BY <1>3 DEF ZombieEffect
<1>4. CASE Apply(c)
  <2>1. PICK kind \in puts[c] : /\ store' = [store EXCEPT ![KeyOf[c]] = kind]
                                /\ puts' = [puts EXCEPT ![c] = @ \ {kind}]
                                /\ UNCHANGED <<call, commits, breaker, crashes>>
    BY <1>4 DEF Apply
  <2>. QED
    BY <2>1 DEF call
<1>. QED
  BY <1>1, <1>2, <1>3, <1>4 DEF Moves

\* The property holds in every state.
LEMMA ProgressAlways == Spec => []ProgressInv
<1>1. Init => ProgressInv
  BY DEF Init, ProgressInv
<1>2. TypeInv /\ ProgressInv /\ [Next]_vars => ProgressInv'
  <2> SUFFICES ASSUME TypeInv, ProgressInv, [Next]_vars PROVE ProgressInv'
    OBVIOUS
  <2>1. ASSUME NEW c \in Calls, Moves(c)
        PROVE  ProgressInv'
    BY <2>1, CallProgress
  <2>2. CASE Recover
    BY <2>2 DEF Recover, call, ledger, ProgressInv
  <2>3. CASE Crash
    BY <2>3 DEF Crash, ProgressInv, Active
  <2>4. CASE UNCHANGED vars
    BY <2>4 DEF vars, call, ledger, ProgressInv
  <2>. QED
    BY <2>1, <2>2, <2>3, <2>4 DEF Next, Moves
<1>. QED
  BY <1>1, <1>2, TypeAlways, PTL DEF Spec

(***************************************************************************)
(* The ledger.  A call whose put has been applied finds a record, though   *)
(* perhaps another call's; with the durable store so does one that has     *)
(* read a record, or has returned a success or a permanent failure.  No    *)
(* step but the loss of the in-memory store removes a record.              *)
(***************************************************************************)
Recorded(c) == store[KeyOf[c]] # "none"

LedgerInv ==
  /\ \A c \in Calls : pc[c] = "record" /\ "ok" \notin puts[c] => Recorded(c)
  /\ \A c \in Calls :
       pc[c] = "recordFailure" /\ "permanent" \notin puts[c] => Recorded(c)
  /\ Durable =>
       \A c \in Calls :
         Keyed(c) => /\ cached[c] # "none" => Recorded(c)
                     /\ result[c] = "ok" => Recorded(c)
                     /\ pc[c] = "done" /\ result[c] = "permanent" => Recorded(c)

\* A step of a call keeps the property.
LEMMA CallLedger ==
  ASSUME TypeInv, ProgressInv, LedgerInv, NEW c \in Calls,
         Moves(c)
  PROVE  LedgerInv'
<1> USE CallAssumption DEF TypeInv, TypeOK, StoreAccess, ProgressInv,
                           LedgerInv, Recorded, Goto, Audit, Keyed, call, ledger
<1>1. CASE Start(c)
  <2>1. CASE Reject(c)
    BY <2>1 DEF Reject
  <2>2. CASE StartKeyed(c)
    BY <2>2 DEF StartKeyed
  <2>3. CASE StartUnkeyed(c)
    BY <2>3 DEF StartUnkeyed, Admit
  <2>. QED
    BY <1>1, <2>1, <2>2, <2>3 DEF Start
<1>2. CASE Proceed(c)
  <2>1. CASE LookupMiss(c)
    <3>1. CASE Allow
      BY <2>1, <3>1 DEF LookupMiss, Admit
    <3>2. CASE ~Allow
      BY <2>1, <3>2 DEF LookupMiss, Admit
    <3>. QED
      BY <3>1, <3>2
  <2>2. CASE LookupHit(c)
    BY <2>2 DEF LookupHit
  <2>3. CASE LookupFails(c)
    BY <2>3 DEF LookupFails
  <2>4. CASE HandlerEffect(c)
    BY <2>4 DEF HandlerEffect
  <2>5. CASE HandlerReturns(c)
    <3>1. CASE Keyed(c) /\ Put(c, "ok") /\ Goto(c, "record") /\ UNCHANGED <<result, audit>>
      <4>1. /\ \A d \in Calls \ {c} : puts'[d] = puts[d]
            /\ puts'[c] \subseteq puts[c] \cup {"ok"}
            /\ \A k \in Keys : store'[k] # store[k] => k = KeyOf[c] /\ store'[k] = "ok"
            /\ "ok" \in puts'[c] \/ store'[KeyOf[c]] = "ok"
        BY <3>1, PutDoes
      <4>. QED
        BY <2>5, <3>1, <4>1 DEF HandlerReturns
    <3>2. CASE ~Keyed(c) /\ Audit(c, "ok") /\ Goto(c, "done") /\ UNCHANGED ledger
      BY <2>5, <3>2 DEF HandlerReturns
    <3>. QED
      BY <2>5, <3>1, <3>2 DEF HandlerReturns
  <2>6. CASE AttemptFails(c)
    <3>0. UNCHANGED <<cached, attempts, effect, hit, commits>> /\ pc[c] \in {"handler", "record"}
      BY <2>6, AfterFailure
    <3>1. ASSUME Goto(c, "sleep"), UNCHANGED <<result, audit, ledger>>,
                 pc[c] = "handler", attempts[c] < MaxAttempts
          PROVE  LedgerInv'
      BY <3>0, <3>1
    <3>2. ASSUME NEW kind \in {"timeout", "transient", "permanent"},
                 kind = "permanent" => ~Keyed(c), Goto(c, "done"), Audit(c, kind),
                 UNCHANGED ledger
          PROVE  LedgerInv'
      BY <3>0, <3>2
    <3>3. CASE Keyed(c) /\ Put(c, "permanent") /\ Goto(c, "recordFailure") /\ Audit(c, "permanent")
      <4>1. /\ \A d \in Calls \ {c} : puts'[d] = puts[d]
            /\ puts'[c] \subseteq puts[c] \cup {"permanent"}
            /\ \A k \in Keys : store'[k] # store[k] => k = KeyOf[c] /\ store'[k] = "permanent"
            /\ "permanent" \in puts'[c] \/ store'[KeyOf[c]] = "permanent"
        BY <3>3, PutDoes
      <4>. QED
        BY <3>0, <3>3, <4>1
    <3>. QED
      BY <2>6, <3>1, <3>2, <3>3, AfterFailure
  <2>9. CASE Wake(c)
    BY <2>9 DEF Wake
  <2>10. CASE Record(c)
    BY <2>10 DEF Record
  <2>12. CASE RecordFailure(c)
    BY <2>12 DEF RecordFailure
  <2>13. CASE RecordFailureFails(c)
    BY <2>13 DEF RecordFailureFails
  <2>14. CASE Lookup(c)
    BY <2>14 DEF Lookup
  <2>. QED
    BY <1>2, <2>1, <2>2, <2>3, <2>4, <2>5, <2>6, <2>9, <2>10, <2>12,
       <2>13, <2>14 DEF Proceed, AttemptFails
<1>3. CASE ZombieEffect(c)
  BY <1>3 DEF ZombieEffect
<1>4. CASE Apply(c)
  <2>1. PICK kind \in puts[c] : /\ store' = [store EXCEPT ![KeyOf[c]] = kind]
                                /\ puts' = [puts EXCEPT ![c] = @ \ {kind}]
                                /\ UNCHANGED <<call, commits, breaker, crashes>>
    BY <1>4 DEF Apply
  <2>2. KeyOf[c] \in Keys /\ kind # "none"
    <3>1. kind \in {"ok", "permanent"} /\ puts[c] # {}
      OBVIOUS
    <3>2. KeyOf[c] # NoKey
      BY <3>1
    <3>. QED
      BY <3>1, <3>2
  <2>3. \A k \in Keys : store'[k] = IF k = KeyOf[c] THEN kind ELSE store[k]
    BY <2>1, <2>2
  <2>4. \A d \in Calls : Recorded(d) /\ Keyed(d) => Recorded(d)'
    BY <2>2, <2>3
  <2>5. puts'[c] = puts[c] \ {kind} /\ \A d \in Calls \ {c} : puts'[d] = puts[d]
    BY <2>1
  <2>6. Recorded(c)'
    BY <2>2, <2>3
  <2>. QED
    BY <2>1, <2>4, <2>5, <2>6
<1>. QED
  BY <1>1, <1>2, <1>3, <1>4 DEF Moves

\* The ledger is as described in every state.
LEMMA LedgerAlways == Spec => []LedgerInv
<1>1. Init => LedgerInv
  BY DEF Init, LedgerInv
<1>2. TypeInv /\ ProgressInv /\ LedgerInv /\ [Next]_vars => LedgerInv'
  <2> SUFFICES ASSUME TypeInv, ProgressInv, LedgerInv, [Next]_vars PROVE LedgerInv'
    OBVIOUS
  <2>1. ASSUME NEW c \in Calls, Moves(c) PROVE LedgerInv'
    BY <2>1, CallLedger
  <2>2. CASE Recover
    BY <2>2 DEF Recover, call, ledger, LedgerInv, Recorded, Keyed
  <2>3. CASE Crash
    BY <2>3 DEF Crash, LedgerInv, Recorded, Keyed, Active
  <2>4. CASE UNCHANGED vars
    BY <2>4 DEF vars, call, ledger, LedgerInv, Recorded, Keyed
  <2>. QED
    BY <2>1, <2>2, <2>3, <2>4 DEF Next, Moves
<1>. QED
  BY <1>1, <1>2, TypeAlways, ProgressAlways, PTL DEF Spec

(***************************************************************************)
(* A success reported under a key is in the durable ledger from then on,   *)
(* whether its put or that of another call was applied last.               *)
(***************************************************************************)
THEOREM SuccessesAreRecorded == Spec => []SuccessIsRecorded
<1>1. LedgerInv => SuccessIsRecorded
  BY DEF LedgerInv, Recorded, SuccessIsRecorded
<1>. QED
  BY <1>1, LedgerAlways, PTL

(***************************************************************************)
(* The audit trail.  Nothing is appended before the call has its result;   *)
(* what follows the audit, the record of a permanent failure, changes      *)
(* neither the event nor the result.                                       *)
(***************************************************************************)
AuditInv ==
  \A c \in Calls :
    /\ pc[c] \in {"idle", "lookup", "cached", "handler", "sleep", "record"} => audit[c] = <<>>
    /\ pc[c] \in {"recordFailure", "done"} => audit[c] = <<result[c]>>

\* The first event.
LEMMA FirstEvent == \A kind : Append(<<>>, kind) = <<kind>>
OBVIOUS

\* A step of a call keeps the property.
LEMMA CallAudit ==
  ASSUME TypeInv, AuditInv, NEW c \in Calls,
         Moves(c)
  PROVE  AuditInv'
<1> USE FirstEvent DEF TypeInv, TypeOK, AuditInv, Goto, Audit
<1>1. CASE Start(c)
  <2>1. CASE Reject(c)
    BY <2>1 DEF Reject
  <2>2. CASE StartKeyed(c)
    BY <2>2 DEF StartKeyed
  <2>3. CASE StartUnkeyed(c)
    <3>1. CASE Allow
      BY <2>3, <3>1 DEF StartUnkeyed, Admit
    <3>2. CASE ~Allow
      <4>1. pc[c] = "idle" /\ Goto(c, "done") /\ Audit(c, "circuit_open")
        BY <2>3, <3>2 DEF StartUnkeyed, Admit
      <4>. QED
        BY <4>1
    <3>. QED
      BY <3>1, <3>2
  <2>. QED
    BY <1>1, <2>1, <2>2, <2>3 DEF Start
<1>2. CASE Proceed(c)
  <2>1. CASE LookupMiss(c)
    BY <2>1 DEF LookupMiss, Admit
  <2>2. CASE LookupHit(c)
    BY <2>2 DEF LookupHit
  <2>3. CASE LookupFails(c)
    BY <2>3 DEF LookupFails
  <2>4. CASE HandlerEffect(c)
    BY <2>4 DEF HandlerEffect
  <2>5. CASE HandlerReturns(c)
    <3>1. CASE Keyed(c) /\ Put(c, "ok") /\ Goto(c, "record") /\ UNCHANGED <<result, audit>>
      <4>1. /\ \A d \in Calls \ {c} : puts'[d] = puts[d]
            /\ puts'[c] \subseteq puts[c] \cup {"ok"}
            /\ \A k \in Keys : store'[k] # store[k] => k = KeyOf[c] /\ store'[k] = "ok"
            /\ "ok" \in puts'[c] \/ store'[KeyOf[c]] = "ok"
        BY <3>1, PutDoes
      <4>. QED
        BY <2>5, <3>1, <4>1 DEF HandlerReturns
    <3>2. CASE ~Keyed(c) /\ Audit(c, "ok") /\ Goto(c, "done") /\ UNCHANGED ledger
      BY <2>5, <3>2 DEF HandlerReturns
    <3>. QED
      BY <2>5, <3>1, <3>2 DEF HandlerReturns
  <2>6. CASE AttemptFails(c)
    <3>0. UNCHANGED <<cached, attempts, effect, hit, commits>> /\ pc[c] \in {"handler", "record"}
      BY <2>6, AfterFailure
    <3>1. ASSUME Goto(c, "sleep"), UNCHANGED <<result, audit, ledger>>,
                 pc[c] = "handler", attempts[c] < MaxAttempts
          PROVE  AuditInv'
      BY <3>0, <3>1
    <3>2. ASSUME NEW kind \in {"timeout", "transient", "permanent"},
                 kind = "permanent" => ~Keyed(c), Goto(c, "done"), Audit(c, kind),
                 UNCHANGED ledger
          PROVE  AuditInv'
      BY <3>0, <3>2
    <3>3. CASE Keyed(c) /\ Put(c, "permanent") /\ Goto(c, "recordFailure") /\ Audit(c, "permanent")
      <4>1. /\ \A d \in Calls \ {c} : puts'[d] = puts[d]
            /\ puts'[c] \subseteq puts[c] \cup {"permanent"}
            /\ \A k \in Keys : store'[k] # store[k] => k = KeyOf[c] /\ store'[k] = "permanent"
            /\ "permanent" \in puts'[c] \/ store'[KeyOf[c]] = "permanent"
        BY <3>3, PutDoes
      <4>. QED
        BY <3>0, <3>3, <4>1
    <3>. QED
      BY <2>6, <3>1, <3>2, <3>3, AfterFailure
  <2>9. CASE Wake(c)
    BY <2>9 DEF Wake
  <2>10. CASE Record(c)
    BY <2>10 DEF Record
  <2>12. CASE RecordFailure(c)
    BY <2>12 DEF RecordFailure
  <2>13. CASE RecordFailureFails(c)
    BY <2>13 DEF RecordFailureFails
  <2>14. CASE Lookup(c)
    BY <2>14 DEF Lookup
  <2>. QED
    BY <1>2, <2>1, <2>2, <2>3, <2>4, <2>5, <2>6, <2>9, <2>10, <2>12,
       <2>13, <2>14 DEF Proceed, AttemptFails
<1>3. CASE ZombieEffect(c)
  BY <1>3 DEF ZombieEffect
<1>4. CASE Apply(c)
  <2>1. PICK kind \in puts[c] : /\ store' = [store EXCEPT ![KeyOf[c]] = kind]
                                /\ puts' = [puts EXCEPT ![c] = @ \ {kind}]
                                /\ UNCHANGED <<call, commits, breaker, crashes>>
    BY <1>4 DEF Apply
  <2>. QED
    BY <2>1 DEF call
<1>. QED
  BY <1>1, <1>2, <1>3, <1>4 DEF Moves

(***************************************************************************)
(* A call that has returned has exactly one audit event, which agrees with *)
(* its result.                                                             *)
(***************************************************************************)
THEOREM AuditIsFaithful == Spec => []AuditAgrees
<1>1. Init => AuditInv
  BY DEF Init, AuditInv
<1>2. TypeInv /\ AuditInv /\ [Next]_vars => AuditInv'
  <2> SUFFICES ASSUME TypeInv, AuditInv, [Next]_vars PROVE AuditInv'
    OBVIOUS
  <2>1. ASSUME NEW c \in Calls, Moves(c)
        PROVE  AuditInv'
    BY <2>1, CallAudit
  <2>2. CASE Recover
    BY <2>2 DEF Recover, call, ledger, AuditInv
  <2>3. CASE Crash
    BY <2>3 DEF Crash, AuditInv, Active
  <2>4. CASE UNCHANGED vars
    BY <2>4 DEF vars, call, ledger, AuditInv
  <2>. QED
    BY <2>1, <2>2, <2>3, <2>4 DEF Next, Moves
<1>3. AuditInv => AuditAgrees
  BY DEF AuditInv, AuditAgrees
<1>. QED
  BY <1>1, <1>2, <1>3, TypeAlways, PTL DEF Spec

(***************************************************************************)
(* The promise.  The step that settles the outcome of a call finds what it *)
(* reports: an effect (EffectInv) and, under a key, the record (LedgerInv) *)
(* that another step has written, its put or its application; no later     *)
(* step of any call changes what was settled.                              *)
(***************************************************************************)

\* A move of a call is a step of the promise.
LEMMA CallPromise ==
  ASSUME TypeInv, EffectInv, ProgressInv, LedgerInv, NEW c \in Calls, Moves(c)
  PROVE  Promise!Next \/ UNCHANGED Promise!invocation
<1> DEFINE acts == [k \in Keys \cup {KeyOf[d] : d \in Calls} |-> commits[k]]
<1>0. /\ KeyOf[c] \in Keys \cup {NoKey} /\ KeyOf[c] \in DOMAIN acts
      /\ Keyed(c) <=> KeyOf[c] \in Keys
      /\ commits \in [Keys \cup {NoKey} -> Nat]
      /\ {KeyOf[d] : d \in Calls} \subseteq Keys \cup {NoKey}
  BY CallAssumption DEF Keyed, TypeInv, TypeOK
<1>1. ASSUME UNCHANGED <<result, store, cached, commits>>
      PROVE  UNCHANGED Promise!invocation
  BY <1>1 DEF Promise!invocation
<1>2. ASSUME UNCHANGED <<result, store, cached>>,
             commits' = [commits EXCEPT ![KeyOf[c]] = @ + 1]
      PROVE  Promise!Next
  <2>1. acts' = [acts EXCEPT ![KeyOf[c]] = @ + 1]
    BY <1>0, <1>2
  <2>2. Promise!Act(c)
    BY <1>2, <2>1 DEF Promise!Act
  <2>. QED
    BY <2>2 DEF Promise!Next
<1>3. ASSUME NEW kind \in Outcome \ {"ok"}, Audit(c, kind), result[c] = "none",
             UNCHANGED <<store, cached, commits>>
      PROVE  Promise!Next
  <2>1. Promise!Fail(c)
    BY <1>3 DEF Promise!Fail, Promise!Settle, Audit
  <2>. QED
    BY <2>1 DEF Promise!Next
<1>4. ASSUME NEW kind \in {"timeout", "transient", "permanent"}, GiveUp(c, kind),
             result[c] = "none", UNCHANGED <<cached, commits>>
      PROVE  Promise!Next
  <2>1. CASE UNCHANGED store
    BY <1>3, <1>4, <2>1 DEF GiveUp, Outcome
  <2>2. CASE /\ Keyed(c) /\ kind = "permanent"
             /\ store' = [store EXCEPT ![KeyOf[c]] = kind]
    <3>1. Promise!FailForGood(c)
      BY <1>0, <1>4, <2>2 DEF GiveUp, Audit, Promise!FailForGood, Promise!Settle
    <3>. QED
      BY <3>1 DEF Promise!Next
  <2>. QED
    BY <1>4, <2>1, <2>2 DEF GiveUp, Recordable, Put, ledger
<1>5. ASSUME NEW kind \in {"timeout", "transient"}, Retry(c, kind), result[c] = "none",
             UNCHANGED <<cached, commits>>
      PROVE  Promise!Next \/ UNCHANGED Promise!invocation
  BY <1>1, <1>4, <1>5 DEF Retry, ledger
<1>6. ASSUME Admit(c), result[c] = "none"
      PROVE  Promise!Next \/ UNCHANGED Promise!invocation
  BY <1>1, <1>3, <1>6 DEF Admit, Outcome, ledger
<1>7. ASSUME Effected(KeyOf[c]) PROVE acts[KeyOf[c]] > 0
  BY <1>0, <1>7 DEF Effected
<1>8. ASSUME Keyed(c), Effected(KeyOf[c]), store' = [store EXCEPT ![KeyOf[c]] = "ok"],
             UNCHANGED <<result, cached, commits>>
      PROVE  Promise!Next
  <2>1. Promise!Note(c)
    BY <1>0, <1>7, <1>8 DEF Promise!Note
  <2>. QED
    BY <2>1 DEF Promise!Next
<1>9. ASSUME Effected(KeyOf[c]), Keyed(c) => Recorded(c), result[c] = "none",
             Audit(c, "ok"), UNCHANGED <<store, cached, commits>>
      PROVE  Promise!Next
  <2>1. Promise!Succeed(c)
    BY <1>0, <1>7, <1>9 DEF Audit, Recorded, Promise!Succeed, Promise!Settle
  <2>. QED
    BY <2>1 DEF Promise!Next
<1>10. CASE Start(c)
  <2>1. CASE Reject(c)
    BY <1>3, <2>1 DEF Reject, Outcome, ProgressInv, ledger
  <2>2. CASE StartKeyed(c)
    BY <1>1, <2>2 DEF StartKeyed, ledger
  <2>3. CASE StartUnkeyed(c)
    BY <1>6, <2>3 DEF StartUnkeyed, ProgressInv
  <2>. QED
    BY <1>10, <2>1, <2>2, <2>3 DEF Start
<1>11. CASE Proceed(c)
  <2>1. CASE LookupMiss(c)
    BY <1>6, <2>1 DEF LookupMiss, ProgressInv
  <2>2. CASE LookupHit(c)
    <3>1. Promise!Replay(c)
      BY <2>2 DEF LookupHit, ProgressInv, Audit, ledger, Promise!Replay, Promise!Settle
    <3>. QED
      BY <3>1 DEF Promise!Next
  <2>3. CASE LookupFails(c)
    BY <1>1, <2>3 DEF LookupFails, ledger
  <2>4. CASE HandlerEffect(c)
    BY <1>2, <2>4 DEF HandlerEffect, ledger
  <2>5. CASE HandlerReturns(c)
    <3>1. Effected(KeyOf[c]) /\ result[c] = "none"
      BY <2>5 DEF HandlerReturns, EffectInv, ProgressInv
    <3>2. CASE Keyed(c) /\ Put(c, "ok") /\ UNCHANGED result
      <4>1. CASE Durable
        BY <1>1, <2>5, <3>2, <4>1 DEF HandlerReturns, Put
      <4>2. CASE ~Durable
        BY <1>8, <2>5, <3>1, <3>2, <4>2 DEF HandlerReturns, Put
      <4>. QED
        BY <4>1, <4>2
    <3>3. CASE ~Keyed(c) /\ Audit(c, "ok") /\ UNCHANGED ledger
      BY <1>9, <2>5, <3>1, <3>3 DEF HandlerReturns, ledger
    <3>. QED
      BY <2>5, <3>2, <3>3 DEF HandlerReturns
  <2>6. CASE HandlerTimesOut(c)
    BY <1>5, <2>6 DEF HandlerTimesOut, ProgressInv
  <2>7. CASE HandlerIsTransient(c)
    BY <1>5, <2>7 DEF HandlerIsTransient, ProgressInv
  <2>8. CASE HandlerIsPermanent(c)
    BY <1>4, <2>8 DEF HandlerIsPermanent, ProgressInv
  <2>9. CASE Wake(c)
    BY <1>1, <2>9 DEF Wake, ledger
  <2>10. CASE Record(c)
    <3>1. Effected(KeyOf[c]) /\ Recorded(c) /\ result[c] = "none"
      BY <2>10 DEF Record, EffectInv, LedgerInv, ProgressInv
    <3>. QED
      BY <1>9, <2>10, <3>1 DEF Record, ledger
  <2>11. CASE RecordFails(c)
    BY <1>4, <2>11 DEF RecordFails, ProgressInv
  <2>12. CASE RecordFailure(c) \/ RecordFailureFails(c)
    BY <1>1, <2>12 DEF RecordFailure, RecordFailureFails, ledger
  <2>13. CASE Lookup(c)
    <3>1. Keyed(c) /\ result[c] = "none"
      BY <2>13 DEF Lookup, TypeInv, StoreAccess, ProgressInv
    <3>2. Promise!Look(c)
      BY <1>0, <2>13, <3>1 DEF Lookup, ledger, Promise!Look
    <3>. QED
      BY <3>2 DEF Promise!Next
  <2>. QED
    BY <1>11, <2>1, <2>2, <2>3, <2>4, <2>5, <2>6, <2>7, <2>8, <2>9, <2>10, <2>11, <2>12, <2>13 DEF Proceed
<1>12. CASE ZombieEffect(c)
  BY <1>2, <1>12 DEF ZombieEffect, ledger
<1>13. CASE Apply(c)
  <2>1. PICK kind \in puts[c] : /\ store' = [store EXCEPT ![KeyOf[c]] = kind]
                                /\ UNCHANGED <<call, commits>>
    BY <1>13 DEF Apply
  <2>2. kind \in {"ok", "permanent"} /\ Keyed(c)
    BY DEF TypeInv, TypeOK, StoreAccess
  <2>3. CASE kind = "ok"
    BY <1>8, <2>1, <2>2, <2>3 DEF EffectInv, call
  <2>4. CASE kind = "permanent"
    <3>1. result[c] = "permanent"
      BY <2>4 DEF TypeInv, StoreAccess
    <3>2. Promise!Freeze(c)
      BY <1>0, <2>1, <2>2, <2>4, <3>1 DEF Promise!Freeze, call
    <3>. QED
      BY <3>2 DEF Promise!Next
  <2>. QED
    BY <2>2, <2>3, <2>4
<1>. QED
  BY <1>10, <1>11, <1>12, <1>13 DEF Moves

\* Every step is a step of the promise or changes nothing of it.
LEMMA NextPromise ==
  TypeInv /\ EffectInv /\ ProgressInv /\ LedgerInv /\ [Next]_vars
    => [Promise!Next]_(Promise!invocation)
<1> SUFFICES ASSUME TypeInv, EffectInv, ProgressInv, LedgerInv, [Next]_vars
             PROVE  Promise!Next \/ UNCHANGED Promise!invocation
  OBVIOUS
<1>1. ASSUME NEW c \in Calls, Moves(c)
      PROVE  Promise!Next \/ UNCHANGED Promise!invocation
  BY <1>1, CallPromise
<1>2. CASE Recover
  BY <1>2 DEF Recover, call, ledger, Promise!invocation
<1>3. CASE Crash
  <2>1. CASE Durable
    BY <1>3, <2>1 DEF Crash, Promise!invocation
  <2>2. CASE ~Durable
    BY <1>3, <2>2 DEF Crash, Promise!Forget, Promise!Next
  <2>. QED
    BY <2>1, <2>2
<1>4. CASE UNCHANGED vars
  BY <1>4 DEF vars, call, ledger, Promise!invocation
<1>. QED
  BY <1>1, <1>2, <1>3, <1>4 DEF Next, Moves

(***************************************************************************)
(* Every behaviour of the runtime keeps the promise, for any number of     *)
(* calls, keys, attempts, abandoned threads and restarts, whenever puts    *)
(* are applied and whatever becomes of their answers: a call has one       *)
(* outcome and it is final, a success is reported after an effect and      *)
(* after a record, only a success that was due or a permanent failure that *)
(* was settled is recorded, and a lasting record is never forgotten.       *)
(***************************************************************************)
THEOREM PromiseIsKept == Spec => KeepsPromise
<1>1. Init => Promise!Init
  BY CallAssumption DEF Init, Promise!Init
<1>2. Spec => []EffectInv
  BY InitEffect, NextEffect, TypeAlways, PTL DEF Spec
<1>. QED
  BY <1>1, <1>2, NextPromise, TypeAlways, ProgressAlways, LedgerAlways, PTL
     DEF Spec, KeepsPromise, Promise!Spec

(***************************************************************************)
(* What has been returned is not done again.  A call that has not begun    *)
(* when another returns something final under its key is settled: it reads *)
(* a record, for no record is removed, and a returned call stays returned. *)
(***************************************************************************)
Settled(c) ==
  /\ Keyed(c) /\ Final(KeyOf[c])
  /\ pc[c] \in {"idle", "lookup", "cached"} \cup Terminal
  /\ pc[c] = "cached" => cached[c] # "none"

\* What is final stays so, and is in the durable ledger.
LEMMA FinalStays ==
  ASSUME TypeInv, ProgressInv, LedgerInv, [Next]_vars, NEW k \in Keys, Final(k)
  PROVE  Final(k)' /\ (Durable => store[k] # "none")
<1>1. PICK c \in Calls : KeyOf[c] = k /\ pc[c] = "done" /\ result[c] \in {"ok", "permanent"}
  BY DEF Final
<1>2. Durable => store[k] # "none"
  BY <1>1, CallAssumption DEF LedgerInv, Recorded, Keyed
<1>3. pc'[c] = "done" /\ result'[c] = result[c]
  <2> USE DEF TypeInv, TypeOK, Goto, Audit
  <2>1. ASSUME NEW d \in Calls, Moves(d) PROVE pc'[c] = "done" /\ result'[c] = result[c]
    <3>1. ASSUME NEW kind, GiveUp(d, kind), d # c PROVE pc'[c] = "done" /\ result'[c] = result[c]
      BY <1>1, <3>1 DEF GiveUp
    <3>2. ASSUME NEW kind, Retry(d, kind), d # c PROVE pc'[c] = "done" /\ result'[c] = result[c]
      BY <1>1, <3>1, <3>2 DEF Retry
    <3>3. CASE Start(d)
      BY <1>1, <3>3 DEF Start, Reject, StartKeyed, StartUnkeyed, Admit
    <3>4. CASE LookupMiss(d) \/ LookupHit(d) \/ LookupFails(d) \/ Lookup(d)
      BY <1>1, <3>4 DEF LookupMiss, LookupHit, LookupFails, Lookup, Admit
    <3>5. CASE HandlerEffect(d) \/ HandlerReturns(d)
      BY <1>1, <3>5 DEF HandlerEffect, HandlerReturns
    <3>6. CASE HandlerTimesOut(d) \/ HandlerIsTransient(d)
      BY <1>1, <3>2, <3>6 DEF HandlerTimesOut, HandlerIsTransient
    <3>7. CASE HandlerIsPermanent(d) \/ RecordFails(d)
      BY <1>1, <3>1, <3>7 DEF HandlerIsPermanent, RecordFails
    <3>8. CASE Wake(d) \/ Record(d) \/ RecordFailure(d) \/ RecordFailureFails(d)
      BY <1>1, <3>8 DEF Wake, Record, RecordFailure, RecordFailureFails
    <3>9. CASE ZombieEffect(d) \/ Apply(d)
      BY <1>1, <3>9 DEF ZombieEffect, Apply, call
    <3>. QED
      BY <2>1, <3>3, <3>4, <3>5, <3>6, <3>7, <3>8, <3>9 DEF Moves, Proceed
  <2>2. CASE Recover \/ Crash \/ UNCHANGED vars
    BY <1>1, <2>2 DEF Recover, Crash, vars, call, Active
  <2>. QED
    BY <2>1, <2>2 DEF Next, Moves
<1>. QED
  BY <1>1, <1>2, <1>3 DEF Final

\* A settled call stays settled.
LEMMA SettledStays ==
  ASSUME TypeInv, ProgressInv, LedgerInv, [Next]_vars, Durable,
         NEW c \in Calls, Settled(c)
  PROVE  Settled(c)'
<1>1. KeyOf[c] \in Keys
  BY CallAssumption DEF Settled, Keyed
<1>2. Final(KeyOf[c])' /\ Recorded(c)
  BY <1>1, FinalStays DEF Settled, Recorded
<1>3. /\ pc'[c] \in {"idle", "lookup", "cached"} \cup Terminal
      /\ pc'[c] = "cached" => cached'[c] # "none"
  <2> USE DEF TypeInv, TypeOK, Goto, Settled, Recorded, Terminal
  <2>1. ASSUME NEW d \in Calls, Moves(d), d # c
        PROVE  pc'[c] = pc[c] /\ cached'[c] = cached[c]
    <3>1. ASSUME NEW kind, GiveUp(d, kind) PROVE pc'[c] = pc[c]
      BY <2>1, <3>1 DEF GiveUp
    <3>2. ASSUME NEW kind, Retry(d, kind) PROVE pc'[c] = pc[c]
      BY <2>1, <3>1, <3>2 DEF Retry
    <3>3. CASE Start(d)
      BY <2>1, <3>3 DEF Start, Reject, StartKeyed, StartUnkeyed, Admit
    <3>4. CASE LookupMiss(d) \/ LookupHit(d) \/ LookupFails(d) \/ Lookup(d)
      BY <2>1, <3>4 DEF LookupMiss, LookupHit, LookupFails, Lookup, Admit
    <3>5. CASE HandlerEffect(d) \/ HandlerReturns(d)
      BY <2>1, <3>5 DEF HandlerEffect, HandlerReturns
    <3>6. CASE HandlerTimesOut(d) \/ HandlerIsTransient(d)
      BY <3>2, <3>6 DEF HandlerTimesOut, HandlerIsTransient
    <3>7. CASE HandlerIsPermanent(d) \/ RecordFails(d)
      BY <3>1, <3>7 DEF HandlerIsPermanent, RecordFails
    <3>8. CASE Wake(d) \/ Record(d) \/ RecordFailure(d) \/ RecordFailureFails(d)
      BY <2>1, <3>8 DEF Wake, Record, RecordFailure, RecordFailureFails
    <3>9. CASE ZombieEffect(d) \/ Apply(d)
      BY <3>9 DEF ZombieEffect, Apply, call
    <3>. QED
      BY <2>1, <3>3, <3>4, <3>5, <3>6, <3>7, <3>8, <3>9 DEF Moves, Proceed
  <2>2. CASE Start(c) \/ ZombieEffect(c) \/ Apply(c)
    BY <2>2 DEF Start, Reject, StartKeyed, StartUnkeyed, ZombieEffect, Apply, call
  <2>3. CASE Proceed(c)
    BY <1>2, <2>3 DEF Proceed, Lookup, LookupMiss, LookupHit, LookupFails, HandlerEffect,
                      HandlerReturns, HandlerTimesOut, HandlerIsTransient,
                      HandlerIsPermanent, Wake, Record, RecordFails, RecordFailure,
                      RecordFailureFails
  <2>4. CASE Recover \/ Crash \/ UNCHANGED vars
    BY <2>4 DEF Recover, Crash, vars, call, Active
  <2>. QED
    BY <2>1, <2>2, <2>3, <2>4 DEF Next, Moves
<1>. QED
  BY <1>2, <1>3 DEF Settled, Keyed

(***************************************************************************)
(* With the durable ledger a call that starts after a success or a         *)
(* permanent failure was returned under its key never runs the tool, for   *)
(* any number of calls and restarts and whatever becomes of the puts.      *)
(***************************************************************************)
THEOREM NothingFinalIsDoneAgain == Spec => FinalIsNotDoneAgain
<1> SUFFICES ASSUME Durable, NEW c \in Calls
             PROVE  Spec => [](Keyed(c) /\ pc[c] = "idle" /\ Final(KeyOf[c])
                                 => [](pc[c] # "handler"))
  BY DEF FinalIsNotDoneAgain
<1>1. Keyed(c) /\ pc[c] = "idle" /\ Final(KeyOf[c]) => Settled(c)
  BY DEF Settled
<1>2. TypeInv /\ ProgressInv /\ LedgerInv /\ [Next]_vars /\ Settled(c) => Settled(c)'
  BY SettledStays
<1>3. Settled(c) => pc[c] # "handler"
  BY DEF Settled, Terminal
<1>. QED
  BY <1>1, <1>2, <1>3, TypeAlways, ProgressAlways, LedgerAlways, PTL DEF Spec

(***************************************************************************)
(* Termination, as far as it is safety: a call has a bounded number of     *)
(* steps, three for each attempt, and nobody else can give it more.        *)
(***************************************************************************)

\* What is left of a call is within its bounds, whatever the call has done.
LEMMA CallLeftIsBounded ==
  TypeInv /\ ProgressInv =>
    \A c \in Calls : CallLeft(c) \in 0 .. 3 * MaxAttempts + 4
<1> SUFFICES ASSUME TypeInv, ProgressInv, NEW c \in Calls
             PROVE  CallLeft(c) \in 0 .. 3 * MaxAttempts + 4
  OBVIOUS
<1>1. pc[c] \in {"idle"} \cup Active \cup Terminal /\ MaxAttempts \in Nat
  BY PolicyAssumption DEF TypeInv, TypeOK
<1>2. pc[c] \in {"handler", "sleep"} => attempts[c] \in 1 .. MaxAttempts
  BY DEF ProgressInv
<1>. QED
  BY <1>1, <1>2 DEF CallLeft, Active, Terminal

\* A step of a call leaves it less.
LEMMA CallDecreases ==
  ASSUME TypeInv, ProgressInv, NEW c \in Calls, Start(c) \/ Proceed(c)
  PROVE  CallLeft(c)' < CallLeft(c)
<1>1. pc \in [Calls -> {"idle"} \cup Active \cup Terminal]
  BY DEF TypeInv, TypeOK
<1>2. attempts \in [Calls -> Nat] /\ effect \in [Calls -> BOOLEAN]
  BY DEF TypeInv, TypeOK
<1>3. /\ pc[c] \in {"handler", "sleep"} => attempts[c] \in 1 .. MaxAttempts
      /\ pc[c] = "sleep" => attempts[c] < MaxAttempts
  BY DEF ProgressInv
<1>4. MaxAttempts \in Nat \ {0}
  BY PolicyAssumption
<1> USE <1>1, <1>2, <1>3, <1>4 DEF CallLeft, Terminal, Goto
<1>5. ASSUME Admit(c), pc[c] \in {"idle", "cached"} PROVE CallLeft(c)' < CallLeft(c)
  <2>1. CASE Goto(c, "handler") /\ attempts' = [attempts EXCEPT ![c] = 1]
    <3>1. effect' = effect
      BY <1>5 DEF Admit
    <3>. QED
      BY <1>5, <2>1, <3>1
  <2>2. CASE Goto(c, "done")
    BY <1>5, <2>2
  <2>. QED
    BY <1>5, <2>1, <2>2 DEF Admit
<1>6. ASSUME NEW kind, GiveUp(c, kind), pc[c] \in {"handler", "record"}
      PROVE  CallLeft(c)' < CallLeft(c)
  <2>1. pc'[c] \in {"recordFailure", "done"}
    BY <1>6 DEF GiveUp
  <2>2. CallLeft(c)' \in {0, 1}
    BY <2>1
  <2>3. CallLeft(c) \in Nat /\ CallLeft(c) >= 2
    BY <1>6
  <2> HIDE DEF CallLeft
  <2>. QED
    BY <2>2, <2>3
<1>7. ASSUME NEW kind, Retry(c, kind), pc[c] = "handler", UNCHANGED <<attempts, effect>>
      PROVE  CallLeft(c)' < CallLeft(c)
  <2>1. CASE attempts[c] < MaxAttempts
    BY <1>7, <2>1 DEF Retry
  <2>2. CASE ~(attempts[c] < MaxAttempts)
    BY <1>6, <1>7, <2>2 DEF Retry
  <2>. QED
    BY <2>1, <2>2
<1>8. CASE Start(c)
  <2>1. CASE Reject(c)
    BY <2>1 DEF Reject
  <2>2. CASE StartKeyed(c)
    BY <2>2 DEF StartKeyed
  <2>3. CASE StartUnkeyed(c)
    BY <1>5, <2>3 DEF StartUnkeyed
  <2>. QED
    BY <1>8, <2>1, <2>2, <2>3 DEF Start
<1>9. CASE Proceed(c)
  <2>1. CASE LookupMiss(c)
    BY <1>5, <2>1 DEF LookupMiss
  <2>2. CASE Lookup(c) \/ LookupHit(c) \/ LookupFails(c)
    BY <2>2 DEF Lookup, LookupHit, LookupFails
  <2>3. CASE HandlerEffect(c)
    BY <2>3 DEF HandlerEffect
  <2>4. CASE HandlerReturns(c)
    BY <2>4 DEF HandlerReturns
  <2>5. CASE HandlerTimesOut(c)
    BY <1>7, <2>5 DEF HandlerTimesOut
  <2>6. CASE HandlerIsTransient(c)
    BY <1>7, <2>6 DEF HandlerIsTransient
  <2>7. CASE HandlerIsPermanent(c)
    BY <1>6, <2>7 DEF HandlerIsPermanent
  <2>8. CASE Wake(c)
    BY <2>8 DEF Wake
  <2>9. CASE RecordFails(c)
    BY <1>6, <2>9 DEF RecordFails
  <2>10. CASE Record(c) \/ RecordFailure(c) \/ RecordFailureFails(c)
    BY <2>10 DEF Record, RecordFailure, RecordFailureFails
  <2>. QED
    BY <1>9, <2>1, <2>2, <2>3, <2>4, <2>5, <2>6, <2>7, <2>8, <2>9, <2>10 DEF Proceed
<1>. QED
  BY <1>8, <1>9

\* It changes nothing of another call; an abandoned thread or a put nothing of its own.
LEMMA OthersKeepTheirs ==
  ASSUME TypeInv, NEW c \in Calls, Moves(c),
         NEW d \in Calls, d # c \/ ZombieEffect(c) \/ Apply(c)
  PROVE  CallLeft(d)' = CallLeft(d)
<1>1. pc'[d] = pc[d] /\ attempts'[d] = attempts[d] /\ effect'[d] = effect[d]
  <2> USE DEF TypeInv, TypeOK, Goto
  <2>1. ASSUME NEW kind, GiveUp(c, kind) PROVE d # c => pc'[d] = pc[d]
    BY <2>1 DEF GiveUp
  <2>2. ASSUME NEW kind, Retry(c, kind) PROVE d # c => pc'[d] = pc[d]
    BY <2>1, <2>2 DEF Retry
  <2>3. CASE ZombieEffect(c)
    BY <2>3 DEF ZombieEffect
  <2>6. CASE Apply(c)
    BY <2>6 DEF Apply, call
  <2>4. CASE d # c /\ Start(c)
    BY <2>4 DEF Start, Reject, StartKeyed, StartUnkeyed, Admit
  <2>5. CASE d # c /\ Proceed(c)
    <3>1. CASE Lookup(c) \/ LookupMiss(c) \/ LookupHit(c) \/ LookupFails(c)
      BY <2>5, <3>1 DEF Lookup, LookupMiss, LookupHit, LookupFails, Admit
    <3>2. CASE HandlerEffect(c) \/ HandlerReturns(c)
      BY <2>5, <3>2 DEF HandlerEffect, HandlerReturns
    <3>3. CASE HandlerTimesOut(c) \/ HandlerIsTransient(c)
      BY <2>2, <2>5, <3>3 DEF HandlerTimesOut, HandlerIsTransient
    <3>4. CASE HandlerIsPermanent(c) \/ RecordFails(c)
      BY <2>1, <2>5, <3>4 DEF HandlerIsPermanent, RecordFails
    <3>5. CASE Wake(c) \/ Record(c) \/ RecordFailure(c) \/ RecordFailureFails(c)
      BY <2>5, <3>5 DEF Wake, Record, RecordFailure, RecordFailureFails
    <3>. QED
      BY <2>5, <3>1, <3>2, <3>3, <3>4, <3>5 DEF Proceed
  <2>. QED
    BY <2>3, <2>4, <2>5, <2>6 DEF Moves
<1>. QED
  BY <1>1 DEF CallLeft

(***************************************************************************)
(* Every call takes at most 3 * MaxAttempts + 4 steps of its own, for any  *)
(* number of calls that share the breaker and the store and any restarts:  *)
(* no step of another raises what is left of it.                           *)
(***************************************************************************)
THEOREM CallsAreBounded == Spec => BoundedCalls
<1> DEFINE Bounded == \A c \in Calls : CallLeft(c) \in 0 .. 3 * MaxAttempts + 4
           Less == \A c \in Calls : /\ CallLeft(c)' <= CallLeft(c)
                                    /\ (Start(c) \/ Proceed(c)) => CallLeft(c)' < CallLeft(c)
<1>1. TypeInv /\ ProgressInv /\ Bounded /\ Bounded' /\ [Next]_vars => [Less]_vars
  <2> SUFFICES ASSUME TypeInv, ProgressInv, Bounded, Bounded', Next, NEW c \in Calls
               PROVE  /\ CallLeft(c)' <= CallLeft(c)
                      /\ (Start(c) \/ Proceed(c)) => CallLeft(c)' < CallLeft(c)
    OBVIOUS
  <2>1. CallLeft(c) \in Nat /\ CallLeft(c)' \in Nat
    <3>1. 3 * MaxAttempts + 4 \in Nat
      BY PolicyAssumption
    <3> HIDE DEF CallLeft
    <3>. QED
      BY <3>1
  <2>2. (Start(c) \/ Proceed(c)) => CallLeft(c)' < CallLeft(c)
    BY CallDecreases
  <2>3. ASSUME NEW d \in Calls, Moves(d)
        PROVE  CallLeft(c)' <= CallLeft(c)
    <3>1. CASE c # d \/ ZombieEffect(d) \/ Apply(d)
      BY <2>1, <2>3, <3>1, OthersKeepTheirs
    <3>2. CASE c = d /\ (Start(d) \/ Proceed(d))
      BY <2>1, <2>2, <3>2
    <3>. QED
      BY <2>3, <3>1, <3>2 DEF Moves
  <2>4. ASSUME Recover PROVE CallLeft(c)' <= CallLeft(c)
    <3>1. CallLeft(c)' = CallLeft(c)
      BY <2>4 DEF Recover, call, ledger, CallLeft
    <3>. QED
      BY <2>1, <3>1
  <2>5. ASSUME Crash PROVE CallLeft(c)' <= CallLeft(c)
    <3>1. CASE pc[c] \in Active
      <4>1. CallLeft(c)' = 0
        BY <2>5, <3>1 DEF Crash, CallLeft, Active, Terminal
      <4>. QED
        BY <2>1, <4>1
    <3>2. CASE pc[c] \notin Active
      <4>1. CallLeft(c)' = CallLeft(c)
        BY <2>5, <3>2 DEF Crash, CallLeft
      <4>. QED
        BY <2>1, <4>1
    <3>. QED
      BY <3>1, <3>2
  <2>. QED
    BY <2>2, <2>3, <2>4, <2>5 DEF Next, Moves
<1>2. TypeInv /\ ProgressInv => Bounded
  BY CallLeftIsBounded
<1>3. Spec => []Bounded /\ [][Less]_vars
  <2> HIDE DEF Bounded, Less
  <2>. QED
    BY <1>1, <1>2, TypeAlways, ProgressAlways, PTL DEF Spec
<1>. QED
  BY <1>3, PTL DEF BoundedCalls
=============================================================================
