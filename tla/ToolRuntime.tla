----------------------------- MODULE ToolRuntime -----------------------------
(***************************************************************************)
(* ToolRuntime.execute (src/runtime): calls of one registered tool on one  *)
(* event loop, the circuit breaker they share and the idempotency store    *)
(* (in memory, or the Redis execution ledger that outlives the process).   *)
(*                                                                         *)
(* A step is the code between two awaits.  Abstracted: arguments and       *)
(* permissions to "rejected or not", values to the fact that the handler   *)
(* has had its effect, the clock to whether the breaker's recovery timeout *)
(* has elapsed.  A record of the store is taken to outlive the run (its    *)
(* TTL is a day).                                                          *)
(*                                                                         *)
(* A put to the ledger is a request in flight: Redis applies it at some    *)
(* moment or never, its caller hears of it later or is given an exception, *)
(* and neither the exception nor a restart takes it back.  The store in    *)
(* memory is written by put itself, which gives way to no other call, so   *)
(* there the model allows more interleavings than the code has.            *)
(***************************************************************************)
EXTENDS Integers, Sequences

CONSTANTS
  Calls,          \* the calls of execute, before and after a restart
  Keys,           \* the idempotency keys
  NoKey,          \* a call without a key
  KeyOf,          \* KeyOf[c]: the key of call c
  MaxAttempts,    \* tool.retry.max_attempts
  Threshold,      \* breaker config.failure_threshold
  SideEffecting,  \* tool.side_effecting
  SyncHandler,    \* the handler runs in a thread that a timeout abandons
  Durable,        \* the store is the Redis ledger, which may raise and remembers
  MaxCrashes      \* bound: restarts of the process

ASSUME CallAssumption ==
  /\ NoKey \notin Keys
  /\ KeyOf \in [Calls -> Keys \cup {NoKey}]

ASSUME PolicyAssumption ==
  /\ MaxAttempts \in Nat \ {0}
  /\ Threshold \in Nat \ {0}

ASSUME SettingAssumption ==
  /\ SideEffecting \in BOOLEAN
  /\ SyncHandler \in BOOLEAN
  /\ Durable \in BOOLEAN
  /\ MaxCrashes \in Nat

VARIABLES
  pc,        \* where each call is
  cached,    \* what its lookup has read of the store
  attempts,  \* its attempts
  effect,    \* the handler of its current attempt has had its effect
  zombies,   \* its abandoned handler threads that have not had theirs
  result,    \* what the call returns: "ok" or the error kind
  hit,       \* result.idempotency_hit
  audit,     \* the audit events appended for the call: "ok" or the error kind
  store,     \* idempotency_store: what is recorded under each key
  puts,      \* what each call has put to the ledger and is not applied yet
  commits,   \* effects of the handler under each key
  failures,  \* breaker.failures
  opened,    \* breaker.opened_at: None, or its timeout has elapsed or not
  crashes

call    == <<pc, cached, attempts, effect, zombies, result, hit, audit>>
breaker == <<failures, opened>>
ledger  == <<store, puts>>
vars    == <<call, ledger, commits, breaker, crashes>>

Terminal == {"done", "raised", "lost"}
Active   == {"lookup", "cached", "handler", "sleep", "record", "recordFailure"}
Outcome  == {"ok", "rejected", "circuit_open", "timeout", "transient", "permanent"}

Keyed(c) == KeyOf[c] # NoKey

Init ==
  /\ pc = [c \in Calls |-> "idle"]
  /\ cached = [c \in Calls |-> "none"]
  /\ attempts = [c \in Calls |-> 0]
  /\ effect = [c \in Calls |-> FALSE]
  /\ zombies = [c \in Calls |-> 0]
  /\ result = [c \in Calls |-> "none"]
  /\ hit = [c \in Calls |-> FALSE]
  /\ audit = [c \in Calls |-> <<>>]
  /\ store = [k \in Keys |-> "none"]
  /\ puts = [c \in Calls |-> {}]
  /\ commits = [k \in Keys \cup {NoKey} |-> 0]
  /\ failures = 0
  /\ opened = "none"
  /\ crashes = 0

-----------------------------------------------------------------------------
(***************************************************************************)
(* The circuit breaker.                                                    *)
(***************************************************************************)
Allow == opened # "recent"

\* mutant: a success forgets the failures and leaves the breaker open
BreakerSuccess_CountOnly == failures' = 0 /\ UNCHANGED opened

BreakerSuccess == failures' = 0 /\ opened' = "none"

BreakerFailure ==
  /\ failures' = failures + 1
  /\ opened' = IF failures + 1 >= Threshold THEN "recent" ELSE opened

\* recovery_timeout_seconds pass: the breaker is half open
Recover ==
  /\ opened = "recent"
  /\ opened' = "elapsed"
  /\ UNCHANGED <<call, ledger, commits, failures, crashes>>

-----------------------------------------------------------------------------
(***************************************************************************)
(* Returning.                                                              *)
(***************************************************************************)
Goto(c, where) == pc' = [pc EXCEPT ![c] = where]

Audit(c, kind) ==
  /\ result' = [result EXCEPT ![c] = kind]
  /\ audit' = [audit EXCEPT ![c] = Append(@, kind)]

\* mutant: every failure is recorded, so that a retry of the call replays it
Recordable_AnyFailure(kind) == TRUE

Recordable(kind) == kind = "permanent"

\* idempotency_store.put as far as its await
Put(c, kind) ==
  IF Durable
  THEN puts' = [puts EXCEPT ![c] = @ \cup {kind}] /\ UNCHANGED store
  ELSE store' = [store EXCEPT ![KeyOf[c]] = kind] /\ UNCHANGED puts

\* _finish after the retry loop: a permanent failure is then put
GiveUp(c, kind) ==
  /\ Audit(c, kind)
  /\ \/ /\ Keyed(c) /\ Recordable(kind)
        /\ Put(c, kind)
        /\ Goto(c, "recordFailure")
     \/ /\ ~(Keyed(c) /\ Recordable(kind))
        /\ UNCHANGED ledger
        /\ Goto(c, "done")

\* mutant: one attempt too many
Retry_OneMore(c, kind) ==
  IF attempts[c] <= MaxAttempts
  THEN Goto(c, "sleep") /\ UNCHANGED <<result, audit, ledger>>
  ELSE GiveUp(c, kind)

Retry(c, kind) ==
  IF attempts[c] < MaxAttempts
  THEN Goto(c, "sleep") /\ UNCHANGED <<result, audit, ledger>>
  ELSE GiveUp(c, kind)

-----------------------------------------------------------------------------
(***************************************************************************)
(* The pipeline.  The breaker is asked once, before the first attempt.     *)
(***************************************************************************)
Admit(c) ==
  /\ UNCHANGED <<cached, effect, zombies, hit, ledger, commits, breaker, crashes>>
  /\ \/ /\ Allow
        /\ Goto(c, "handler")
        /\ attempts' = [attempts EXCEPT ![c] = 1]
        /\ UNCHANGED <<result, audit>>
     \/ /\ ~Allow
        /\ Audit(c, "circuit_open")
        /\ Goto(c, "done")
        /\ UNCHANGED attempts

\* the schema, the permission, or a side effect without a key
Reject(c) ==
  /\ pc[c] = "idle"
  /\ Audit(c, "rejected")
  /\ Goto(c, "done")
  /\ UNCHANGED <<cached, attempts, effect, zombies, hit, ledger, commits, breaker, crashes>>

StartKeyed(c) ==
  /\ pc[c] = "idle"
  /\ Keyed(c)
  /\ Goto(c, "lookup")
  /\ UNCHANGED <<cached, attempts, effect, zombies, result, hit, audit,
                 ledger, commits, breaker, crashes>>

StartUnkeyed(c) ==
  /\ pc[c] = "idle"
  /\ ~Keyed(c) /\ ~SideEffecting
  /\ Admit(c)

\* the store has read the key; its answer is on the way
Lookup(c) ==
  /\ pc[c] = "lookup"
  /\ cached' = [cached EXCEPT ![c] = store[KeyOf[c]]]
  /\ Goto(c, "cached")
  /\ UNCHANGED <<attempts, effect, zombies, result, hit, audit,
                 ledger, commits, breaker, crashes>>

LookupMiss(c) ==
  /\ pc[c] = "cached"
  /\ cached[c] = "none"
  /\ Admit(c)

LookupHit(c) ==
  /\ pc[c] = "cached"
  /\ cached[c] # "none"
  /\ hit' = [hit EXCEPT ![c] = TRUE]
  /\ Audit(c, cached[c])
  /\ Goto(c, "done")
  /\ UNCHANGED <<cached, attempts, effect, zombies, ledger, commits, breaker, crashes>>

\* mutant: a ledger that cannot be read is taken for one without a record
LookupFails_Ignored(c) ==
  /\ pc[c] \in {"lookup", "cached"}
  /\ Durable
  /\ Admit(c)

\* get is outside the try: its exception leaves execute
LookupFails(c) ==
  /\ pc[c] \in {"lookup", "cached"}
  /\ Durable
  /\ Goto(c, "raised")
  /\ UNCHANGED <<cached, attempts, effect, zombies, result, hit, audit,
                 ledger, commits, breaker, crashes>>

-----------------------------------------------------------------------------
(***************************************************************************)
(* An attempt: the handler has its effect at some moment, and returns or   *)
(* raises; it may time out or raise after its effect as well as before.    *)
(***************************************************************************)
HandlerEffect(c) ==
  /\ pc[c] = "handler"
  /\ ~effect[c]
  /\ effect' = [effect EXCEPT ![c] = TRUE]
  /\ commits' = [commits EXCEPT ![KeyOf[c]] = @ + 1]
  /\ UNCHANGED <<pc, cached, attempts, zombies, result, hit, audit, ledger, breaker, crashes>>

\* mutant: the caller is told of the success before its record is written
HandlerReturns_TellsFirst(c) ==
  /\ pc[c] = "handler"
  /\ effect[c]
  /\ BreakerSuccess
  /\ Audit(c, "ok")
  /\ \/ Keyed(c) /\ Put(c, "ok") /\ Goto(c, "record")
     \/ ~Keyed(c) /\ UNCHANGED ledger /\ Goto(c, "done")
  /\ UNCHANGED <<cached, attempts, effect, zombies, hit, commits, crashes>>

HandlerReturns(c) ==
  /\ pc[c] = "handler"
  /\ effect[c]
  /\ BreakerSuccess
  /\ \/ Keyed(c) /\ Put(c, "ok") /\ Goto(c, "record") /\ UNCHANGED <<result, audit>>
     \/ ~Keyed(c) /\ Audit(c, "ok") /\ Goto(c, "done") /\ UNCHANGED ledger
  /\ UNCHANGED <<cached, attempts, effect, zombies, hit, commits, crashes>>

HandlerTimesOut(c) ==
  /\ pc[c] = "handler"
  /\ zombies' = IF SyncHandler /\ ~effect[c]
                THEN [zombies EXCEPT ![c] = @ + 1] ELSE zombies
  /\ BreakerFailure
  /\ Retry(c, "timeout")
  /\ UNCHANGED <<cached, attempts, effect, hit, commits, crashes>>

HandlerIsTransient(c) ==
  /\ pc[c] = "handler"
  /\ BreakerFailure
  /\ Retry(c, "transient")
  /\ UNCHANGED <<cached, attempts, effect, zombies, hit, commits, crashes>>

\* any other exception, or a value over the output limit: not the breaker's
HandlerIsPermanent(c) ==
  /\ pc[c] = "handler"
  /\ GiveUp(c, "permanent")
  /\ UNCHANGED <<cached, attempts, effect, zombies, hit, commits, breaker, crashes>>

\* an abandoned thread finishes its work
ZombieEffect(c) ==
  /\ zombies[c] > 0
  /\ zombies' = [zombies EXCEPT ![c] = @ - 1]
  /\ commits' = [commits EXCEPT ![KeyOf[c]] = @ + 1]
  /\ UNCHANGED <<pc, cached, attempts, effect, result, hit, audit, ledger, breaker, crashes>>

\* mutant: a retry waits for the breaker to let it pass
Wake_AwaitsBreaker(c) ==
  /\ pc[c] = "sleep"
  /\ Allow
  /\ Goto(c, "handler")
  /\ attempts' = [attempts EXCEPT ![c] = @ + 1]
  /\ effect' = [effect EXCEPT ![c] = FALSE]
  /\ UNCHANGED <<cached, zombies, result, hit, audit, ledger, commits, breaker, crashes>>

\* the loop goes round without asking the breaker
Wake(c) ==
  /\ pc[c] = "sleep"
  /\ Goto(c, "handler")
  /\ attempts' = [attempts EXCEPT ![c] = @ + 1]
  /\ effect' = [effect EXCEPT ![c] = FALSE]
  /\ UNCHANGED <<cached, zombies, result, hit, audit, ledger, commits, breaker, crashes>>

-----------------------------------------------------------------------------
(***************************************************************************)
(* Recording.  The put of a success is inside the try of the attempt: its  *)
(* exception is no builtin ConnectionError, so the call fails permanently. *)
(***************************************************************************)
\* Redis applies a put, whatever has become of the call meanwhile
Apply(c) ==
  \E kind \in puts[c] :
    /\ store' = [store EXCEPT ![KeyOf[c]] = kind]
    /\ puts' = [puts EXCEPT ![c] = @ \ {kind}]
    /\ UNCHANGED <<call, commits, breaker, crashes>>

\* the put of the success returns: it has been applied
Record(c) ==
  /\ pc[c] = "record"
  /\ "ok" \notin puts[c]
  /\ Audit(c, "ok")
  /\ Goto(c, "done")
  /\ UNCHANGED <<cached, attempts, effect, zombies, hit, ledger, commits, breaker, crashes>>

\* mutant: a success is returned although its put has raised
RecordFails_Swallowed(c) ==
  /\ pc[c] = "record"
  /\ Durable
  /\ Audit(c, "ok")
  /\ Goto(c, "done")
  /\ UNCHANGED <<cached, attempts, effect, zombies, hit, ledger, commits, breaker, crashes>>

\* mutant: the success is audited before its record is written
RecordFails_AuditedTwice(c) ==
  /\ pc[c] = "record"
  /\ Durable
  /\ result' = [result EXCEPT ![c] = "permanent"]
  /\ audit' = [audit EXCEPT ![c] = @ \o <<"ok", "permanent">>]
  /\ Put(c, "permanent")
  /\ Goto(c, "recordFailure")
  /\ UNCHANGED <<cached, attempts, effect, zombies, hit, commits, breaker, crashes>>

\* it raises: before it is applied, or afterwards, when its answer is lost
RecordFails(c) ==
  /\ pc[c] = "record"
  /\ Durable
  /\ GiveUp(c, "permanent")
  /\ UNCHANGED <<cached, attempts, effect, zombies, hit, commits, breaker, crashes>>

\* the put of the permanent failure returns
RecordFailure(c) ==
  /\ pc[c] = "recordFailure"
  /\ "permanent" \notin puts[c]
  /\ Goto(c, "done")
  /\ UNCHANGED <<cached, attempts, effect, zombies, result, hit, audit,
                 ledger, commits, breaker, crashes>>

\* it raises, applied or not, and nothing catches it
RecordFailureFails(c) ==
  /\ pc[c] = "recordFailure"
  /\ Durable
  /\ Goto(c, "raised")
  /\ UNCHANGED <<cached, attempts, effect, zombies, result, hit, audit,
                 ledger, commits, breaker, crashes>>

-----------------------------------------------------------------------------
(***************************************************************************)
(* The process stops and starts again: the calls in flight are lost, and   *)
(* not their puts; the breaker and the in-memory store start anew.         *)
(***************************************************************************)
Crash ==
  /\ crashes < MaxCrashes
  /\ crashes' = crashes + 1
  /\ pc' = [c \in Calls |-> IF pc[c] \in Active THEN "lost" ELSE pc[c]]
  /\ zombies' = [c \in Calls |-> 0]
  /\ store' = IF Durable THEN store ELSE [k \in Keys |-> "none"]
  /\ failures' = 0
  /\ opened' = "none"
  /\ UNCHANGED <<cached, attempts, effect, result, hit, audit, puts, commits>>

Start(c) == Reject(c) \/ StartKeyed(c) \/ StartUnkeyed(c)

Proceed(c) ==
  \/ Lookup(c) \/ LookupMiss(c) \/ LookupHit(c) \/ LookupFails(c)
  \/ HandlerEffect(c) \/ HandlerReturns(c)
  \/ HandlerTimesOut(c) \/ HandlerIsTransient(c) \/ HandlerIsPermanent(c)
  \/ Wake(c)
  \/ Record(c) \/ RecordFails(c)
  \/ RecordFailure(c) \/ RecordFailureFails(c)

Next ==
  \/ \E c \in Calls : Start(c) \/ Proceed(c) \/ ZombieEffect(c) \/ Apply(c)
  \/ Recover
  \/ Crash

(***************************************************************************)
(* An attempt is bounded by wait_for, a sleep by max_delay_ms, and the     *)
(* store answers or raises: a call that has started proceeds.  Nothing     *)
(* makes a call start, a thread finish, a put be applied, the time pass or *)
(* the process stop.                                                       *)
(***************************************************************************)
Fairness == \A c \in Calls : WF_vars(Proceed(c))

Spec == Init /\ [][Next]_vars

FairSpec == Spec /\ Fairness

-----------------------------------------------------------------------------
TypeOK ==
  /\ pc \in [Calls -> {"idle"} \cup Active \cup Terminal]
  /\ cached \in [Calls -> {"none", "ok", "permanent"}]
  /\ attempts \in [Calls -> Nat]
  /\ effect \in [Calls -> BOOLEAN]
  /\ zombies \in [Calls -> Nat]
  /\ result \in [Calls -> {"none"} \cup Outcome]
  /\ hit \in [Calls -> BOOLEAN]
  /\ audit \in [Calls -> Seq(Outcome)]
  /\ store \in [Keys -> {"none", "ok", "permanent"}]
  /\ puts \in [Calls -> SUBSET {"ok", "permanent"}]
  /\ commits \in [Keys \cup {NoKey} -> Nat]
  /\ failures \in Nat
  /\ opened \in {"none", "recent", "elapsed"}
  /\ crashes \in Nat

(***************************************************************************)
(* On one event loop the two fields of the breaker agree, whatever calls   *)
(* interleave: it has been opened exactly when its count has reached the   *)
(* threshold, so a half-open breaker closes or reopens on one outcome.     *)
(***************************************************************************)
BreakerAgrees == opened # "none" <=> failures >= Threshold

(***************************************************************************)
(* What a replay reports has happened: only a success or a permanent       *)
(* failure is replayed, so a timeout may be tried again under its key, and *)
(* a success is reported, by any call and after any crash, only when the   *)
(* handler has had its effect under that key.                              *)
(***************************************************************************)
ReplaySound ==
  \A c \in Calls :
    /\ hit[c] => result[c] \in {"ok", "permanent"}
    /\ result[c] = "ok" => commits[KeyOf[c]] > 0

(***************************************************************************)
(* A caller that was told of a success under a key finds a record there,   *)
(* in the ledger that survives the process: the record is applied before   *)
(* the result is returned, and a success whose put raises, applied or not, *)
(* is not reported as one.                                                 *)
(***************************************************************************)
SuccessIsRecorded ==
  Durable =>
    \A c \in Calls :
      Keyed(c) /\ result[c] = "ok" => store[KeyOf[c]] # "none"

(***************************************************************************)
(* What has been returned under a key is not done again: once a call has   *)
(* returned a success or a permanent failure, one that starts later under  *)
(* its key never runs the tool, although puts fail, overtake one another,  *)
(* arrive after their call has given up, and the process stops.  (A call   *)
(* that had begun may: nothing reserves the key while the tool runs.)      *)
(***************************************************************************)
Final(k) ==
  \E c \in Calls :
    KeyOf[c] = k /\ pc[c] = "done" /\ result[c] \in {"ok", "permanent"}

FinalIsNotDoneAgain ==
  Durable =>
    \A c \in Calls :
      [](Keyed(c) /\ pc[c] = "idle" /\ Final(KeyOf[c]) => [](pc[c] # "handler"))

(***************************************************************************)
(* A call that returns has left exactly one audit event, and the event     *)
(* agrees with what the caller was told.                                   *)
(***************************************************************************)
AuditAgrees ==
  \A c \in Calls :
    pc[c] = "done" => audit[c] = <<result[c]>>

(***************************************************************************)
(* What is left of a call: of the attempts not begun three steps each (its *)
(* effect, its end, the sleep after it), of this one what is left of them, *)
(* and the answers to the two puts after the last.                         *)
(***************************************************************************)
CallLeft(c) ==
  LET more == 3 * (MaxAttempts - attempts[c])
  IN  CASE pc[c] = "idle"          -> 3 * MaxAttempts + 4
        [] pc[c] = "lookup"        -> 3 * MaxAttempts + 3
        [] pc[c] = "cached"        -> 3 * MaxAttempts + 2
        [] pc[c] = "handler"       -> more + (IF effect[c] THEN 3 ELSE 4)
        [] pc[c] = "sleep"         -> more + 2
        [] pc[c] = "record"        -> 2
        [] pc[c] = "recordFailure" -> 1
        [] pc[c] \in Terminal      -> 0

(***************************************************************************)
(* A call takes a bounded number of steps: each of its own leaves it less  *)
(* to do, and nothing else, neither another call nor the breaker, a put of *)
(* its own, an abandoned thread or a restart, gives it more.               *)
(***************************************************************************)
BoundedCalls ==
  /\ [](\A c \in Calls : CallLeft(c) \in 0 .. 3 * MaxAttempts + 4)
  /\ [][\A c \in Calls : /\ CallLeft(c)' <= CallLeft(c)
                         /\ (Start(c) \/ Proceed(c)) => CallLeft(c)' < CallLeft(c)]_vars

(***************************************************************************)
(* The runtime keeps its promise to the callers: the outcome of a call is  *)
(* settled once, a success after an effect under its key and a record that *)
(* has been applied; what is applied is a success that was due or an error *)
(* that was settled, even when its call, told otherwise or lost, never     *)
(* hears of it.                                                            *)
(***************************************************************************)
Promise == INSTANCE Invocation
             WITH Call    <- Calls,
                  Key     <- Keys,
                  Error   <- Outcome \ {"ok"},
                  Lasting <- Durable,
                  settled <- result,
                  record  <- store,
                  seen    <- cached,
                  acts    <- [k \in Keys \cup {KeyOf[c] : c \in Calls} |-> commits[k]]

KeepsPromise == Promise!Spec

(***************************************************************************)
(* Every call that has started returns, raises or is lost with the         *)
(* process: retries, the breaker and a failing store cannot keep it going. *)
(***************************************************************************)
EveryCallEnds ==
  \A c \in Calls : pc[c] # "idle" ~> pc[c] \in Terminal
=============================================================================
