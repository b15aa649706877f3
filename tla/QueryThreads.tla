---------------------------- MODULE QueryThreads ----------------------------
(***************************************************************************)
(* The queries of the harness on their threads: execute_step               *)
(* (harness/nodes.py) puts each on the thread pool of the server, where it *)
(* runs an event loop of its own for ToolRuntime.execute                   *)
(* (runtime/tool_runtime.py), which puts the handler on a thread of that   *)
(* loop.  The queries, of one run or of several, are of one catalog entry, *)
(* so they share its circuit breaker; and they share the one client of     *)
(* ClickHouse (clickhouse/client.py) and its connection.                   *)
(*                                                                         *)
(* A step is what a thread does between two points where CPython 3.11, on  *)
(* which docker/Dockerfile.backend builds, may switch threads: `state`     *)
(* calls time.monotonic between its two reads of opened_at, and `failure`  *)
(* between its comparison and its assignment; `failures += 1` and          *)
(* `success` are one step.  The clock is reduced to whether a timeout has  *)
(* elapsed.  Queries are those whose parameters are valid.                 *)
(***************************************************************************)
EXTENDS Integers, FiniteSets

CONSTANTS
  Queries,      \* calls of execute_step
  Pool,         \* threads of the server's default executor
  MaxAttempts,  \* tool.retry.max_attempts
  Threshold,    \* breaker config.failure_threshold
  MayFail,      \* the database may raise, or answer too late
  None          \* nothing runs on the connection

ASSUME ThreadAssumption ==
  /\ Pool \in Nat \ {0} /\ MaxAttempts \in Nat \ {0} /\ Threshold \in Nat \ {0}
  /\ MayFail \in BOOLEAN /\ None \notin Queries \X (1..MaxAttempts)

VARIABLES
  item,        \* what execute_step has returned for each query
  pc,          \* where its thread is
  attempts,    \* its attempts
  kind,        \* how its last attempt, or its call of the runtime, ended
  threads,     \* the executions whose handler thread runs
  connection,  \* the execution the connection is busy with
  failures,    \* breaker.failures; more than Threshold make no difference
  opened       \* breaker.opened_at: None, or its timeout has elapsed or not
VARIABLES
  excused,  \* history: queries with a cause to fail for good
  late      \* history: opened_at was set after a success had cleared the count

call    == <<item, pc, attempts, kind>>
client  == <<threads, connection>>
breaker == <<failures, opened>>
history == <<excused, late>>
vars    == <<call, client, breaker, history>>

Executions == Queries \X (1..MaxAttempts)
Outcomes   == {"ok", "timeout", "transient", "permanent", "circuit_open"}

Waiting == {"queued", "dropped"}
InThread == {"enter", "reread", "start", "handler", "opens", "sleep", "closing"}

\* to_thread has submitted every query: one that comes later is one that waits longer
Init ==
  /\ item = [q \in Queries |-> "none"]
  /\ pc = [q \in Queries |-> "queued"]
  /\ attempts = [q \in Queries |-> 0]
  /\ kind = [q \in Queries |-> "none"]
  /\ threads = {} /\ connection = None
  /\ failures = 0 /\ opened = "none"
  /\ excused = {} /\ late = FALSE

Goto(q, where) == pc' = [pc EXCEPT ![q] = where]
Attempt(q)     == attempts' = [attempts EXCEPT ![q] = @ + 1]
Ended(q, how)  == kind' = [kind EXCEPT ![q] = how]

Current(q) == <<q, attempts[q]>>

-----------------------------------------------------------------------------
(***************************************************************************)
(* execute_step, on the event loop of the server.                          *)
(***************************************************************************)
Busy == {q \in Queries : pc[q] \in InThread}

\* wait_for: a query in the queue is cancelled, a thread that runs goes on
TimeOut(q) ==
  /\ item[q] = "none" /\ pc[q] \in InThread \cup {"queued"}
  /\ item' = [item EXCEPT ![q] = "timeout"]
  /\ pc' = IF pc[q] = "queued" THEN [pc EXCEPT ![q] = "dropped"] ELSE pc
  /\ UNCHANGED <<attempts, kind, client, breaker, history>>

\* asyncio.run begins in a thread of the pool
Begin(q) ==
  /\ pc[q] = "queued" /\ Cardinality(Busy) < Pool
  /\ Goto(q, "enter")
  /\ UNCHANGED <<item, attempts, kind, client, breaker, history>>

\* mutant: the result of a query that has timed out replaces its item
End_Late(q) ==
  /\ pc[q] = "closing" /\ {e \in threads : e[1] = q} = {}
  /\ Goto(q, "ended")
  /\ item' = [item EXCEPT ![q] = kind[q]]
  /\ attempts' = [attempts EXCEPT ![q] = 0] /\ Ended(q, "none")
  /\ UNCHANGED <<client, breaker, history>>

\* and ends when the threads of its handlers have: the result is that of the query
\* unless it has timed out; the locals are gone
End(q) ==
  /\ pc[q] = "closing" /\ {e \in threads : e[1] = q} = {}
  /\ Goto(q, "ended")
  /\ item' = IF item[q] = "none" THEN [item EXCEPT ![q] = kind[q]] ELSE item
  /\ attempts' = [attempts EXCEPT ![q] = 0] /\ Ended(q, "none")
  /\ UNCHANGED <<client, breaker, history>>

-----------------------------------------------------------------------------
(***************************************************************************)
(* The circuit breaker: `state` as allow reads it, success, failure.       *)
(***************************************************************************)
FirstRead(q) ==
  /\ pc[q] = "enter"
  /\ IF opened = "none" THEN Attempt(q) /\ Goto(q, "start")
                        ELSE UNCHANGED attempts /\ Goto(q, "reread")
  /\ UNCHANGED <<item, kind, client, breaker, history>>

\* time.monotonic() - None is a TypeError, which execute does not catch
SecondRead(q) ==
  /\ pc[q] = "reread"
  /\ \/ /\ opened = "none" /\ Ended(q, "permanent") /\ Goto(q, "closing")
        /\ excused' = excused \cup {q} /\ UNCHANGED attempts
     \/ /\ opened = "recent" /\ Ended(q, "circuit_open") /\ Goto(q, "closing")
        /\ UNCHANGED <<excused, attempts>>
     \/ /\ opened = "elapsed" /\ Attempt(q) /\ Goto(q, "start")
        /\ UNCHANGED <<excused, kind>>
  /\ UNCHANGED <<item, client, breaker, late>>

\* mutant: a success forgets the failures and leaves the breaker open
Success_CountOnly == failures' = 0 /\ UNCHANGED opened

Success == failures' = 0 /\ opened' = "none"

\* mutant: one attempt too many
AfterFailure_Again(q) == IF attempts[q] <= MaxAttempts THEN "sleep" ELSE "closing"

AfterFailure(q) == IF attempts[q] < MaxAttempts THEN "sleep" ELSE "closing"

Failure(q, how) ==
  /\ Ended(q, how)
  /\ failures' = IF failures < Threshold THEN failures + 1 ELSE failures
  /\ Goto(q, IF failures + 1 >= Threshold THEN "opens" ELSE AfterFailure(q))
  /\ UNCHANGED opened

Opens(q) ==
  /\ pc[q] = "opens"
  /\ opened' = "recent" /\ late' = (failures < Threshold)
  /\ Goto(q, AfterFailure(q))
  /\ UNCHANGED <<item, attempts, kind, client, failures, excused>>

\* recovery_timeout_seconds pass
Recover ==
  /\ opened = "recent" /\ opened' = "elapsed"
  /\ UNCHANGED <<call, client, failures, history>>

\* mutant: a retry waits for the breaker
Wake_AwaitsBreaker(q) ==
  /\ pc[q] = "sleep" /\ opened # "recent"
  /\ Attempt(q) /\ Ended(q, "none") /\ Goto(q, "start")
  /\ UNCHANGED <<item, client, breaker, history>>

Wake(q) ==
  /\ pc[q] = "sleep"
  /\ Attempt(q) /\ Ended(q, "none") /\ Goto(q, "start")
  /\ UNCHANGED <<item, client, breaker, history>>

-----------------------------------------------------------------------------
(***************************************************************************)
(* The handler and the connection of the driver, which carries one query.  *)
(* A query that finds it busy raises, and every query that raises closes   *)
(* it: the one it was busy with raises in turn.                            *)
(***************************************************************************)
\* the queries that are disturbed when the connection is closed by another one's thread
Cut(e) == IF connection \in threads \ {e} THEN {connection[1]} ELSE {}

\* mutant: the connection is not closed
Leaves_Connected(e) ==
  /\ threads' = threads \ {e} /\ UNCHANGED connection
  /\ excused' = excused \cup Cut(e)

\* a handler's thread ends: its query is through, or the connection is closed
Leaves(e) ==
  /\ threads' = threads \ {e} /\ connection' = None
  /\ excused' = excused \cup Cut(e)

Execute(q) ==
  /\ pc[q] = "start"
  /\ \/ /\ connection = None
        /\ threads' = threads \cup {Current(q)} /\ connection' = Current(q)
        /\ Goto(q, "handler")
        /\ UNCHANGED <<kind, excused>>
     \/ /\ connection # None
        /\ connection' = None
        /\ excused' = IF Cut(Current(q)) = {} THEN excused
                      ELSE excused \cup Cut(Current(q)) \cup {q}
        /\ Ended(q, "permanent") /\ Goto(q, "closing")
        /\ UNCHANGED threads
  /\ UNCHANGED <<item, attempts, breaker, late>>

Answer(q) ==
  /\ pc[q] = "handler" /\ connection = Current(q)
  /\ Leaves(Current(q))
  /\ Success /\ Ended(q, "ok") /\ Goto(q, "closing")
  /\ UNCHANGED <<item, attempts, late>>

\* the database refuses, or the network fails
Raise(q) ==
  /\ MayFail /\ pc[q] = "handler" /\ connection = Current(q)
  /\ threads' = threads \ {Current(q)} /\ connection' = None
  /\ \/ Failure(q, "transient") /\ UNCHANGED excused
     \/ /\ Ended(q, "permanent") /\ Goto(q, "closing")
        /\ excused' = excused \cup {q}
        /\ UNCHANGED breaker
  /\ UNCHANGED <<item, attempts, late>>

\* the connection has been closed
RaiseCut(q) ==
  /\ pc[q] = "handler" /\ connection # Current(q)
  /\ Leaves(Current(q))
  /\ Ended(q, "permanent") /\ Goto(q, "closing")
  /\ UNCHANGED <<item, attempts, breaker, late>>

\* wait_for of an attempt: its thread goes on
AttemptTimesOut(q) ==
  /\ MayFail /\ pc[q] = "handler"
  /\ Failure(q, "timeout")
  /\ UNCHANGED <<item, attempts, client, history>>

\* a thread that nobody waits for ends, answered or not
AbandonedEnds(e) ==
  /\ e \in threads /\ ~(pc[e[1]] = "handler" /\ e = Current(e[1]))
  /\ Leaves(e)
  /\ UNCHANGED <<call, breaker, late>>

-----------------------------------------------------------------------------
Thread(q) ==
  \/ FirstRead(q) \/ SecondRead(q) \/ Opens(q) \/ Wake(q) \/ Execute(q)
  \/ Answer(q) \/ Raise(q) \/ RaiseCut(q) \/ AttemptTimesOut(q) \/ End(q)

Next ==
  \/ \E q \in Queries : TimeOut(q) \/ Begin(q) \/ Thread(q)
  \/ \E e \in Executions : AbandonedEnds(e)
  \/ Recover

\* timers fire, threads run, and the driver answers or gives up a query; a query times out
\* once and an execution ends once, so that one condition is enough for all of them
Fairness ==
  /\ WF_vars(\E q \in Queries : TimeOut(q))
  /\ WF_vars(\E e \in Executions : AbandonedEnds(e))
  /\ \A q \in Queries : WF_vars(Thread(q))

Spec == Init /\ [][Next]_vars /\ Fairness

-----------------------------------------------------------------------------
(***************************************************************************)
(* Properties.                                                             *)
(***************************************************************************)
\* Types; and a handler that is awaited has its thread.
TypeOK ==
  /\ item \in [Queries -> Outcomes \cup {"none"}]
  /\ pc \in [Queries -> Waiting \cup InThread \cup {"ended"}]
  /\ attempts \in [Queries -> 0..MaxAttempts]
  /\ kind \in [Queries -> Outcomes \cup {"none"}]
  /\ threads \subseteq Executions
  /\ connection \in Executions \cup {None}
  /\ failures \in 0..Threshold /\ opened \in {"none", "recent", "elapsed"}
  /\ excused \subseteq Queries /\ late \in BOOLEAN
  /\ \A q \in Queries : pc[q] = "handler" => Current(q) \in threads

\* Threads share the breaker without a lock.  It is still open, or about to be, once it
\* has counted Threshold failures, and open with fewer only when a success came between
\* the comparison and the assignment of a failure.
BreakerRace ==
  /\ failures >= Threshold => opened # "none" \/ \E q \in Queries : pc[q] = "opens"
  /\ opened # "none" /\ failures < Threshold => late

\* A failure that the harness will not retry has a cause: the database, another query on
\* the connection, or a success between the two reads of opened_at.  Nothing a query that
\* has ended left behind makes a later one fail.
PermanentHasCause ==
  \A q \in Queries : item[q] = "permanent" => q \in excused

\* "a dead database cannot freeze the graph" (harness/nodes.py:786): every query has its
\* item in the end, also when all threads of the pool hang; and when the driver gives up,
\* every thread is free again, whatever was retried, opened or abandoned in it.
EveryQueryEnds ==
  <>[](Busy = {} /\ threads = {} /\ \A q \in Queries : item[q] # "none")

\* docs/EVIDENCE_DRIVEN_HARNESS_DESIGN.md:240 lets independent queries of a round run in
\* parallel: when the database answers, and in time, none of them fails for good.
ParallelQueriesSucceed ==
  ~MayFail => \A q \in Queries : item[q] # "permanent"

\* The queries of the pool keep what the harness relies on: the first item of a query is
\* final, however late its thread ends and with what, no more than Pool run, and one
\* that timed out in the queue never does.
Stage ==
  [q \in Queries |-> CASE pc[q] = "queued" -> "waits"
                       [] pc[q] \in InThread -> "runs"
                       [] OTHER -> "over"]

Asked == INSTANCE Batch WITH Query <- Queries, Workers <- Pool, Result <- Outcomes,
                             given <- item, stage <- Stage

KeepsBatch == Asked!Spec

\* What is left of a query: of the attempts not begun five steps each (it starts, its
\* handler ends, the breaker opens, the sleep, the next), of this one what is left of
\* them, the two reads of the breaker, the end of its thread, and its timeout.
QueryLeft(q) ==
  LET more == 5 * (MaxAttempts - attempts[q])
      left == CASE pc[q] = "queued"  -> 5 * MaxAttempts + 3
                [] pc[q] = "enter"   -> 5 * MaxAttempts + 2
                [] pc[q] = "reread"  -> 5 * MaxAttempts + 1
                [] pc[q] = "start"   -> more + 5
                [] pc[q] = "handler" -> more + 4
                [] pc[q] = "opens"   -> more + 3
                [] pc[q] = "sleep"   -> more + 2
                [] pc[q] = "closing" -> 1
                [] pc[q] \in {"dropped", "ended"} -> 0
  IN  left + IF item[q] = "none" THEN 1 ELSE 0

\* A query takes a bounded number of steps, and nothing another one does gives it more:
\* not the breaker it shares, nor the connection that is closed under it, nor the thread
\* it left behind.
BoundedQueries ==
  /\ [](\A q \in Queries : QueryLeft(q) \in 0 .. 5 * MaxAttempts + 4)
  /\ [][\A q \in Queries :
           /\ QueryLeft(q)' <= QueryLeft(q)
           /\ TimeOut(q) \/ Begin(q) \/ Thread(q) => QueryLeft(q)' < QueryLeft(q)]_vars

=============================================================================
