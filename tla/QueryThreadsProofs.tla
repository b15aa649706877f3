-------------------------- MODULE QueryThreadsProofs --------------------------
(***************************************************************************)
(* Proofs about QueryThreads, for any number of queries, threads of the    *)
(* pool and attempts, and any threshold.                                   *)
(***************************************************************************)
EXTENDS QueryThreads, TLAPS

(***************************************************************************)
(* The inductive invariant.                                                *)
(***************************************************************************)
\* How many attempts a query has made, by where its thread is.
CountInv ==
  \A q \in Queries :
    /\ pc[q] \in {"queued", "dropped", "enter", "reread", "ended"} => attempts[q] = 0
    /\ pc[q] \in {"start", "handler", "opens", "sleep"} => attempts[q] >= 1
    /\ pc[q] = "sleep" => attempts[q] < MaxAttempts

\* A handler's thread is of an attempt that was made, by a query that has not ended; an
\* attempt that starts has none.  The connection is busy with a handler that runs.
ThreadInv ==
  /\ \A e \in threads :
       /\ pc[e[1]] \in {"start", "handler", "opens", "sleep", "closing"}
       /\ e[2] <= attempts[e[1]]
       /\ pc[e[1]] = "start" => e[2] < attempts[e[1]]
  /\ connection # None => connection \in threads

\* A query has its cause as soon as its connection is taken from it.
CauseInv ==
  \A q \in Queries :
    /\ kind[q] = "permanent" \/ item[q] = "permanent" => q \in excused
    /\ pc[q] = "handler" /\ connection # Current(q) => q \in excused

TypeInv == TypeOK /\ CountInv /\ ThreadInv

-----------------------------------------------------------------------------
\* All queries are in the queue of the pool.
LEMMA InitInv == Init => TypeInv /\ BreakerRace /\ CauseInv
<1>. SUFFICES ASSUME Init PROVE TypeInv /\ BreakerRace /\ CauseInv
  OBVIOUS
<1>. USE ThreadAssumption DEF Init
<1>1. TypeOK
  <2>1. 0 \in 0..MaxAttempts /\ 0 \in 0..Threshold
    OBVIOUS
  <2>. QED
    BY <2>1 DEF TypeOK, Outcomes, Waiting, InThread
<1>2. CountInv /\ CauseInv
  BY DEF CountInv, CauseInv
<1>3. ThreadInv /\ BreakerRace
  BY DEF ThreadInv, BreakerRace
<1>. QED
  BY <1>1, <1>2, <1>3 DEF TypeInv

\* The queries that are disturbed are queries.
LEMMA CutTyped ==
  ASSUME TypeInv, NEW e \in Executions
  PROVE  Cut(e) \subseteq Queries
BY DEF TypeInv, TypeOK, Cut, Executions

\* A step keeps the count of attempts.
LEMMA CountStep ==
  ASSUME TypeInv, [Next]_vars
  PROVE  CountInv'
<1>. USE ThreadAssumption DEF TypeInv, TypeOK, CountInv, Waiting, InThread, call, client, breaker, history, Goto, Attempt, Ended
<1>1. ASSUME NEW q \in Queries, TimeOut(q)
      PROVE  CountInv'
  BY <1>1 DEF TimeOut
<1>2. ASSUME NEW q \in Queries, Begin(q)
      PROVE  CountInv'
  BY <1>2 DEF Begin
<1>3. ASSUME NEW q \in Queries, FirstRead(q)
      PROVE  CountInv'
  BY <1>3 DEF FirstRead
<1>4. ASSUME NEW q \in Queries, SecondRead(q)
      PROVE  CountInv'
  BY <1>4 DEF SecondRead
<1>5. ASSUME NEW q \in Queries, Opens(q)
      PROVE  CountInv'
  BY <1>5 DEF Opens, AfterFailure
<1>6. ASSUME NEW q \in Queries, Wake(q)
      PROVE  CountInv'
  BY <1>6 DEF Wake
<1>7. ASSUME NEW q \in Queries, Execute(q)
      PROVE  CountInv'
  BY <1>7 DEF Execute, Current, Cut
<1>8. ASSUME NEW q \in Queries, Answer(q)
      PROVE  CountInv'
  BY <1>8 DEF Answer, Leaves, Success
<1>9. ASSUME NEW q \in Queries, Raise(q)
      PROVE  CountInv'
  BY <1>9 DEF Raise, Failure, AfterFailure
<1>10. ASSUME NEW q \in Queries, RaiseCut(q)
      PROVE  CountInv'
  BY <1>10 DEF RaiseCut, Leaves
<1>11. ASSUME NEW q \in Queries, AttemptTimesOut(q)
      PROVE  CountInv'
  BY <1>11 DEF AttemptTimesOut, Failure, AfterFailure
<1>12. ASSUME NEW q \in Queries, End(q)
      PROVE  CountInv'
  BY <1>12 DEF End
<1>13. ASSUME NEW e \in Executions, AbandonedEnds(e)
      PROVE  CountInv'
  BY <1>13 DEF AbandonedEnds, Leaves, Cut
<1>14. CASE Recover
  BY <1>14 DEF Recover
<1>15. CASE UNCHANGED vars
  BY <1>15 DEF vars
<1>. QED
  BY <1>1, <1>2, <1>3, <1>4, <1>5, <1>6, <1>7, <1>8, <1>9, <1>10, <1>11, <1>12, <1>13, <1>14, <1>15 DEF Next, Thread

\* A step keeps the types.
LEMMA TypeStep ==
  ASSUME TypeInv, [Next]_vars
  PROVE  TypeOK'
<1>. USE ThreadAssumption DEF TypeInv, TypeOK, Outcomes, Waiting, InThread, Executions, CountInv, ThreadInv, Current, call, client, breaker, history, Goto, Attempt, Ended
<1>1. ASSUME NEW q \in Queries, TimeOut(q)
      PROVE  TypeOK'
  BY <1>1 DEF TimeOut
<1>2. ASSUME NEW q \in Queries, Begin(q)
      PROVE  TypeOK'
  BY <1>2 DEF Begin
<1>3. ASSUME NEW q \in Queries, FirstRead(q)
      PROVE  TypeOK'
  BY <1>3 DEF FirstRead
<1>4. ASSUME NEW q \in Queries, SecondRead(q)
      PROVE  TypeOK'
  BY <1>4 DEF SecondRead
<1>5. ASSUME NEW q \in Queries, Opens(q)
      PROVE  TypeOK'
  BY <1>5 DEF Opens, AfterFailure
<1>6. ASSUME NEW q \in Queries, Wake(q)
      PROVE  TypeOK'
  BY <1>6 DEF Wake
<1>7. ASSUME NEW q \in Queries, Execute(q)
      PROVE  TypeOK'
  BY <1>7 DEF Execute, Current, Cut
<1>8. ASSUME NEW q \in Queries, Answer(q)
      PROVE  TypeOK'
  <2>1. Current(q) \in Executions /\ Leaves(Current(q))
    BY <1>8 DEF Answer
  <2>2. threads' \subseteq Executions /\ connection' = None
    BY <2>1 DEF Leaves
  <2>3. excused' \subseteq Queries
    BY <2>1, CutTyped DEF Leaves
  <2>4. \A h \in Queries : pc'[h] = "handler" => Current(h)' \in threads'
    <3>. SUFFICES ASSUME NEW h \in Queries, pc'[h] = "handler" PROVE Current(h)' \in threads'
      OBVIOUS
    <3>1. h # q /\ pc[h] = "handler"
      BY <1>8 DEF Answer
    <3>. QED
      BY <1>8, <2>1, <3>1 DEF Answer, Leaves
  <2>. QED
    BY <1>8, <2>2, <2>3, <2>4 DEF Answer, Success
<1>9. ASSUME NEW q \in Queries, Raise(q)
      PROVE  TypeOK'
  BY <1>9 DEF Raise, Failure, AfterFailure
<1>10. ASSUME NEW q \in Queries, RaiseCut(q)
      PROVE  TypeOK'
  <2>1. Current(q) \in Executions /\ Leaves(Current(q))
    BY <1>10 DEF RaiseCut
  <2>2. threads' \subseteq Executions /\ connection' = None
    BY <2>1 DEF Leaves
  <2>3. excused' \subseteq Queries
    BY <2>1, CutTyped DEF Leaves
  <2>4. \A h \in Queries : pc'[h] = "handler" => Current(h)' \in threads'
    <3>. SUFFICES ASSUME NEW h \in Queries, pc'[h] = "handler" PROVE Current(h)' \in threads'
      OBVIOUS
    <3>1. h # q /\ pc[h] = "handler"
      BY <1>10 DEF RaiseCut
    <3>. QED
      BY <1>10, <2>1, <3>1 DEF RaiseCut, Leaves
  <2>. QED
    BY <1>10, <2>2, <2>3, <2>4 DEF RaiseCut
<1>11. ASSUME NEW q \in Queries, AttemptTimesOut(q)
      PROVE  TypeOK'
  BY <1>11 DEF AttemptTimesOut, Failure, AfterFailure
<1>12. ASSUME NEW q \in Queries, End(q)
      PROVE  TypeOK'
  BY <1>12 DEF End
<1>13. ASSUME NEW e \in Executions, AbandonedEnds(e)
      PROVE  TypeOK'
  BY <1>13 DEF AbandonedEnds, Leaves, Cut
<1>14. CASE Recover
  BY <1>14 DEF Recover
<1>15. CASE UNCHANGED vars
  BY <1>15 DEF vars
<1>. QED
  BY <1>1, <1>2, <1>3, <1>4, <1>5, <1>6, <1>7, <1>8, <1>9, <1>10, <1>11, <1>12, <1>13, <1>14, <1>15 DEF Next, Thread

\* A step keeps threads and connection.
LEMMA ThreadStep ==
  ASSUME TypeInv, [Next]_vars
  PROVE  ThreadInv'
<1>. USE ThreadAssumption DEF TypeInv, TypeOK, Outcomes, Waiting, InThread, Executions, CountInv, ThreadInv, Current, call, client, breaker, history, Goto, Attempt, Ended
<1>1. ASSUME NEW q \in Queries, TimeOut(q)
      PROVE  ThreadInv'
  BY <1>1 DEF TimeOut
<1>2. ASSUME NEW q \in Queries, Begin(q)
      PROVE  ThreadInv'
  BY <1>2 DEF Begin
<1>3. ASSUME NEW q \in Queries, FirstRead(q)
      PROVE  ThreadInv'
  BY <1>3 DEF FirstRead
<1>4. ASSUME NEW q \in Queries, SecondRead(q)
      PROVE  ThreadInv'
  BY <1>4 DEF SecondRead
<1>5. ASSUME NEW q \in Queries, Opens(q)
      PROVE  ThreadInv'
  BY <1>5 DEF Opens, AfterFailure
<1>6. ASSUME NEW q \in Queries, Wake(q)
      PROVE  ThreadInv'
  BY <1>6 DEF Wake
<1>7. ASSUME NEW q \in Queries, Execute(q)
      PROVE  ThreadInv'
  BY <1>7 DEF Execute, Current, Cut
<1>8. ASSUME NEW q \in Queries, Answer(q)
      PROVE  ThreadInv'
  BY <1>8 DEF Answer, Leaves, Success
<1>9. ASSUME NEW q \in Queries, Raise(q)
      PROVE  ThreadInv'
  BY <1>9 DEF Raise, Failure, AfterFailure
<1>10. ASSUME NEW q \in Queries, RaiseCut(q)
      PROVE  ThreadInv'
  BY <1>10 DEF RaiseCut, Leaves
<1>11. ASSUME NEW q \in Queries, AttemptTimesOut(q)
      PROVE  ThreadInv'
  BY <1>11 DEF AttemptTimesOut, Failure, AfterFailure
<1>12. ASSUME NEW q \in Queries, End(q)
      PROVE  ThreadInv'
  BY <1>12 DEF End
<1>13. ASSUME NEW e \in Executions, AbandonedEnds(e)
      PROVE  ThreadInv'
  BY <1>13 DEF AbandonedEnds, Leaves, Cut
<1>14. CASE Recover
  BY <1>14 DEF Recover
<1>15. CASE UNCHANGED vars
  BY <1>15 DEF vars
<1>. QED
  BY <1>1, <1>2, <1>3, <1>4, <1>5, <1>6, <1>7, <1>8, <1>9, <1>10, <1>11, <1>12, <1>13, <1>14, <1>15 DEF Next, Thread

\* A step keeps what is known of the breaker.
LEMMA BreakerStep ==
  ASSUME TypeInv, BreakerRace, [Next]_vars
  PROVE  BreakerRace'
<1>. USE ThreadAssumption DEF TypeInv, TypeOK, Waiting, InThread, BreakerRace, call, client, breaker, history, Goto, Attempt, Ended
<1>1. ASSUME NEW q \in Queries, TimeOut(q)
      PROVE  BreakerRace'
  BY <1>1 DEF TimeOut
<1>2. ASSUME NEW q \in Queries, Begin(q)
      PROVE  BreakerRace'
  BY <1>2 DEF Begin
<1>3. ASSUME NEW q \in Queries, FirstRead(q)
      PROVE  BreakerRace'
  BY <1>3 DEF FirstRead
<1>4. ASSUME NEW q \in Queries, SecondRead(q)
      PROVE  BreakerRace'
  BY <1>4 DEF SecondRead
<1>5. ASSUME NEW q \in Queries, Opens(q)
      PROVE  BreakerRace'
  BY <1>5 DEF Opens, AfterFailure
<1>6. ASSUME NEW q \in Queries, Wake(q)
      PROVE  BreakerRace'
  BY <1>6 DEF Wake
<1>7. ASSUME NEW q \in Queries, Execute(q)
      PROVE  BreakerRace'
  BY <1>7 DEF Execute, Current, Cut
<1>8. ASSUME NEW q \in Queries, Answer(q)
      PROVE  BreakerRace'
  BY <1>8 DEF Answer, Leaves, Success
<1>9. ASSUME NEW q \in Queries, Raise(q)
      PROVE  BreakerRace'
  BY <1>9 DEF Raise, Failure, AfterFailure
<1>10. ASSUME NEW q \in Queries, RaiseCut(q)
      PROVE  BreakerRace'
  BY <1>10 DEF RaiseCut, Leaves
<1>11. ASSUME NEW q \in Queries, AttemptTimesOut(q)
      PROVE  BreakerRace'
  BY <1>11 DEF AttemptTimesOut, Failure, AfterFailure
<1>12. ASSUME NEW q \in Queries, End(q)
      PROVE  BreakerRace'
  BY <1>12 DEF End
<1>13. ASSUME NEW e \in Executions, AbandonedEnds(e)
      PROVE  BreakerRace'
  BY <1>13 DEF AbandonedEnds, Leaves, Cut
<1>14. CASE Recover
  BY <1>14 DEF Recover
<1>15. CASE UNCHANGED vars
  BY <1>15 DEF vars
<1>. QED
  BY <1>1, <1>2, <1>3, <1>4, <1>5, <1>6, <1>7, <1>8, <1>9, <1>10, <1>11, <1>12, <1>13, <1>14, <1>15 DEF Next, Thread

\* A step keeps the causes.
LEMMA CauseStep ==
  ASSUME TypeInv, CauseInv, [Next]_vars
  PROVE  CauseInv'
<1>. USE ThreadAssumption DEF TypeInv, TypeOK, Outcomes, Waiting, InThread, Executions, CountInv, ThreadInv, CauseInv, Current, call, client, breaker, history, Goto, Attempt, Ended
<1>1. ASSUME NEW q \in Queries, TimeOut(q)
      PROVE  CauseInv'
  BY <1>1 DEF TimeOut
<1>2. ASSUME NEW q \in Queries, Begin(q)
      PROVE  CauseInv'
  BY <1>2 DEF Begin
<1>3. ASSUME NEW q \in Queries, FirstRead(q)
      PROVE  CauseInv'
  BY <1>3 DEF FirstRead
<1>4. ASSUME NEW q \in Queries, SecondRead(q)
      PROVE  CauseInv'
  BY <1>4 DEF SecondRead
<1>5. ASSUME NEW q \in Queries, Opens(q)
      PROVE  CauseInv'
  BY <1>5 DEF Opens, AfterFailure
<1>6. ASSUME NEW q \in Queries, Wake(q)
      PROVE  CauseInv'
  BY <1>6 DEF Wake
<1>7. ASSUME NEW q \in Queries, Execute(q)
      PROVE  CauseInv'
  BY <1>7 DEF Execute, Current, Cut
<1>8. ASSUME NEW q \in Queries, Answer(q)
      PROVE  CauseInv'
  BY <1>8 DEF Answer, Leaves, Success
<1>9. ASSUME NEW q \in Queries, Raise(q)
      PROVE  CauseInv'
  BY <1>9 DEF Raise, Failure, AfterFailure
<1>10. ASSUME NEW q \in Queries, RaiseCut(q)
      PROVE  CauseInv'
  <2>1. q \in excused /\ excused \subseteq excused'
    BY <1>10 DEF RaiseCut, Leaves
  <2>2. \A h \in Queries : kind'[h] = "permanent" \/ item'[h] = "permanent" => h \in excused'
    BY <1>10, <2>1 DEF RaiseCut
  <2>3. ASSUME NEW h \in Queries, pc'[h] = "handler", connection' # Current(h)'
        PROVE  h \in excused'
    <3>1. h # q /\ pc[h] = "handler" /\ Current(h)' = Current(h)
      BY <1>10, <2>3 DEF RaiseCut
    <3>2. CASE connection = Current(h)
      BY <1>10, <3>1, <3>2 DEF RaiseCut, Leaves, Cut
    <3>. QED
      BY <2>1, <3>1, <3>2
  <2>. QED
    BY <2>2, <2>3
<1>11. ASSUME NEW q \in Queries, AttemptTimesOut(q)
      PROVE  CauseInv'
  BY <1>11 DEF AttemptTimesOut, Failure, AfterFailure
<1>12. ASSUME NEW q \in Queries, End(q)
      PROVE  CauseInv'
  BY <1>12 DEF End
<1>13. ASSUME NEW e \in Executions, AbandonedEnds(e)
      PROVE  CauseInv'
  BY <1>13 DEF AbandonedEnds, Leaves, Cut
<1>14. CASE Recover
  BY <1>14 DEF Recover
<1>15. CASE UNCHANGED vars
  BY <1>15 DEF vars
<1>. QED
  BY <1>1, <1>2, <1>3, <1>4, <1>5, <1>6, <1>7, <1>8, <1>9, <1>10, <1>11, <1>12, <1>13, <1>14, <1>15 DEF Next, Thread

-----------------------------------------------------------------------------
(***************************************************************************)
(* The queries keep what the harness relies on.                            *)
(***************************************************************************)
\* A query in the queue has no item; one whose thread closes, or is about to open the
\* breaker, knows how it ended.
OutcomeInv ==
  \A q \in Queries :
    /\ pc[q] = "queued" => item[q] = "none"
    /\ pc[q] \in {"opens", "closing"} => kind[q] \in Outcomes

\* A step keeps the outcomes.
LEMMA OutcomeStep ==
  ASSUME TypeInv, OutcomeInv, [Next]_vars
  PROVE  OutcomeInv'
<1>. USE DEF TypeInv, TypeOK, Outcomes, InThread, OutcomeInv, call, Goto, Ended
<1>1. ASSUME NEW q \in Queries, TimeOut(q)
      PROVE  OutcomeInv'
  BY <1>1 DEF TimeOut
<1>2. ASSUME NEW q \in Queries, Begin(q)
      PROVE  OutcomeInv'
  BY <1>2 DEF Begin
<1>3. ASSUME NEW q \in Queries, FirstRead(q)
      PROVE  OutcomeInv'
  BY <1>3 DEF FirstRead
<1>4. ASSUME NEW q \in Queries, SecondRead(q)
      PROVE  OutcomeInv'
  BY <1>4 DEF SecondRead
<1>5. ASSUME NEW q \in Queries, Opens(q)
      PROVE  OutcomeInv'
  BY <1>5 DEF Opens, AfterFailure
<1>6. ASSUME NEW q \in Queries, Wake(q)
      PROVE  OutcomeInv'
  BY <1>6 DEF Wake
<1>7. ASSUME NEW q \in Queries, Execute(q)
      PROVE  OutcomeInv'
  BY <1>7 DEF Execute
<1>8. ASSUME NEW q \in Queries, Answer(q)
      PROVE  OutcomeInv'
  BY <1>8 DEF Answer
<1>9. ASSUME NEW q \in Queries, Raise(q)
      PROVE  OutcomeInv'
  BY <1>9 DEF Raise, Failure, AfterFailure
<1>10. ASSUME NEW q \in Queries, RaiseCut(q)
      PROVE  OutcomeInv'
  BY <1>10 DEF RaiseCut
<1>11. ASSUME NEW q \in Queries, AttemptTimesOut(q)
      PROVE  OutcomeInv'
  BY <1>11 DEF AttemptTimesOut, Failure, AfterFailure
<1>12. ASSUME NEW q \in Queries, End(q)
      PROVE  OutcomeInv'
  BY <1>12 DEF End
<1>13. ASSUME NEW e \in Executions, AbandonedEnds(e)
      PROVE  OutcomeInv'
  BY <1>13 DEF AbandonedEnds
<1>14. CASE Recover
  BY <1>14 DEF Recover
<1>15. CASE UNCHANGED vars
  BY <1>15 DEF vars
<1>. QED
  BY <1>1, <1>2, <1>3, <1>4, <1>5, <1>6, <1>7, <1>8, <1>9, <1>10, <1>11, <1>12, <1>13, <1>14, <1>15 DEF Next, Thread

\* The queries that run are those whose thread is busy.
LEMMA BusyQueriesRun == Asked!Running = Busy
BY DEF Asked!Running, Busy, Stage, InThread

\* What the thread of a query does before it ends shows nothing of it: its place among
\* the stages stays the same.
LEMMA WithinTheThread ==
  ASSUME TypeInv, NEW q \in Queries,
         UNCHANGED item, pc[q] \in InThread, NEW where \in InThread, Goto(q, where)
  PROVE  UNCHANGED Asked!batch
<1>1. Stage' = Stage
  BY DEF Stage, Goto, InThread, TypeInv, TypeOK
<1>. QED
  BY <1>1 DEF Asked!batch

\* A step of the queries is a step of the batch, or none.
LEMMA BatchStep ==
  ASSUME TypeInv, OutcomeInv, [Next]_vars
  PROVE  [Asked!Next]_Asked!batch
<1>1. ASSUME NEW q \in Queries, TimeOut(q)
      PROVE  Asked!GiveUp(q)
  <2>1. Stage' = [Stage EXCEPT ![q] = IF @ = "waits" THEN "over" ELSE @]
    BY <1>1 DEF TimeOut, Stage, InThread, TypeInv, TypeOK
  <2>. QED
    BY <1>1, <2>1 DEF TimeOut, Asked!GiveUp
<1>2. ASSUME NEW q \in Queries, Begin(q)
      PROVE  Asked!Start(q)
  <2>1. Stage[q] = "waits" /\ Stage' = [Stage EXCEPT ![q] = "runs"]
    BY <1>2 DEF Begin, Goto, Stage, InThread, TypeInv, TypeOK
  <2>2. item[q] = "none" /\ UNCHANGED item
    BY <1>2 DEF Begin, OutcomeInv
  <2>3. Asked!Cardinality(Asked!Running) < Pool
    BY <1>2, BusyQueriesRun DEF Begin, Cardinality, Asked!Cardinality
  <2>. QED
    BY <2>1, <2>2, <2>3 DEF Asked!Start
<1>3. ASSUME NEW q \in Queries, End(q)
      PROVE  Asked!Finish(q)
  <2>1. Stage[q] = "runs" /\ Stage' = [Stage EXCEPT ![q] = "over"]
    BY <1>3 DEF End, Goto, Stage, InThread, TypeInv, TypeOK
  <2>2. kind[q] \in Outcomes
    BY <1>3 DEF End, OutcomeInv
  <2>. QED
    BY <1>3, <2>1, <2>2 DEF End, Asked!Finish
<1>4. ASSUME NEW q \in Queries, Thread(q), ~End(q)
      PROVE  UNCHANGED Asked!batch
  <2>1. UNCHANGED item /\ pc[q] \in InThread
    BY <1>4 DEF Thread, FirstRead, SecondRead, Opens, Wake, Execute, Answer, Raise, RaiseCut, AttemptTimesOut, InThread
  <2>2. \E where \in InThread : Goto(q, where)
    <3>1. AfterFailure(q) \in InThread /\ "opens" \in InThread
      BY DEF AfterFailure, InThread
    <3>2. CASE Opens(q)
      BY <3>1, <3>2 DEF Opens
    <3>3. CASE Raise(q)
      BY <3>1, <3>3 DEF Raise, Failure, InThread
    <3>4. CASE AttemptTimesOut(q)
      BY <3>1, <3>4 DEF AttemptTimesOut, Failure
    <3>5. CASE FirstRead(q) \/ SecondRead(q) \/ Wake(q)
      BY <3>5 DEF FirstRead, SecondRead, Wake, InThread
    <3>6. CASE Execute(q) \/ Answer(q) \/ RaiseCut(q)
      BY <3>6 DEF Execute, Answer, RaiseCut, InThread
    <3>. QED
      BY <1>4, <3>2, <3>3, <3>4, <3>5, <3>6 DEF Thread
  <2>. QED
    BY <2>1, <2>2, WithinTheThread
<1>5. ASSUME UNCHANGED call
      PROVE  UNCHANGED Asked!batch
  BY <1>5 DEF call, Asked!batch, Stage
<1>6. ASSUME NEW e \in Executions, AbandonedEnds(e)
      PROVE  UNCHANGED call
  BY <1>6 DEF AbandonedEnds
<1>7. CASE Recover
  BY <1>5, <1>7 DEF Recover
<1>8. CASE UNCHANGED vars
  BY <1>5, <1>8 DEF vars
<1>. QED
  BY <1>1, <1>2, <1>3, <1>4, <1>5, <1>6, <1>7, <1>8 DEF Next, Asked!Next

-----------------------------------------------------------------------------
(***************************************************************************)
(* What is left of a query.                                                *)
(***************************************************************************)
\* There is always something left of a query that has not ended, and never more than at
\* the start.
LEMMA QueryLeftIsBounded ==
  ASSUME TypeInv, NEW q \in Queries
  PROVE  QueryLeft(q) \in 0 .. 5 * MaxAttempts + 4
<1>1. /\ pc[q] \in Waiting \cup InThread \cup {"ended"}
      /\ attempts[q] \in 0..MaxAttempts
      /\ pc[q] \in {"start", "handler", "opens", "sleep"} => attempts[q] >= 1
  BY DEF TypeInv, TypeOK, CountInv
<1>. QED
  BY <1>1, ThreadAssumption DEF QueryLeft, Waiting, InThread

\* A step of a query leaves it less to do.
LEMMA QueryDecreases ==
  ASSUME TypeInv, NEW q \in Queries, TimeOut(q) \/ Begin(q) \/ Thread(q)
  PROVE  QueryLeft(q)' < QueryLeft(q)
<1>1. /\ pc[q] \in Waiting \cup InThread \cup {"ended"}
      /\ attempts[q] \in 0..MaxAttempts
      /\ pc[q] \in {"queued", "enter", "reread"} => attempts[q] = 0
      /\ pc[q] \in {"start", "handler", "opens", "sleep"} => attempts[q] >= 1
      /\ pc[q] = "sleep" => attempts[q] < MaxAttempts
  BY DEF TypeInv, TypeOK, CountInv
<1>2. q \in DOMAIN pc /\ q \in DOMAIN attempts /\ q \in DOMAIN item
  BY DEF TypeInv, TypeOK
<1>. USE ThreadAssumption DEF QueryLeft, InThread, Waiting, Goto, Attempt
<1>3. CASE TimeOut(q)
  BY <1>1, <1>2, <1>3 DEF TimeOut
<1>4. CASE Begin(q)
  BY <1>1, <1>2, <1>4 DEF Begin
<1>5. CASE FirstRead(q)
  BY <1>1, <1>2, <1>5 DEF FirstRead
<1>6. CASE SecondRead(q)
  BY <1>1, <1>2, <1>6 DEF SecondRead
<1>7. CASE Opens(q)
  BY <1>1, <1>2, <1>7 DEF Opens, AfterFailure
<1>8. CASE Wake(q)
  BY <1>1, <1>2, <1>8 DEF Wake
<1>9. CASE Execute(q)
  BY <1>1, <1>2, <1>9 DEF Execute
<1>10. CASE Answer(q)
  BY <1>1, <1>2, <1>10 DEF Answer
<1>11. CASE Raise(q)
  BY <1>1, <1>2, <1>11 DEF Raise, Failure, AfterFailure
<1>12. CASE RaiseCut(q)
  BY <1>1, <1>2, <1>12 DEF RaiseCut
<1>13. CASE AttemptTimesOut(q)
  BY <1>1, <1>2, <1>13 DEF AttemptTimesOut, Failure, AfterFailure
<1>14. CASE End(q)
  BY <1>1, <1>2, <1>14 DEF End
<1>. QED
  BY <1>3, <1>4, <1>5, <1>6, <1>7, <1>8, <1>9, <1>10, <1>11, <1>12, <1>13, <1>14 DEF Thread

\* A step of one query gives another nothing to do.
LEMMA OthersKeepTheirs ==
  ASSUME TypeInv, NEW q \in Queries, NEW h \in Queries \ {q},
         TimeOut(q) \/ Begin(q) \/ Thread(q)
  PROVE  QueryLeft(h)' = QueryLeft(h)
<1>1. item'[h] = item[h] /\ pc'[h] = pc[h] /\ attempts'[h] = attempts[h]
  <2>. USE DEF TypeInv, TypeOK, Goto, Attempt
  <2>1. CASE TimeOut(q) \/ Begin(q) \/ End(q)
    BY <2>1 DEF TimeOut, Begin, End
  <2>2. CASE FirstRead(q) \/ SecondRead(q) \/ Wake(q) \/ Execute(q)
    BY <2>2 DEF FirstRead, SecondRead, Wake, Execute
  <2>3. CASE Answer(q) \/ RaiseCut(q)
    BY <2>3 DEF Answer, RaiseCut
  <2>4. CASE Opens(q) \/ Raise(q) \/ AttemptTimesOut(q)
    BY <2>4 DEF Opens, Raise, AttemptTimesOut, Failure
  <2>. QED
    BY <2>1, <2>2, <2>3, <2>4 DEF Thread
<1>. QED
  BY <1>1 DEF QueryLeft

\* A step gives no query more to do, and one of its own less.
LEMMA NothingIsAdded ==
  ASSUME TypeInv, [Next]_vars, NEW h \in Queries, QueryLeft(h)' \in Int
  PROVE  /\ QueryLeft(h)' <= QueryLeft(h)
         /\ TimeOut(h) \/ Begin(h) \/ Thread(h) => QueryLeft(h)' < QueryLeft(h)
<1>1. QueryLeft(h) \in Int
  BY QueryLeftIsBounded, ThreadAssumption
<1>2. ASSUME TimeOut(h) \/ Begin(h) \/ Thread(h)
      PROVE  QueryLeft(h)' < QueryLeft(h)
  BY <1>2, QueryDecreases
<1>3. ASSUME NEW q \in Queries \ {h}, TimeOut(q) \/ Begin(q) \/ Thread(q)
      PROVE  QueryLeft(h)' = QueryLeft(h)
  BY <1>3, OthersKeepTheirs
<1>4. ASSUME UNCHANGED call
      PROVE  QueryLeft(h)' = QueryLeft(h)
  BY <1>4 DEF call, QueryLeft
<1>5. \/ \E q \in Queries : TimeOut(q) \/ Begin(q) \/ Thread(q)
      \/ UNCHANGED call
  BY DEF Next, AbandonedEnds, Recover, vars
<1>6. QueryLeft(h)' = QueryLeft(h) \/ QueryLeft(h)' < QueryLeft(h)
  BY <1>2, <1>3, <1>4, <1>5
<1>7. QueryLeft(h)' <= QueryLeft(h)
  BY <1>1, <1>6
<1>. QED
  BY <1>2, <1>7

-----------------------------------------------------------------------------
\* The typing that the other invariants rest on holds in every reachable state.
LEMMA TypeAlways == Spec => []TypeInv
<1>1. Init => TypeInv
  BY InitInv
<1>2. TypeInv /\ [Next]_vars => TypeInv'
  BY TypeStep, CountStep, ThreadStep DEF TypeInv
<1>. QED
  BY <1>1, <1>2, PTL DEF Spec

\* Types, and every handler that is awaited has its thread (ToolRuntime.execute).
THEOREM TypeCorrect == Spec => []TypeOK
<1>1. TypeInv => TypeOK
  BY DEF TypeInv
<1>. QED
  BY <1>1, TypeAlways, PTL

\* Whatever the interleaving of the threads that share a breaker, it disagrees with its
\* count only by the one race of `failure` with `success` (CircuitBreaker).
THEOREM BreakerRacesOnce == Spec => []BreakerRace
<1>1. Init => BreakerRace
  BY InitInv
<1>2. TypeInv /\ BreakerRace /\ [Next]_vars => BreakerRace'
  BY BreakerStep
<1>. QED
  BY <1>1, <1>2, TypeAlways, PTL DEF Spec

\* A failure the harness will not retry has a cause that is not left behind by a query
\* that has ended (execute_step, ClickHouseClient.execute).
THEOREM PermanentIsCaused == Spec => []PermanentHasCause
<1>1. Init => CauseInv
  BY InitInv
<1>2. TypeInv /\ CauseInv /\ [Next]_vars => CauseInv'
  BY CauseStep
<1>3. CauseInv => PermanentHasCause
  BY DEF CauseInv, PermanentHasCause
<1>. QED
  BY <1>1, <1>2, <1>3, TypeAlways, PTL DEF Spec

\* The threads of the pool, whatever they are stopped by and however late they end, are a
\* batch to the harness: the first item of a query is final, Pool queries run at a time,
\* and one that timed out in the queue never does (execute_step).
THEOREM BatchIsKept == Spec => KeepsBatch
<1>1. Init => OutcomeInv /\ Asked!Init
  BY DEF Init, OutcomeInv, Asked!Init, Stage, InThread
<1>2. TypeInv /\ OutcomeInv /\ [Next]_vars => OutcomeInv'
  BY OutcomeStep
<1>3. TypeInv /\ OutcomeInv /\ [Next]_vars => [Asked!Next]_Asked!batch
  BY BatchStep
<1>. QED
  BY <1>1, <1>2, <1>3, TypeAlways, PTL DEF Spec, KeepsBatch, Asked!Spec

\* A query takes no more than 5 * MaxAttempts + 4 steps, timeout and retries and all, and
\* no other query can make it take more (execute_step, ToolRuntime.execute).
THEOREM QueriesAreBounded == Spec => BoundedQueries
<1>. DEFINE Bounded == \A q \in Queries : QueryLeft(q) \in 0 .. 5 * MaxAttempts + 4
            Less    == \A q \in Queries :
                         /\ QueryLeft(q)' <= QueryLeft(q)
                         /\ TimeOut(q) \/ Begin(q) \/ Thread(q) => QueryLeft(q)' < QueryLeft(q)
<1>1. TypeInv => Bounded
  BY QueryLeftIsBounded
<1>2. TypeInv /\ Bounded' /\ [Next]_vars => Less
  BY NothingIsAdded, ThreadAssumption
<1>3. BoundedQueries <=> []Bounded /\ [][Less]_vars
  BY DEF BoundedQueries
<1>. HIDE DEF Bounded, Less
<1>. QED
  BY <1>1, <1>2, <1>3, TypeAlways, PTL DEF Spec

=============================================================================
