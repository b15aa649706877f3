-------------------------- MODULE OncallAlertProofs --------------------------
(***************************************************************************)
(* Proofs about OncallAlert: every invariant of the alert path, for any    *)
(* number of orders, deliveries, cards and replicas.                       *)
(***************************************************************************)
EXTENDS OncallAlert, TLAPS

(***************************************************************************)
(* Rows of alert_task: what an insert and the update leave of them.        *)
(***************************************************************************)
\* Every row of old is in new with its columns, is_callback aside, which is
\* never taken back.
Extends(new, old) ==
  \A i \in DOMAIN old :
    /\ i \in DOMAIN new
    /\ new[i].OncallOriginID = old[i].OncallOriginID
    /\ new[i].Level = old[i].Level
    /\ new[i].CrossOncallFlowID = old[i].CrossOncallFlowID
    /\ new[i].RootField = old[i].RootField
    /\ new[i].by = old[i].by
    /\ old[i].IsCallback = 1 => new[i].IsCallback = 1

\* A level that is not empty is one of the levels.
LEMMA LevelTyped ==
  ASSUME NEW flow \in OncallFlow, GetLevel(flow) # ""
  PROVE  GetLevel(flow) \in Levels
BY DEF OncallFlow, GetLevel, Optional

\* The business of any tenant is one of the four.
LEMMA RootFieldTyped == \A t : GetRootFieldById(t) \in RootFields
<1> SUFFICES ASSUME NEW t PROVE GetRootFieldById(t) \in RootFields
  OBVIOUS
<1>. QED
  BY DEF GetRootFieldById, RootFields, IdToField

\* The row of a delivery has the columns of its order.
LEMMA NewTaskTyped ==
  ASSUME NEW flow \in OncallFlow, NEW d \in Deliveries, GetLevel(flow) \in Levels
  PROVE  NewAlertTask(flow, d) \in AlertTask
<1>1. GetRootFieldById(flow.TenantId) \in RootFields
  BY RootFieldTyped
<1>. QED
  BY <1>1 DEF OncallFlow, NewAlertTask, AlertTask

\* What a table keeps when nothing is done to it.
LEMMA ExtendsItself == \A rows : Extends(rows, rows)
BY DEF Extends

\* A table has a length.
LEMMA LenTyped == \A rows \in Seq(AlertTask) : Len(rows) \in Nat
OBVIOUS

\* The update keeps the rows, and marks those of one order and level.
LEMMA UpdateMarks ==
  ASSUME NEW rows \in AlertTasks, NEW order, NEW level
  PROVE  LET new == UpdateIsCallbackTrue(rows, order, level)
         IN /\ new \in AlertTasks
            /\ DOMAIN new = DOMAIN rows /\ Len(new) = Len(rows)
            /\ Extends(new, rows)
            /\ \A i \in DOMAIN rows :
                 new[i].IsCallback = 1 =>
                   rows[i].IsCallback = 1 \/ IsOf(rows[i], order, level)
<1> DEFINE new == UpdateIsCallbackTrue(rows, order, level)
<1>1. /\ DOMAIN rows = 1..Len(rows) /\ Len(rows) \in Nat
      /\ \A i \in DOMAIN rows : rows[i] \in AlertTask
  BY DEF AlertTasks
<1>2. DOMAIN new = 1..Len(rows)
  BY <1>1 DEF UpdateIsCallbackTrue
<1>3. ASSUME NEW i \in 1..Len(rows)
      PROVE  /\ new[i] \in AlertTask
             /\ new[i].OncallOriginID = rows[i].OncallOriginID
             /\ new[i].Level = rows[i].Level
             /\ new[i].CrossOncallFlowID = rows[i].CrossOncallFlowID
             /\ new[i].RootField = rows[i].RootField
             /\ new[i].by = rows[i].by
             /\ rows[i].IsCallback = 1 => new[i].IsCallback = 1
             /\ new[i].IsCallback = 1 =>
                  rows[i].IsCallback = 1 \/ IsOf(rows[i], order, level)
  <2>1. rows[i] \in AlertTask
    BY <1>1
  <2>2. new[i] = IF IsOf(rows[i], order, level)
                 THEN [rows[i] EXCEPT !.IsCallback = 1] ELSE rows[i]
    BY <1>1 DEF UpdateIsCallbackTrue
  <2>. HIDE DEF new
  <2>. QED
    BY <2>1, <2>2 DEF AlertTask
<1>4. new \in AlertTasks /\ Len(new) = Len(rows)
  <2>1. new = [i \in 1..Len(rows) |-> new[i]]
    BY <1>1 DEF UpdateIsCallbackTrue
  <2>. HIDE DEF new
  <2>. QED
    BY <1>1, <1>2, <1>3, <2>1 DEF AlertTasks
<1>. HIDE DEF new
<1>5. Extends(new, rows)
  BY <1>1, <1>2, <1>3 DEF Extends
<1>6. /\ new \in AlertTasks
      /\ DOMAIN new = DOMAIN rows /\ Len(new) = Len(rows)
      /\ Extends(new, rows)
      /\ \A i \in DOMAIN rows :
           new[i].IsCallback = 1 =>
             rows[i].IsCallback = 1 \/ IsOf(rows[i], order, level)
  BY <1>1, <1>2, <1>3, <1>4, <1>5
<1>. QED
  BY <1>6 DEF new

\* An insert keeps the rows and adds one at the end.
LEMMA InsertAdds ==
  ASSUME NEW rows \in AlertTasks, NEW row \in AlertTask
  PROVE  LET new == Insert(rows, row)
         IN /\ new \in AlertTasks
            /\ Len(new) = Len(rows) + 1 /\ DOMAIN new = 1..(Len(rows) + 1)
            /\ DOMAIN rows = 1..Len(rows) /\ Len(rows) \in Nat
            /\ \A i \in DOMAIN rows : new[i] = rows[i]
            /\ new[Len(rows) + 1] = row
            /\ Extends(new, rows)
BY DEF AlertTasks, Insert, Extends

(***************************************************************************)
(* Typing.  TypeOK is not inductive: a statement of a delivery needs its   *)
(* body, and the row it inserts a level; a card needs the id of its tags.  *)
(***************************************************************************)
Alerting == {"need", "count", "insert", "crossed"}

CallsAreTyped ==
  /\ \A d \in Deliveries :
       /\ pc[d] \in Handling => wired /\ request[d] \in Requests
       /\ pc[d] \in Alerting => Level(d) # ""
  /\ \A c \in Cards : cardPc[c] \in {"read", "mark"} => NamesOrder(tags[c])

TypeInv == TypeOK /\ CallsAreTyped

\* A delivery that is handled has an order.
LEMMA FlowTyped ==
  ASSUME TypeInv, NEW d \in Deliveries, pc[d] \in Handling
  PROVE  /\ request[d] \in OncallWorkOrderCallbackRequest
         /\ Flow(d) \in OncallFlow /\ Order(d) \in Orders
BY RequestAssumption
   DEF TypeInv, CallsAreTyped, OncallWorkOrderCallbackRequest, Flow, Order, OncallFlow

\* The row it may insert is one of alert_task.
LEMMA NewRowTyped ==
  ASSUME TypeInv, NEW d \in Deliveries, pc[d] \in Alerting
  PROVE  NewAlertTask(Flow(d), d) \in AlertTask
<1>1. Flow(d) \in OncallFlow /\ GetLevel(Flow(d)) # ""
  BY FlowTyped DEF TypeInv, CallsAreTyped, Alerting, Handling, Level
<1>. QED
  BY <1>1, LevelTyped, NewTaskTyped

\* The initial state has the types.
LEMMA InitType == Init => TypeInv
<1> SUFFICES ASSUME Init PROVE TypeInv
  OBVIOUS
<1> USE DEF Init, Optional
<1>1. replica \in [Replicas -> Snapshot] /\ alertTask \in AlertTasks
  BY DEF Snapshot, OncallOriginRecords, AlertTasks
<1>2. TypeOK
  BY <1>1 DEF TypeOK, OncallOriginRecords, OncallListenAlertTasks, AlertContext
<1>3. CallsAreTyped
  BY DEF CallsAreTyped, Handling, Alerting
<1>. QED
  BY <1>2, <1>3 DEF TypeInv

\* A step of a delivery keeps the types.
LEMMA DeliveryType ==
  ASSUME TypeInv, NEW d \in Deliveries, Handle(d)
  PROVE  TypeInv'
<1> USE DEF TypeInv, TypeOK, CallsAreTyped, tables, call, cards, history, Goto,
            Handling, Alerting, Ended, OncallWorkOrderCallbackResponse
<1>1. CASE BadRequest(d)
  BY <1>1 DEF BadRequest, Level, Flow
<1>2. CASE Receive(d)
  <2>1. PICK q \in Requests :
          /\ request' = [request EXCEPT ![d] = q]
          /\ known' = [known EXCEPT ![d] = CalledBackEverywhere(q.OncallFlow)]
    BY <1>2 DEF Receive
  <2>2. CalledBackEverywhere(q.OncallFlow) \in BOOLEAN
    BY DEF CalledBackEverywhere
  <2>3. \E where \in {"origin", "answered", "failed"} :
          pc' = [pc EXCEPT ![d] = where] /\ (where = "origin" => wired)
    BY <1>2 DEF Receive, Answer
  <2>4. CallsAreTyped'
    BY <1>2, <2>1, <2>3 DEF Receive, Level, Flow, Optional
  <2>5. pc' \in [Deliveries -> {"idle"} \cup Handling \cup Ended]
    BY <2>3
  <2>6. request' \in [Deliveries -> Optional(Requests)] /\ known' \in [Deliveries -> BOOLEAN]
    BY <2>1, <2>2 DEF Optional
  <2>7. after' \in [Deliveries -> SUBSET Deliveries]
    BY <1>2 DEF Receive
  <2>8. TypeOK'
    BY <1>2, <2>5, <2>6, <2>7 DEF Receive
  <2>. QED
    BY <2>4, <2>8
<1>3. CASE SaveOrigin(d)
  <2>1. Order(d) \in Orders /\ Flow(d) \in OncallFlow
    BY <1>3, FlowTyped DEF SaveOrigin
  <2>2. CopyOriginalOncallRecord(Flow(d), d) \in OncallOriginRecord
    BY <2>1 DEF CopyOriginalOncallRecord, OncallOriginRecord, OncallFlow
  <2>3. origin' \in OncallOriginRecords
    BY <1>3, <2>1, <2>2 DEF SaveOrigin, Save, OncallOriginRecords, Optional
  <2>4. \E where \in {"panic", "listen", "need", "answered", "failed"} :
          pc' = [pc EXCEPT ![d] = where] /\ (where = "need" => Level(d) # "")
    BY <1>3 DEF SaveOrigin, AfterOrigin, Answer, Level
  <2>. QED
    BY <1>3, <2>3, <2>4 DEF SaveOrigin, Level, Flow
<1>4. CASE Need(d)
  <2>1. \E where \in {"count", "listen"} : pc' = [pc EXCEPT ![d] = where]
    BY <1>4 DEF Need
  <2>. QED
    BY <1>4, <2>1 DEF Need, Level, Flow
<1>5. CASE CountTask(d)
  <2>1. \E where \in {"insert", "crossed"} : pc' = [pc EXCEPT ![d] = where]
    BY <1>5 DEF CountTask
  <2>2. Len(alertTask) \in Nat
    <3>1. alertTask \in Seq(AlertTask)
      BY DEF AlertTasks
    <3>. QED
      BY <3>1, LenTyped
  <2>. QED
    BY <1>5, <2>1, <2>2 DEF CountTask, Level, Flow
<1>6. CASE InsertTask(d)
  <2>1. NewAlertTask(Flow(d), d) \in AlertTask
    BY <1>6, NewRowTyped DEF InsertTask
  <2>2. Insert(alertTask, NewAlertTask(Flow(d), d)) \in AlertTasks
    BY <2>1, InsertAdds
  <2>3. alertTask' \in AlertTasks
    BY <1>6, <2>2 DEF InsertTask
  <2>. QED
    BY <1>6, <2>3 DEF InsertTask, Level, Flow
<1>7. CASE NoCrossFlow(d)
  BY <1>7 DEF NoCrossFlow, Level, Flow
<1>8. CASE Emit(d)
  <2>1. emitted' \in [Deliveries -> BOOLEAN]
    BY <1>8 DEF Emit, HasCallback
  <2>. QED
    BY <1>8, <2>1 DEF Emit, Level, Flow
<1>9. CASE SaveListen(d)
  <2>1. Order(d) \in Orders /\ request[d] \in OncallWorkOrderCallbackRequest
    BY <1>9, FlowTyped DEF SaveListen
  <2>2. NewListenTask(request[d].Action, d) \in OncallListenAlertTask
    BY <2>1 DEF NewListenTask, OncallListenAlertTask, StatusOf,
                OncallWorkOrderCallbackRequest
  <2>3. listen' \in OncallListenAlertTasks
    BY <1>9, <2>1, <2>2 DEF SaveListen, Save, OncallListenAlertTasks, Optional
  <2>4. \E where \in {"answered", "failed"} : pc' = [pc EXCEPT ![d] = where]
    BY <1>9 DEF SaveListen, Answer
  <2>. QED
    BY <1>9, <2>3, <2>4 DEF SaveListen, Level, Flow
<1>10. CASE Lose(d)
  BY <1>10 DEF Lose, Level, Flow
<1>. QED
  BY <1>1, <1>2, <1>3, <1>4, <1>5, <1>6, <1>7, <1>8, <1>9, <1>10 DEF Handle

\* A step of a card keeps the types.
LEMMA CardType ==
  ASSUME TypeInv, NEW c \in Cards, HandleCard(c)
  PROVE  TypeInv'
<1> USE DEF TypeInv, TypeOK, CallsAreTyped, tables, call, history, CardGoto,
            CardEnded, ArgosTagValsCallBackResponse
<1>1. CASE BadCardRequest(c)
  BY <1>1 DEF BadCardRequest, Level, Flow
<1>2. CASE AskCard(c)
  <2>1. PICK q \in CardRequests :
          /\ tags' = [tags EXCEPT ![c] = q.AlertContext]
          /\ \E where \in {"panic", "read", "general", "failed"} :
               /\ cardPc' = [cardPc EXCEPT ![c] = where]
               /\ where = "read" => NamesOrder(q.AlertContext)
    BY <1>2 DEF AskCard
  <2>2. q.AlertContext \in AlertContext
    BY RequestAssumption DEF ArgosTagValsCallBackRequest
  <2>3. /\ tags' \in [Cards -> AlertContext]
        /\ cardPc' \in [Cards -> {"idle", "read", "mark"} \cup CardEnded]
        /\ \A e \in Cards : cardPc'[e] \in {"read", "mark"} => NamesOrder(tags'[e])
    BY <2>1, <2>2
  <2>. QED
    BY <1>2, <2>3 DEF AskCard, Level, Flow
<1>3. CASE ReadRecord(c)
  <2>1. \E where \in {"mark", "panic", "general", "failed"} :
          cardPc' = [cardPc EXCEPT ![c] = where]
    BY <1>3 DEF ReadRecord
  <2>. QED
    BY <1>3, <2>1 DEF ReadRecord, Level, Flow
<1>4. CASE MarkCalledBack(c)
  <2>1. alertTask' \in AlertTasks
    <3>1. UpdateIsCallbackTrue(alertTask, tags[c].originalOncallId, TagLevel(c))
            \in AlertTasks
      BY UpdateMarks
    <3>. QED
      BY <1>4, <3>1 DEF MarkCalledBack
  <2>2. \E where \in {"level", "failed", "lost"} :
          cardPc' = [cardPc EXCEPT ![c] = where]
    BY <1>4 DEF MarkCalledBack
  <2>. QED
    BY <1>4, <2>1, <2>2 DEF MarkCalledBack, Level, Flow
<1>5. CASE LoseCard(c)
  BY <1>5 DEF LoseCard, Level, Flow
<1>. QED
  BY <1>1, <1>2, <1>3, <1>4, <1>5 DEF HandleCard

\* Every step keeps the types.
LEMMA NextType == TypeInv /\ [Next]_vars => TypeInv'
<1> SUFFICES ASSUME TypeInv, [Next]_vars PROVE TypeInv'
  OBVIOUS
<1>1. ASSUME NEW r \in Replicas, Replicate(r) PROVE TypeInv'
  <2>1. [origin |-> origin, alertTask |-> alertTask] \in Snapshot
    BY DEF TypeInv, TypeOK, Snapshot
  <2>. QED
    BY <1>1, <2>1 DEF TypeInv, TypeOK, CallsAreTyped, Replicate, tables, call, cards,
                      history, Level, Flow
<1>2. CASE UNCHANGED vars
  BY <1>2 DEF TypeInv, TypeOK, CallsAreTyped, vars, tables, call, cards, history,
              Level, Flow
<1>. QED
  BY <1>1, <1>2, DeliveryType, CardType DEF Next

\* Every state of the alert path is well typed, for any bodies the platform and
\* Argos post.
THEOREM TypeCorrect == Spec => []TypeOK
<1>1. TypeInv => TypeOK
  BY DEF TypeInv
<1>. QED
  BY <1>1, InitType, NextType, PTL DEF Spec

-----------------------------------------------------------------------------
(***************************************************************************)
(* What a step is to one delivery and to the tables: the invariants below  *)
(* follow from these lemmas and from the delivery's own step.              *)
(***************************************************************************)
Same(d) ==
  /\ pc'[d] = pc[d] /\ request'[d] = request[d] /\ emitted'[d] = emitted[d]
  /\ after'[d] = after[d] /\ known'[d] = known[d]
  /\ unread'[d] = unread[d] /\ counted'[d] = counted[d]

\* A step of a delivery leaves the others alone.
LEMMA OthersStay ==
  ASSUME TypeInv, NEW d \in Deliveries, NEW e \in Deliveries, e # d, Handle(e)
  PROVE  Same(d)
<1> USE DEF TypeInv, TypeOK, tables, call, cards, history, Goto, Same
<1>1. CASE BadRequest(e)
  BY <1>1 DEF BadRequest
<1>2. CASE Receive(e)
  <2>1. (\E where : pc' = [pc EXCEPT ![e] = where])
    BY <1>2 DEF Receive, Answer
  <2>2. PICK q : request' = [request EXCEPT ![e] = q]
                 /\ known' = [known EXCEPT ![e] = CalledBackEverywhere(q.OncallFlow)]
    BY <1>2 DEF Receive
  <2>. QED
    BY <1>2, <2>1, <2>2 DEF Receive
<1>3. CASE SaveOrigin(e)
  <2>1. (\E where : pc' = [pc EXCEPT ![e] = where])
    BY <1>3 DEF SaveOrigin, Answer
  <2>. QED
    BY <1>3, <2>1 DEF SaveOrigin
<1>4. CASE Need(e)
  BY <1>4 DEF Need
<1>5. CASE CountTask(e)
  BY <1>5 DEF CountTask
<1>6. CASE InsertTask(e)
  BY <1>6 DEF InsertTask
<1>7. CASE NoCrossFlow(e)
  BY <1>7 DEF NoCrossFlow
<1>8. CASE Emit(e)
  BY <1>8 DEF Emit
<1>9. CASE SaveListen(e)
  <2>1. (\E where : pc' = [pc EXCEPT ![e] = where])
    BY <1>9 DEF SaveListen, Answer
  <2>. QED
    BY <1>9, <2>1 DEF SaveListen
<1>10. CASE Lose(e)
  BY <1>10 DEF Lose
<1>. QED
  BY <1>1, <1>2, <1>3, <1>4, <1>5, <1>6, <1>7, <1>8, <1>9, <1>10 DEF Handle

\* A step is one of the delivery or leaves it alone.
LEMMA OneMoves ==
  ASSUME TypeInv, [Next]_vars, NEW d \in Deliveries
  PROVE  Handle(d) \/ Same(d)
<1> USE DEF tables, call, cards, history, Same
<1>1. ASSUME NEW e \in Deliveries, e # d, Handle(e) PROVE Same(d)
  BY <1>1, OthersStay
<1>2. ASSUME NEW c \in Cards, HandleCard(c) PROVE Same(d)
  BY <1>2 DEF HandleCard, BadCardRequest, AskCard, ReadRecord, MarkCalledBack, LoseCard
<1>3. ASSUME NEW r \in Replicas, Replicate(r) PROVE Same(d)
  BY <1>3 DEF Replicate
<1>4. CASE UNCHANGED vars
  BY <1>4 DEF vars
<1>. QED
  BY <1>1, <1>2, <1>3, <1>4 DEF Next

Inserted(d) == alertTask' = Insert(alertTask, NewAlertTask(Flow(d), d))

Marked(c) ==
  alertTask' = UpdateIsCallbackTrue(alertTask, tags[c].originalOncallId, TagLevel(c))

\* A step leaves alert_task alone, inserts the row of a delivery or marks rows.
LEMMA RowsStep ==
  ASSUME TypeInv, [Next]_vars
  PROVE  \/ alertTask' = alertTask
         \/ \E d \in Deliveries : InsertTask(d) /\ Inserted(d)
         \/ \E c \in Cards : MarkCalledBack(c) /\ Marked(c)
<1> USE DEF tables, call, cards, history, Inserted, Marked
<1>1. ASSUME NEW d \in Deliveries, Handle(d)
      PROVE  alertTask' = alertTask \/ (InsertTask(d) /\ Inserted(d))
  <2>1. CASE InsertTask(d)
    BY <2>1 DEF InsertTask
  <2>2. CASE ~InsertTask(d)
    BY <1>1, <2>2 DEF Handle, BadRequest, Receive, SaveOrigin, Need, CountTask,
                      NoCrossFlow, Emit, SaveListen, Lose
  <2>. QED
    BY <2>1, <2>2
<1>2. ASSUME NEW c \in Cards, HandleCard(c)
      PROVE  alertTask' = alertTask \/ (MarkCalledBack(c) /\ Marked(c))
  <2>1. CASE MarkCalledBack(c)
    BY <2>1 DEF MarkCalledBack
  <2>2. CASE ~MarkCalledBack(c)
    BY <1>2, <2>2 DEF HandleCard, BadCardRequest, AskCard, ReadRecord, LoseCard
  <2>. QED
    BY <2>1, <2>2
<1>3. ASSUME NEW r \in Replicas, Replicate(r) PROVE alertTask' = alertTask
  BY <1>3 DEF Replicate
<1>4. CASE UNCHANGED vars
  BY <1>4 DEF vars
<1>. QED
  BY <1>1, <1>2, <1>3, <1>4 DEF Next

\* No row is lost; a row that is new is the one a delivery inserts; no column but
\* is_callback changes.
LEMMA RowsGrow ==
  ASSUME TypeInv, [Next]_vars
  PROVE  /\ Extends(alertTask', alertTask)
         /\ Len(alertTask) \in Nat /\ Len(alertTask') \in Nat
         /\ Len(alertTask) <= Len(alertTask')
         /\ DOMAIN alertTask = 1..Len(alertTask)
         /\ \A i \in DOMAIN alertTask' : i \notin DOMAIN alertTask =>
              /\ i = Len(alertTask) + 1
              /\ \E d \in Deliveries :
                   InsertTask(d) /\ alertTask'[i] = NewAlertTask(Flow(d), d)
<1>1. alertTask \in AlertTasks
  BY DEF TypeInv, TypeOK
<1>2. DOMAIN alertTask = 1..Len(alertTask) /\ Len(alertTask) \in Nat
  BY <1>1 DEF AlertTasks
<1>3. CASE alertTask' = alertTask
  BY <1>2, <1>3, ExtendsItself
<1>4. ASSUME NEW d \in Deliveries, InsertTask(d), Inserted(d)
      PROVE  /\ Extends(alertTask', alertTask)
             /\ Len(alertTask') = Len(alertTask) + 1
             /\ DOMAIN alertTask' = 1..(Len(alertTask) + 1)
             /\ alertTask'[Len(alertTask) + 1] = NewAlertTask(Flow(d), d)
  <2>1. NewAlertTask(Flow(d), d) \in AlertTask
    BY <1>4, NewRowTyped DEF InsertTask, Alerting
  <2>. QED
    BY <1>1, <1>4, <2>1, InsertAdds DEF Inserted
<1>5. ASSUME NEW c \in Cards, MarkCalledBack(c), Marked(c)
      PROVE  /\ Extends(alertTask', alertTask) /\ Len(alertTask') = Len(alertTask)
             /\ DOMAIN alertTask' = DOMAIN alertTask
  <2>1. /\ Extends(UpdateIsCallbackTrue(alertTask, tags[c].originalOncallId, TagLevel(c)),
                  alertTask)
        /\ Len(UpdateIsCallbackTrue(alertTask, tags[c].originalOncallId, TagLevel(c)))
             = Len(alertTask)
        /\ DOMAIN UpdateIsCallbackTrue(alertTask, tags[c].originalOncallId, TagLevel(c))
             = DOMAIN alertTask
    BY <1>1, UpdateMarks
  <2>. QED
    BY <1>5, <2>1 DEF Marked
<1>6. CASE \E d \in Deliveries : InsertTask(d) /\ Inserted(d)
  <2>1. PICK d \in Deliveries : InsertTask(d) /\ Inserted(d)
    BY <1>6
  <2>. QED
    BY <1>2, <1>4, <2>1
<1>7. CASE \E c \in Cards : MarkCalledBack(c) /\ Marked(c)
  BY <1>2, <1>5, <1>7
<1>. QED
  BY <1>3, <1>6, <1>7, RowsStep

-----------------------------------------------------------------------------
(***************************************************************************)
(* DuplicateMeansRace.  A delivery about to insert has counted no row of   *)
(* its order and level; whoever has a row has left its count behind.       *)
(***************************************************************************)
PastInsert == {"crossed", "listen"} \cup Ended

RaceInv ==
  /\ \A d \in Deliveries : counted[d] <= Len(alertTask)
  /\ \A i \in DOMAIN alertTask :
       alertTask[i].by \in Deliveries /\ pc[alertTask[i].by] \in PastInsert
  /\ \A d \in Deliveries : pc[d] = "insert" =>
       \A i \in DOMAIN alertTask : IsOf(alertTask[i], Order(d), Level(d)) => counted[d] < i
  /\ DuplicateMeansRace

\* The only step of a delivery that counts leads to its insert, if at all; past it
\* nothing returns.
LEMMA CountStep ==
  ASSUME TypeInv, NEW d \in Deliveries, Handle(d)
  PROVE  /\ pc[d] \in PastInsert => pc'[d] \in PastInsert /\ counted'[d] = counted[d]
         /\ pc[d] = "insert" => counted'[d] = counted[d] /\ pc'[d] # "insert"
         /\ \/ counted'[d] = counted[d] /\ pc'[d] # "insert"
            \/ /\ counted'[d] = Len(alertTask) /\ alertTask' = alertTask
               /\ request' = request
               /\ pc'[d] = "insert" =>
                    Counted(alertTask, Order(d), Level(d), 99) = {}
<1> USE DEF TypeInv, TypeOK, PastInsert, Ended, OncallWorkOrderCallbackResponse,
            tables, call, cards, history, Goto
<1>1. CASE BadRequest(d)
  BY <1>1 DEF BadRequest
<1>2. CASE Receive(d)
  BY <1>2 DEF Receive, Answer
<1>3. CASE SaveOrigin(d)
  <2>1. \E where \in {"panic", "listen", "need", "answered", "failed"} :
          pc' = [pc EXCEPT ![d] = where]
    BY <1>3 DEF SaveOrigin, AfterOrigin, Answer
  <2>. QED
    BY <1>3, <2>1 DEF SaveOrigin
<1>4. CASE Need(d)
  BY <1>4 DEF Need
<1>5. CASE CountTask(d)
  BY <1>5 DEF CountTask
<1>6. CASE InsertTask(d)
  BY <1>6 DEF InsertTask
<1>7. CASE NoCrossFlow(d)
  BY <1>7 DEF NoCrossFlow
<1>8. CASE Emit(d)
  BY <1>8 DEF Emit
<1>9. CASE SaveListen(d)
  BY <1>9 DEF SaveListen, Answer
<1>10. CASE Lose(d)
  BY <1>10 DEF Lose, Handling
<1>. QED
  BY <1>1, <1>2, <1>3, <1>4, <1>5, <1>6, <1>7, <1>8, <1>9, <1>10 DEF Handle

\* Nothing is counted at the start.
LEMMA InitRace == Init => RaceInv
BY DEF Init, RaceInv, DuplicateMeansRace

\* Every step keeps the counts below the rows they have not seen.
LEMMA NextRace == TypeInv /\ RaceInv /\ [Next]_vars => RaceInv'
<1> SUFFICES ASSUME TypeInv, RaceInv, [Next]_vars PROVE RaceInv'
  OBVIOUS
<1>1. /\ Extends(alertTask', alertTask)
      /\ Len(alertTask) \in Nat /\ Len(alertTask') \in Nat
      /\ Len(alertTask) <= Len(alertTask')
      /\ DOMAIN alertTask = 1..Len(alertTask)
      /\ \A i \in DOMAIN alertTask' : i \notin DOMAIN alertTask =>
           /\ i = Len(alertTask) + 1
           /\ \E d \in Deliveries :
                InsertTask(d) /\ alertTask'[i] = NewAlertTask(Flow(d), d)
  BY RowsGrow
<1>2. \A d \in Deliveries : Handle(d) \/ Same(d)
  BY OneMoves
<1>3. \A d \in Deliveries : counted[d] \in Nat
  BY DEF TypeInv, TypeOK
<1>4. ASSUME NEW d \in Deliveries PROVE counted'[d] <= Len(alertTask')
  <2>1. counted[d] <= Len(alertTask)
    BY DEF RaceInv
  <2>2. CASE Same(d)
    BY <1>1, <1>3, <2>1, <2>2 DEF Same
  <2>3. CASE Handle(d)
    <3>1. counted'[d] = counted[d] \/ (counted'[d] = Len(alertTask) /\ alertTask' = alertTask)
      BY <2>3, CountStep
    <3>. QED
      BY <1>1, <1>3, <2>1, <3>1
  <2>. QED
    BY <1>2, <2>2, <2>3
<1>5. ASSUME NEW d \in Deliveries, pc[d] \in PastInsert
      PROVE  pc'[d] \in PastInsert /\ counted'[d] = counted[d]
  BY <1>2, <1>5, CountStep DEF Same
<1>6. ASSUME NEW i \in DOMAIN alertTask', i \notin DOMAIN alertTask
      PROVE  /\ i = Len(alertTask) + 1
             /\ alertTask'[i].by \in Deliveries
             /\ pc[alertTask'[i].by] = "insert"
             /\ pc'[alertTask'[i].by] = "crossed"
             /\ counted' = counted
             /\ alertTask'[i].OncallOriginID = Order(alertTask'[i].by)
             /\ alertTask'[i].Level = Level(alertTask'[i].by)
  <2>1. PICK d \in Deliveries :
          InsertTask(d) /\ alertTask'[i] = NewAlertTask(Flow(d), d)
    BY <1>1, <1>6
  <2>2. /\ alertTask'[i].by = d /\ alertTask'[i].OncallOriginID = Order(d)
        /\ alertTask'[i].Level = Level(d)
    BY <2>1 DEF NewAlertTask, Order, Level
  <2>3. pc \in [Deliveries -> {"idle"} \cup Handling \cup Ended]
    BY DEF TypeInv, TypeOK
  <2>4. pc[d] = "insert" /\ pc'[d] = "crossed" /\ counted' = counted
    BY <2>1, <2>3 DEF InsertTask, Goto, history
  <2>. QED
    BY <1>1, <1>6, <2>2, <2>4
<1>7. ASSUME NEW i \in DOMAIN alertTask'
      PROVE  alertTask'[i].by \in Deliveries /\ pc'[alertTask'[i].by] \in PastInsert
  <2>1. CASE i \in DOMAIN alertTask
    BY <1>1, <1>5, <2>1 DEF Extends, RaceInv
  <2>2. CASE i \notin DOMAIN alertTask
    BY <1>6, <2>2 DEF PastInsert
  <2>. QED
    BY <2>1, <2>2
<1>8. ASSUME NEW d \in Deliveries, pc'[d] = "insert",
             NEW i \in DOMAIN alertTask', IsOf(alertTask'[i], Order(d)', Level(d)')
      PROVE  counted'[d] < i
  <2>1. CASE Same(d)
    <3>1. Order(d)' = Order(d) /\ Level(d)' = Level(d) /\ pc[d] = "insert"
      BY <1>8, <2>1 DEF Same, Order, Level, Flow
    <3>2. CASE i \in DOMAIN alertTask
      <4>1. IsOf(alertTask[i], Order(d), Level(d))
        BY <1>1, <1>8, <3>1, <3>2 DEF Extends, IsOf
      <4>. QED
        BY <2>1, <3>1, <3>2, <4>1 DEF RaceInv, Same
    <3>3. CASE i \notin DOMAIN alertTask
      <4>1. i = Len(alertTask) + 1 /\ counted[d] <= Len(alertTask)
        BY <1>6, <3>3 DEF RaceInv
      <4>. QED
        BY <1>1, <1>3, <2>1, <4>1 DEF Same
    <3>. QED
      BY <3>2, <3>3
  <2>2. CASE Handle(d)
    <3>1. /\ alertTask' = alertTask /\ request' = request
          /\ Counted(alertTask, Order(d), Level(d), 99) = {}
      BY <1>8, <2>2, CountStep
    <3>2. Order(d)' = Order(d) /\ Level(d)' = Level(d)
      BY <3>1 DEF Order, Level, Flow
    <3>. QED
      BY <1>8, <3>1, <3>2 DEF Counted
  <2>. QED
    BY <1>2, <2>1, <2>2
<1>9. ASSUME NEW j \in DOMAIN alertTask', NEW i \in 1..(j - 1),
             IsOf(alertTask'[i], alertTask'[j].OncallOriginID, alertTask'[j].Level)
      PROVE  counted'[alertTask'[j].by] < i
  <2>1. j \in Nat /\ j <= Len(alertTask) + 1 /\ i \in Nat /\ i < j /\ i >= 1
    BY <1>1
  <2>2. i \in DOMAIN alertTask
    BY <1>1, <2>1
  <2>3. CASE j \in DOMAIN alertTask
    <3>1. IsOf(alertTask[i], alertTask[j].OncallOriginID, alertTask[j].Level)
      BY <1>1, <1>9, <2>2, <2>3 DEF Extends, IsOf
    <3>2. counted[alertTask[j].by] < i
      BY <2>3, <3>1 DEF RaceInv, DuplicateMeansRace
    <3>3. alertTask'[j].by = alertTask[j].by
      BY <1>1, <2>3 DEF Extends
    <3>. QED
      BY <1>5, <2>3, <3>2, <3>3 DEF RaceInv
  <2>4. CASE j \notin DOMAIN alertTask
    <3> DEFINE d == alertTask'[j].by
    <3>1. /\ d \in Deliveries /\ pc[d] = "insert" /\ counted' = counted
          /\ alertTask'[j].OncallOriginID = Order(d) /\ alertTask'[j].Level = Level(d)
      BY <1>6, <2>4
    <3>2. IsOf(alertTask[i], Order(d), Level(d))
      BY <1>1, <1>9, <2>2, <3>1 DEF Extends, IsOf
    <3>. QED
      BY <2>2, <3>1, <3>2 DEF RaceInv
  <2>. QED
    BY <2>3, <2>4
<1>10. DuplicateMeansRace'
  BY <1>9 DEF DuplicateMeansRace
<1>. QED
  BY <1>4, <1>7, <1>8, <1>10 DEF RaceInv

\* Two rows of one order and level come only from two deliveries that were between
\* their count and their insert together.
THEOREM DuplicatesAreRaces == Spec => []DuplicateMeansRace
<1>1. RaceInv => DuplicateMeansRace
  BY DEF RaceInv
<1>. QED
  BY <1>1, InitType, NextType, InitRace, NextRace, PTL DEF Spec

-----------------------------------------------------------------------------
(***************************************************************************)
(* EveryAlertHasItsRecord.  Past its first statement a delivery has the    *)
(* record of its order, and no statement deletes one.                      *)
(***************************************************************************)
Recorded == Alerting \cup {"listen"}

RecordInv ==
  /\ \A d \in Deliveries : pc[d] \in Recorded => origin[Order(d)] # Nil
  /\ \A d \in Deliveries : emitted[d] =>
       pc[d] # "idle" /\ Order(d) \in Orders /\ origin[Order(d)] # Nil
  /\ EveryAlertHasItsRecord

\* What a delivery saves of its order is a record.
LEMMA CopyIsThere ==
  ASSUME NEW flow \in OncallFlow, NEW d \in Deliveries
  PROVE  CopyOriginalOncallRecord(flow, d) # Nil
BY NilAssumption DEF CopyOriginalOncallRecord, OncallFlow

\* Only the first statement of a delivery writes records, that of its order.
LEMMA OriginStep ==
  ASSUME TypeInv, [Next]_vars
  PROVE  \/ origin' = origin
         \/ \E d \in Deliveries :
              /\ SaveOrigin(d) /\ Order(d) \in Orders /\ Flow(d) \in OncallFlow
              /\ origin' = [origin EXCEPT ![Order(d)] =
                              CopyOriginalOncallRecord(Flow(d), d)]
<1> USE DEF tables, call, cards, history
<1>1. ASSUME NEW d \in Deliveries, Handle(d), origin' # origin
      PROVE  /\ SaveOrigin(d) /\ Order(d) \in Orders /\ Flow(d) \in OncallFlow
             /\ origin' = [origin EXCEPT ![Order(d)] =
                             CopyOriginalOncallRecord(Flow(d), d)]
  <2>1. SaveOrigin(d)
    BY <1>1 DEF Handle, BadRequest, Receive, Need, CountTask, InsertTask,
                NoCrossFlow, Emit, SaveListen, Lose
  <2>2. Order(d) \in Orders /\ Flow(d) \in OncallFlow
    BY <2>1, FlowTyped DEF SaveOrigin, Handling
  <2>. QED
    BY <1>1, <2>1, <2>2 DEF SaveOrigin, Save
<1>2. ASSUME NEW c \in Cards, HandleCard(c) PROVE origin' = origin
  BY <1>2 DEF HandleCard, BadCardRequest, AskCard, ReadRecord, MarkCalledBack, LoseCard
<1>3. ASSUME NEW r \in Replicas, Replicate(r) PROVE origin' = origin
  BY <1>3 DEF Replicate
<1>4. CASE UNCHANGED vars
  BY <1>4 DEF vars
<1>. QED
  BY <1>1, <1>2, <1>3, <1>4 DEF Next

\* No record is deleted.
LEMMA OriginKept ==
  ASSUME TypeInv, [Next]_vars, NEW o \in Orders, origin[o] # Nil
  PROVE  origin'[o] # Nil
<1>1. origin \in [Orders -> Optional(OncallOriginRecord)]
  BY DEF TypeInv, TypeOK, OncallOriginRecords
<1>2. ASSUME NEW d \in Deliveries, Order(d) \in Orders, Flow(d) \in OncallFlow,
             origin' = [origin EXCEPT ![Order(d)] = CopyOriginalOncallRecord(Flow(d), d)]
      PROVE  origin'[o] # Nil
  <2>1. CopyOriginalOncallRecord(Flow(d), d) # Nil
    BY <1>2, CopyIsThere
  <2>. QED
    BY <1>1, <1>2, <2>1
<1>. QED
  BY <1>2, OriginStep

\* A delivery enters the statements behind the first with its record saved.
LEMMA RecordedStep ==
  ASSUME TypeInv, NEW d \in Deliveries, Handle(d), pc'[d] \in Recorded
  PROVE  /\ Order(d) \in Orders /\ request'[d] = request[d]
         /\ pc[d] \in Recorded \/ origin'[Order(d)] # Nil
<1> USE DEF TypeInv, TypeOK, Recorded, Alerting, Handling, tables, call, cards,
            history, Goto
<1>1. CASE BadRequest(d)
  BY <1>1 DEF BadRequest
<1>2. CASE Receive(d)
  BY <1>2 DEF Receive, Answer
<1>3. CASE SaveOrigin(d)
  <2>1. Order(d) \in Orders /\ Flow(d) \in OncallFlow
    BY <1>3, FlowTyped DEF SaveOrigin
  <2>2. CopyOriginalOncallRecord(Flow(d), d) # Nil
    BY <2>1, CopyIsThere
  <2>3. origin' = Save(origin, Order(d), CopyOriginalOncallRecord(Flow(d), d))
    BY <1>3 DEF SaveOrigin
  <2>. QED
    BY <1>3, <2>1, <2>2, <2>3 DEF SaveOrigin, Save, OncallOriginRecords
<1>4. ASSUME \/ Need(d) \/ CountTask(d) \/ InsertTask(d) \/ NoCrossFlow(d)
             \/ Emit(d) \/ SaveListen(d)
      PROVE  /\ Order(d) \in Orders /\ request'[d] = request[d]
             /\ pc[d] \in Recorded
  <2>1. pc[d] \in Recorded /\ request' = request
    BY <1>4 DEF Need, CountTask, InsertTask, NoCrossFlow, Emit, SaveListen
  <2>2. Order(d) \in Orders
    BY <2>1, FlowTyped
  <2>. QED
    BY <2>1, <2>2
<1>5. CASE Lose(d)
  BY <1>5 DEF Lose
<1>. QED
  BY <1>1, <1>2, <1>3, <1>4, <1>5 DEF Handle

\* The metric is raised from one statement only.
LEMMA EmitStep ==
  ASSUME TypeInv, NEW d \in Deliveries, Handle(d)
  PROVE  /\ emitted'[d] # emitted[d] => pc[d] = "crossed"
         /\ pc[d] # "idle" => request'[d] = request[d]
         /\ pc'[d] # "idle"
<1> USE DEF TypeInv, TypeOK, tables, call, cards, history, Goto
<1>1. CASE BadRequest(d)
  BY <1>1 DEF BadRequest
<1>2. CASE Receive(d)
  BY <1>2 DEF Receive, Answer
<1>3. CASE SaveOrigin(d)
  BY <1>3 DEF SaveOrigin, AfterOrigin, Answer
<1>4. CASE Need(d)
  BY <1>4 DEF Need
<1>5. CASE CountTask(d)
  BY <1>5 DEF CountTask
<1>6. CASE InsertTask(d)
  BY <1>6 DEF InsertTask
<1>7. CASE NoCrossFlow(d)
  BY <1>7 DEF NoCrossFlow
<1>8. CASE Emit(d)
  BY <1>8 DEF Emit
<1>9. CASE SaveListen(d)
  BY <1>9 DEF SaveListen, Answer
<1>10. CASE Lose(d)
  BY <1>10 DEF Lose
<1>. QED
  BY <1>1, <1>2, <1>3, <1>4, <1>5, <1>6, <1>7, <1>8, <1>9, <1>10 DEF Handle

\* A listening row is of the delivery's order.
LEMMA ListenStep ==
  ASSUME TypeInv, [Next]_vars
  PROVE  \/ listen' = listen
         \/ \E d \in Deliveries :
              /\ SaveListen(d) /\ Order(d) \in Orders
              /\ listen' = [listen EXCEPT ![Order(d)] = NewListenTask(request[d].Action, d)]
<1> USE DEF tables, call, cards, history
<1>1. ASSUME NEW d \in Deliveries, Handle(d), listen' # listen
      PROVE  /\ SaveListen(d) /\ Order(d) \in Orders
             /\ listen' = [listen EXCEPT ![Order(d)] = NewListenTask(request[d].Action, d)]
  <2>1. SaveListen(d)
    BY <1>1 DEF Handle, BadRequest, Receive, Need, CountTask, InsertTask,
                NoCrossFlow, Emit, SaveOrigin, Lose
  <2>2. Order(d) \in Orders
    BY <2>1, FlowTyped DEF SaveListen, Handling
  <2>. QED
    BY <1>1, <2>1, <2>2 DEF SaveListen, Save
<1>2. ASSUME NEW c \in Cards, HandleCard(c) PROVE listen' = listen
  BY <1>2 DEF HandleCard, BadCardRequest, AskCard, ReadRecord, MarkCalledBack, LoseCard
<1>3. ASSUME NEW r \in Replicas, Replicate(r) PROVE listen' = listen
  BY <1>3 DEF Replicate
<1>4. CASE UNCHANGED vars
  BY <1>4 DEF vars
<1>. QED
  BY <1>1, <1>2, <1>3, <1>4 DEF Next

\* Nothing is alerted at the start.
LEMMA InitRecord == Init => RecordInv
BY DEF Init, RecordInv, EveryAlertHasItsRecord, Recorded, Alerting

\* Every step keeps a record under what has been alerted.
LEMMA NextRecord == TypeInv /\ RecordInv /\ [Next]_vars => RecordInv'
<1> SUFFICES ASSUME TypeInv, RecordInv, [Next]_vars PROVE RecordInv'
  OBVIOUS
<1>1. \A d \in Deliveries : Handle(d) \/ Same(d)
  BY OneMoves
<1>2. \A o \in Orders : origin[o] # Nil => origin'[o] # Nil
  BY OriginKept
<1>3. \A d \in Deliveries : pc[d] \in Recorded => Order(d) \in Orders
  BY FlowTyped DEF Recorded, Alerting, Handling
<1>4. ASSUME NEW d \in Deliveries, pc'[d] \in Recorded
      PROVE  origin'[Order(d)'] # Nil
  <2>1. CASE Same(d)
    <3>1. pc[d] \in Recorded /\ Order(d)' = Order(d)
      BY <1>4, <2>1 DEF Same, Order, Flow
    <3>. QED
      BY <1>2, <1>3, <3>1 DEF RecordInv
  <2>2. CASE Handle(d)
    <3>1. /\ Order(d) \in Orders /\ request'[d] = request[d]
          /\ pc[d] \in Recorded \/ origin'[Order(d)] # Nil
      BY <1>4, <2>2, RecordedStep
    <3>2. Order(d)' = Order(d)
      BY <3>1 DEF Order, Flow
    <3>. QED
      BY <1>2, <3>1, <3>2 DEF RecordInv
  <2>. QED
    BY <1>1, <2>1, <2>2
<1>5. ASSUME NEW d \in Deliveries, emitted'[d]
      PROVE  pc'[d] # "idle" /\ Order(d)' \in Orders /\ origin'[Order(d)'] # Nil
  <2>1. CASE Same(d)
    <3>1. (emitted[d] <=> emitted'[d]) /\ Order(d)' = Order(d) /\ pc'[d] = pc[d]
      BY <2>1 DEF Same, Order, Flow
    <3>. QED
      BY <1>2, <1>5, <3>1 DEF RecordInv
  <2>2. CASE Handle(d)
    <3>1. /\ emitted'[d] # emitted[d] => pc[d] = "crossed"
          /\ pc[d] # "idle" => request'[d] = request[d]
          /\ pc'[d] # "idle"
      BY <2>2, EmitStep
    <3>2. CASE emitted[d]
      <4>1. pc[d] # "idle" /\ Order(d) \in Orders /\ origin[Order(d)] # Nil
        BY <3>2 DEF RecordInv
      <4>2. Order(d)' = Order(d)
        BY <3>1, <4>1 DEF Order, Flow
      <4>. QED
        BY <1>2, <3>1, <4>1, <4>2
    <3>3. CASE ~emitted[d]
      <4>1. pc[d] = "crossed"
        BY <1>5, <3>1, <3>3
      <4>2. Order(d) \in Orders /\ origin[Order(d)] # Nil
        BY <1>3, <4>1 DEF RecordInv, Recorded, Alerting
      <4>3. Order(d)' = Order(d)
        BY <3>1, <4>1 DEF Order, Flow
      <4>. QED
        BY <1>2, <3>1, <4>2, <4>3
    <3>. QED
      BY <3>2, <3>3
  <2>. QED
    BY <1>1, <2>1, <2>2
<1>6. ASSUME NEW i \in DOMAIN alertTask'
      PROVE  origin'[alertTask'[i].OncallOriginID] # Nil
  <2>1. CASE i \in DOMAIN alertTask
    <3>1. alertTask[i].OncallOriginID \in Orders
      <4>1. alertTask[i] \in AlertTask
        BY <2>1 DEF TypeInv, TypeOK, AlertTasks
      <4>. QED
        BY <4>1 DEF AlertTask
    <3>2. alertTask'[i].OncallOriginID = alertTask[i].OncallOriginID
      BY <2>1, RowsGrow DEF Extends
    <3>. QED
      BY <1>2, <2>1, <3>1, <3>2 DEF RecordInv, EveryAlertHasItsRecord
  <2>2. CASE i \notin DOMAIN alertTask
    <3>1. PICK d \in Deliveries :
            InsertTask(d) /\ alertTask'[i] = NewAlertTask(Flow(d), d)
      BY <2>2, RowsGrow
    <3>2. alertTask'[i].OncallOriginID = Order(d) /\ pc[d] \in Recorded
      BY <3>1 DEF NewAlertTask, Order, InsertTask, Recorded, Alerting
    <3>. QED
      BY <1>2, <1>3, <3>2 DEF RecordInv
  <2>. QED
    BY <2>1, <2>2
<1>7. ASSUME NEW o \in Orders, listen'[o] # Nil PROVE origin'[o] # Nil
  <2>1. CASE listen[o] # Nil
    BY <1>2, <2>1 DEF RecordInv, EveryAlertHasItsRecord
  <2>2. CASE listen[o] = Nil
    <3>1. PICK d \in Deliveries :
            /\ SaveListen(d) /\ Order(d) \in Orders
            /\ listen' = [listen EXCEPT ![Order(d)] = NewListenTask(request[d].Action, d)]
      BY <1>7, <2>2, ListenStep
    <3>2. o = Order(d)
      BY <1>7, <2>2, <3>1 DEF TypeInv, TypeOK, OncallListenAlertTasks
    <3>. QED
      BY <1>2, <3>1, <3>2 DEF RecordInv, SaveListen, Recorded
  <2>. QED
    BY <2>1, <2>2
<1>8. EveryAlertHasItsRecord'
  <2>1. \A d \in Deliveries : emitted'[d] => origin'[Order(d)'] # Nil
    BY <1>5
  <2>. QED
    BY <1>6, <1>7, <2>1 DEF EveryAlertHasItsRecord
<1>. QED
  BY <1>4, <1>5, <1>8 DEF RecordInv

\* What has a row, a metric or a listening row has its origin record.
THEOREM AlertsHaveRecords == Spec => []EveryAlertHasItsRecord
<1>1. RecordInv => EveryAlertHasItsRecord
  BY DEF RecordInv
<1>. QED
  BY <1>1, InitType, NextType, InitRecord, NextRecord, PTL DEF Spec

-----------------------------------------------------------------------------
(***************************************************************************)
(* MarkedMeansAsked.  A card that has its record has tags, and keeps them. *)
(***************************************************************************)
Asked(row, c) ==
  /\ cardPc[c] \in {"level", "failed", "lost"}
  /\ tags[c] # Nil
  /\ IsOf(row, tags[c].originalOncallId, tags[c].workOrderLevel)

MarkInv ==
  /\ \A c \in Cards : cardPc[c] \in {"read", "mark"} => tags[c] # Nil
  /\ MarkedMeansAsked

\* A step of a card: it asks once, and what it has asked for stays.
LEMMA CardStep ==
  ASSUME TypeInv, [Next]_vars, NEW c \in Cards
  PROVE  \/ cardPc'[c] = cardPc[c] /\ tags'[c] = tags[c]
         \/ /\ cardPc[c] = "idle"
            /\ cardPc'[c] \in {"read", "mark"} => tags'[c] # Nil
         \/ /\ cardPc[c] \in {"read", "mark"} /\ tags'[c] = tags[c]
            /\ MarkCalledBack(c) => cardPc'[c] \in {"level", "failed", "lost"}
<1> USE DEF TypeInv, TypeOK, tables, call, cards, history, CardGoto
<1>1. ASSUME NEW e \in Cards, HandleCard(e)
      PROVE  \/ cardPc'[c] = cardPc[c] /\ tags'[c] = tags[c]
             \/ /\ cardPc[c] = "idle"
                /\ cardPc'[c] \in {"read", "mark"} => tags'[c] # Nil
             \/ /\ cardPc[c] \in {"read", "mark"} /\ tags'[c] = tags[c]
                /\ MarkCalledBack(c) => cardPc'[c] \in {"level", "failed", "lost"}
  <2>1. CASE BadCardRequest(e)
    BY <2>1 DEF BadCardRequest
  <2>2. CASE AskCard(e)
    <3>1. PICK q \in CardRequests :
            /\ tags' = [tags EXCEPT ![e] = q.AlertContext]
            /\ \E where \in {"panic", "read", "general", "failed"} :
                 /\ cardPc' = [cardPc EXCEPT ![e] = where]
                 /\ where = "read" => q.AlertContext # Nil
      BY <2>2 DEF AskCard
    <3>. QED
      BY <2>2, <3>1 DEF AskCard
  <2>3. CASE ReadRecord(e)
    <3>1. \E where : cardPc' = [cardPc EXCEPT ![e] = where]
      BY <2>3 DEF ReadRecord
    <3>. QED
      BY <2>3, <3>1 DEF ReadRecord, MarkCalledBack
  <2>4. CASE MarkCalledBack(e)
    <3>1. \E where \in {"level", "failed", "lost"} :
            cardPc' = [cardPc EXCEPT ![e] = where]
      BY <2>4 DEF MarkCalledBack
    <3>. QED
      BY <2>4, <3>1 DEF MarkCalledBack
  <2>5. CASE LoseCard(e)
    BY <2>5 DEF LoseCard, MarkCalledBack
  <2>. QED
    BY <1>1, <2>1, <2>2, <2>3, <2>4, <2>5 DEF HandleCard
<1>2. ASSUME NEW d \in Deliveries, Handle(d)
      PROVE  cardPc' = cardPc /\ tags' = tags
  BY <1>2 DEF Handle, BadRequest, Receive, SaveOrigin, Need, CountTask, InsertTask,
              NoCrossFlow, Emit, SaveListen, Lose
<1>3. ASSUME NEW r \in Replicas, Replicate(r) PROVE cardPc' = cardPc /\ tags' = tags
  BY <1>3 DEF Replicate
<1>4. CASE UNCHANGED vars
  BY <1>4 DEF vars
<1>. QED
  BY <1>1, <1>2, <1>3, <1>4 DEF Next

\* The level of the update is that of the tags: no row has an empty one.
LEMMA TagLevelIsAsked ==
  ASSUME TypeInv, NEW c \in Cards, NEW i \in DOMAIN alertTask,
         IsOf(alertTask[i], tags[c].originalOncallId, TagLevel(c))
  PROVE  IsOf(alertTask[i], tags[c].originalOncallId, tags[c].workOrderLevel)
<1>1. alertTask[i] \in AlertTask
  BY DEF TypeInv, TypeOK, AlertTasks
<1>2. alertTask[i].Level \in Levels
  BY <1>1 DEF AlertTask
<1>. QED
  BY <1>2, RequestAssumption DEF IsOf, TagLevel, GetValueByKeyInList

\* No row is marked at the start.
LEMMA InitMark == Init => MarkInv
BY DEF Init, MarkInv, MarkedMeansAsked

\* Every step keeps the card behind a mark.
LEMMA NextMark == TypeInv /\ MarkInv /\ [Next]_vars => MarkInv'
<1> SUFFICES ASSUME TypeInv, MarkInv, [Next]_vars PROVE MarkInv'
  OBVIOUS
<1>1. \A c \in Cards :
        \/ cardPc'[c] = cardPc[c] /\ tags'[c] = tags[c]
        \/ /\ cardPc[c] = "idle"
           /\ cardPc'[c] \in {"read", "mark"} => tags'[c] # Nil
        \/ /\ cardPc[c] \in {"read", "mark"} /\ tags'[c] = tags[c]
           /\ MarkCalledBack(c) => cardPc'[c] \in {"level", "failed", "lost"}
  BY CardStep
<1>2. \A c \in Cards : cardPc'[c] \in {"read", "mark"} => tags'[c] # Nil
  BY <1>1 DEF MarkInv
<1>3. ASSUME NEW i \in DOMAIN alertTask', alertTask'[i].IsCallback = 1
      PROVE  \E c \in Cards : Asked(alertTask[i], c)'
  <2>1. ASSUME i \in DOMAIN alertTask, alertTask[i].IsCallback = 1
        PROVE  \E c \in Cards : Asked(alertTask[i], c)'
    <3>1. PICK c \in Cards : Asked(alertTask[i], c)
      BY <2>1 DEF MarkInv, MarkedMeansAsked, Asked
    <3>2. cardPc'[c] = cardPc[c] /\ tags'[c] = tags[c]
      BY <1>1, <3>1 DEF Asked
    <3>3. /\ alertTask'[i].OncallOriginID = alertTask[i].OncallOriginID
          /\ alertTask'[i].Level = alertTask[i].Level
      BY <2>1, RowsGrow DEF Extends
    <3>. QED
      BY <3>1, <3>2, <3>3 DEF Asked, IsOf
  <2>2. CASE alertTask' = alertTask
    BY <1>3, <2>1, <2>2
  <2>3. ASSUME NEW d \in Deliveries, InsertTask(d), Inserted(d)
        PROVE  \E c \in Cards : Asked(alertTask[i], c)'
    <3>1. NewAlertTask(Flow(d), d) \in AlertTask /\ NewAlertTask(Flow(d), d).IsCallback = 0
      BY <2>3, NewRowTyped DEF InsertTask, Alerting, NewAlertTask
    <3>2. alertTask \in AlertTasks
      BY DEF TypeInv, TypeOK
    <3>3. /\ DOMAIN alertTask' = 1..(Len(alertTask) + 1)
          /\ DOMAIN alertTask = 1..Len(alertTask) /\ Len(alertTask) \in Nat
          /\ \A k \in DOMAIN alertTask : alertTask'[k] = alertTask[k]
          /\ alertTask'[Len(alertTask) + 1] = NewAlertTask(Flow(d), d)
      BY <2>3, <3>1, <3>2, InsertAdds DEF Inserted
    <3>4. i # Len(alertTask) + 1
      BY <1>3, <3>1, <3>3
    <3>. QED
      BY <1>3, <2>1, <3>3, <3>4
  <2>4. ASSUME NEW c \in Cards, MarkCalledBack(c), Marked(c)
        PROVE  \E e \in Cards : Asked(alertTask[i], e)'
    <3>1. alertTask \in AlertTasks
      BY DEF TypeInv, TypeOK
    <3>2. /\ i \in DOMAIN alertTask
          /\ \/ alertTask[i].IsCallback = 1
             \/ IsOf(alertTask[i], tags[c].originalOncallId, TagLevel(c))
      BY <1>3, <2>4, <3>1, UpdateMarks DEF Marked
    <3>3. CASE IsOf(alertTask[i], tags[c].originalOncallId, TagLevel(c))
      <4>1. IsOf(alertTask[i], tags[c].originalOncallId, tags[c].workOrderLevel)
        BY <3>2, <3>3, TagLevelIsAsked
      <4>2. /\ alertTask'[i].OncallOriginID = alertTask[i].OncallOriginID
            /\ alertTask'[i].Level = alertTask[i].Level
        BY <3>2, RowsGrow DEF Extends
      <4>3. /\ cardPc'[c] \in {"level", "failed", "lost"}
            /\ tags'[c] = tags[c] /\ tags[c] # Nil
        <5>1. cardPc[c] = "mark"
          BY <2>4 DEF MarkCalledBack
        <5>2. tags' = tags
          BY <2>4 DEF MarkCalledBack
        <5>3. \E how \in {"level", "failed", "lost"} : cardPc' = [cardPc EXCEPT ![c] = how]
          BY <2>4 DEF MarkCalledBack, CardGoto
        <5>. QED
          BY <5>1, <5>2, <5>3 DEF MarkInv, TypeInv, TypeOK
      <4>. QED
        BY <4>1, <4>2, <4>3 DEF Asked, IsOf
    <3>. QED
      BY <2>1, <3>2, <3>3
  <2>. QED
    BY <2>2, <2>3, <2>4, RowsStep
<1>4. MarkedMeansAsked'
  BY <1>3 DEF MarkedMeansAsked, Asked
<1>. QED
  BY <1>2, <1>4 DEF MarkInv

\* An alert counts as called back only when Argos has asked for its card.
THEOREM MarksAreAsked == Spec => []MarkedMeansAsked
<1>1. MarkInv => MarkedMeansAsked
  BY DEF MarkInv
<1>. QED
  BY <1>1, InitType, NextType, InitMark, NextMark, PTL DEF Spec

-----------------------------------------------------------------------------
(***************************************************************************)
(* LaterDeliveryWins.  A delivery that writes has not ended, so it is not  *)
(* among those that had ended when another came.                           *)
(***************************************************************************)
Saved(d) == pc[d] \in Recorded \/ (wired /\ pc[d] = "answered")

LaterInv ==
  /\ \A d \in Deliveries : d \notin after[d] /\ \A e \in after[d] : pc[e] \in Ended
  /\ \A d \in Deliveries : Saved(d) =>
       Order(d) \in Orders /\ origin[Order(d)].by \notin after[d]
  /\ \A d \in Deliveries :
       wired /\ pc[d] = "answered" /\ GetStage(Flow(d)) # "not_start" =>
         listen[Order(d)].by \notin after[d]

SavesOrigin(d) ==
  /\ pc[d] = "origin"
  /\ origin' = [origin EXCEPT ![Order(d)] = CopyOriginalOncallRecord(Flow(d), d)]

SavesListen(d) ==
  /\ pc[d] = "listen"
  /\ listen' = [listen EXCEPT ![Order(d)] = NewListenTask(request[d].Action, d)]

\* What a delivery has saved when it goes on or answers.
LEMMA SavedStep ==
  ASSUME TypeInv, NEW d \in Deliveries, Handle(d)
  PROVE  /\ pc[d] \notin Ended /\ wired' = wired
         /\ \/ after'[d] = after[d]
            \/ pc[d] = "idle" /\ after'[d] = {e \in Deliveries : pc[e] \in Ended}
         /\ Saved(d)' =>
              /\ after'[d] = after[d] /\ request'[d] = request[d]
              /\ Order(d) \in Orders
              /\ pc[d] \in Recorded \/ SavesOrigin(d)
         /\ wired' /\ pc'[d] = "answered" /\ GetStage(Flow(d)') # "not_start" =>
              SavesListen(d)
<1> USE DEF TypeInv, TypeOK, Recorded, Alerting, Handling, Ended, Saved,
            OncallWorkOrderCallbackResponse, tables, call, cards, history, Goto
<1>1. CASE BadRequest(d)
  BY <1>1 DEF BadRequest
<1>2. CASE Receive(d)
  BY <1>2 DEF Receive, Answer
<1>3. CASE SaveOrigin(d)
  <2>1. Order(d) \in Orders
    BY <1>3, FlowTyped DEF SaveOrigin
  <2>2. \/ pc'[d] = "failed" \/ pc'[d] = "panic"
        \/ /\ SavesOrigin(d)
           /\ pc'[d] = "answered" => GetStage(Flow(d)) = "not_start"
    BY <1>3 DEF SaveOrigin, AfterOrigin, Answer, SavesOrigin, Save
  <2>3. request' = request /\ Flow(d)' = Flow(d)
    BY <1>3 DEF SaveOrigin, Flow
  <2>. QED
    BY <1>3, <2>1, <2>2, <2>3 DEF SaveOrigin
<1>4. ASSUME Need(d) \/ CountTask(d) \/ InsertTask(d) \/ NoCrossFlow(d) \/ Emit(d)
      PROVE  /\ pc[d] \in Recorded /\ wired' = wired /\ after' = after
             /\ request' = request /\ Order(d) \in Orders /\ pc'[d] # "answered"
  <2>1. pc[d] \in Recorded /\ wired' = wired /\ after' = after /\ request' = request
    BY <1>4 DEF Need, CountTask, InsertTask, NoCrossFlow, Emit
  <2>2. Order(d) \in Orders
    BY <2>1, FlowTyped
  <2>3. pc'[d] # "answered"
    BY <1>4 DEF Need, CountTask, InsertTask, NoCrossFlow, Emit
  <2>. QED
    BY <2>1, <2>2, <2>3
<1>5. CASE SaveListen(d)
  <2>1. Order(d) \in Orders
    BY <1>5, FlowTyped DEF SaveListen
  <2>2. pc'[d] = "failed" \/ SavesListen(d)
    BY <1>5 DEF SaveListen, SavesListen, Save
  <2>3. request' = request /\ Flow(d)' = Flow(d)
    BY <1>5 DEF SaveListen, Flow
  <2>. QED
    BY <1>5, <2>1, <2>2, <2>3 DEF SaveListen
<1>6. CASE Lose(d)
  BY <1>6 DEF Lose
<1>. QED
  BY <1>1, <1>2, <1>3, <1>4, <1>5, <1>6 DEF Handle

\* A record or listening row changes only to one of a delivery that has not ended.
LEMMA WriterIsAlive ==
  ASSUME TypeInv, [Next]_vars, NEW o \in Orders
  PROVE  /\ \/ origin'[o].by = origin[o].by
            \/ origin'[o].by \in Deliveries /\ pc[origin'[o].by] \notin Ended
         /\ \/ listen'[o].by = listen[o].by
            \/ listen'[o].by \in Deliveries /\ pc[listen'[o].by] \notin Ended
<1> USE DEF TypeInv, TypeOK, OncallOriginRecords, OncallListenAlertTasks, Ended,
            OncallWorkOrderCallbackResponse
<1>1. ASSUME NEW d \in Deliveries, SaveOrigin(d), Order(d) \in Orders,
             origin' = [origin EXCEPT ![Order(d)] = CopyOriginalOncallRecord(Flow(d), d)]
      PROVE  \/ origin'[o].by = origin[o].by
             \/ origin'[o].by \in Deliveries /\ pc[origin'[o].by] \notin Ended
  BY <1>1 DEF SaveOrigin, CopyOriginalOncallRecord
<1>2. ASSUME NEW d \in Deliveries, SaveListen(d), Order(d) \in Orders,
             listen' = [listen EXCEPT ![Order(d)] = NewListenTask(request[d].Action, d)]
      PROVE  \/ listen'[o].by = listen[o].by
             \/ listen'[o].by \in Deliveries /\ pc[listen'[o].by] \notin Ended
  BY <1>2 DEF SaveListen, NewListenTask
<1>3. \/ origin'[o].by = origin[o].by
      \/ origin'[o].by \in Deliveries /\ pc[origin'[o].by] \notin Ended
  BY <1>1, OriginStep
<1>4. \/ listen'[o].by = listen[o].by
      \/ listen'[o].by \in Deliveries /\ pc[listen'[o].by] \notin Ended
  BY <1>2, ListenStep
<1>. QED
  BY <1>3, <1>4

\* No delivery has ended at the start.
LEMMA InitLater == Init => LaterInv
BY DEF Init, LaterInv, Saved, Recorded, Alerting

\* Every step keeps earlier deliveries from overwriting what has been saved.
LEMMA NextLater == TypeInv /\ LaterInv /\ [Next]_vars => LaterInv'
<1> SUFFICES ASSUME TypeInv, LaterInv, [Next]_vars PROVE LaterInv'
  OBVIOUS
<1>1. \A d \in Deliveries : Handle(d) \/ Same(d)
  BY OneMoves
<1>2. wired' = wired
  BY DEF Next, Handle, BadRequest, Receive, SaveOrigin, Need, CountTask, InsertTask,
         NoCrossFlow, Emit, SaveListen, Lose, HandleCard, BadCardRequest, AskCard,
         ReadRecord, MarkCalledBack, LoseCard, Replicate, vars
<1>3. \A e \in Deliveries : pc[e] \in Ended => pc'[e] \in Ended
  BY <1>1, SavedStep DEF Same
<1>4. \A d \in Deliveries : after[d] \subseteq Deliveries
  BY DEF TypeInv, TypeOK
<1>5. ASSUME NEW d \in Deliveries
      PROVE  d \notin after'[d] /\ \A e \in after'[d] : pc'[e] \in Ended
  <2>1. CASE after'[d] = after[d]
    BY <1>3, <1>4, <2>1 DEF LaterInv
  <2>2. CASE pc[d] = "idle" /\ after'[d] = {e \in Deliveries : pc[e] \in Ended}
    BY <1>3, <2>2 DEF Ended, OncallWorkOrderCallbackResponse
  <2>. QED
    BY <1>1, <2>1, <2>2, SavedStep DEF Same
<1>6. ASSUME NEW d \in Deliveries, Saved(d)'
      PROVE  Order(d)' \in Orders /\ origin'[Order(d)'].by \notin after'[d]
  <2>1. /\ after'[d] = after[d] /\ Order(d)' = Order(d) /\ Order(d) \in Orders
        /\ Saved(d) \/ SavesOrigin(d)
    <3>1. CASE Same(d)
      <4>1. Saved(d) /\ Order(d)' = Order(d) /\ after'[d] = after[d]
        BY <1>2, <1>6, <3>1 DEF Same, Saved, Order, Flow
      <4>. QED
        BY <4>1 DEF LaterInv
    <3>2. CASE Handle(d)
      BY <1>6, <3>2, SavedStep DEF Saved, Order, Flow
    <3>. QED
      BY <1>1, <3>1, <3>2
  <2>2. CASE Saved(d)
    <3>1. origin[Order(d)].by \notin after[d] /\ \A e \in after[d] : pc[e] \in Ended
      BY <2>2 DEF LaterInv
    <3>. QED
      BY <2>1, <3>1, WriterIsAlive
  <2>3. CASE SavesOrigin(d)
    <3>1. origin'[Order(d)].by = d
      BY <2>1, <2>3 DEF SavesOrigin, CopyOriginalOncallRecord, TypeInv, TypeOK,
                        OncallOriginRecords
    <3>. QED
      BY <2>1, <3>1 DEF LaterInv
  <2>. QED
    BY <2>1, <2>2, <2>3
<1>7. ASSUME NEW d \in Deliveries, wired', pc'[d] = "answered",
             GetStage(Flow(d)') # "not_start"
      PROVE  listen'[Order(d)'].by \notin after'[d]
  <2>1. /\ Order(d)' \in Orders /\ \A e \in after'[d] : e \in Deliveries
    BY <1>6, <1>7, NextType DEF Saved, TypeInv, TypeOK
  <2>2. CASE Same(d)
    <3>1. /\ wired /\ pc[d] = "answered" /\ Flow(d)' = Flow(d)
          /\ Order(d)' = Order(d) /\ after'[d] = after[d]
      BY <1>2, <1>7, <2>2 DEF Same, Order, Flow
    <3>2. listen[Order(d)].by \notin after[d] /\ \A e \in after[d] : pc[e] \in Ended
      BY <1>7, <3>1 DEF LaterInv
    <3>. QED
      BY <2>1, <3>1, <3>2, WriterIsAlive
  <2>3. CASE Handle(d)
    <3>1. SavesListen(d) /\ request'[d] = request[d] /\ after'[d] = after[d]
      BY <1>7, <2>3, SavedStep DEF Saved
    <3>2. Order(d)' = Order(d)
      BY <3>1 DEF Order, Flow
    <3>3. listen'[Order(d)].by = d
      BY <2>1, <3>1, <3>2 DEF SavesListen, NewListenTask, TypeInv, TypeOK,
                              OncallListenAlertTasks
    <3>. QED
      BY <3>1, <3>2, <3>3 DEF LaterInv
  <2>. QED
    BY <1>1, <2>2, <2>3
<1>. QED
  BY <1>5, <1>6, <1>7 DEF LaterInv

\* What an answered delivery has saved is never what an earlier one left.
THEOREM LaterWins == Spec => []LaterDeliveryWins
<1>1. LaterInv => LaterDeliveryWins
  BY DEF LaterInv, LaterDeliveryWins, Saved
<1>. QED
  BY <1>1, InitType, NextType, InitLater, NextLater, PTL DEF Spec

-----------------------------------------------------------------------------
(***************************************************************************)
(* What a replica has of alert_task the primary has too, called back       *)
(* wherever the replica says so; both only grow.                           *)
(***************************************************************************)
ReplicaInv ==
  \A r \in Replicas : Extends(alertTask, replica[r].alertTask)

\* A table that has kept the rows of one that has kept those of a third has the
\* rows of the third.
LEMMA ExtendsTwice ==
  \A new, mid, old : Extends(new, mid) /\ Extends(mid, old) => Extends(new, old)
BY DEF Extends

\* A replica stays what it is or becomes what the primary is.
LEMMA ReplicaStep ==
  ASSUME TypeInv, [Next]_vars, NEW r \in Replicas
  PROVE  \/ replica'[r] = replica[r]
         \/ replica'[r].alertTask = alertTask /\ alertTask' = alertTask
<1> USE DEF TypeInv, TypeOK, tables, call, cards, history
<1>1. ASSUME NEW s \in Replicas, Replicate(s)
      PROVE  \/ replica'[r] = replica[r]
             \/ replica'[r].alertTask = alertTask /\ alertTask' = alertTask
  BY <1>1 DEF Replicate
<1>2. ASSUME NEW d \in Deliveries, Handle(d) PROVE replica' = replica
  BY <1>2 DEF Handle, BadRequest, Receive, SaveOrigin, Need, CountTask, InsertTask,
              NoCrossFlow, Emit, SaveListen, Lose
<1>3. ASSUME NEW c \in Cards, HandleCard(c) PROVE replica' = replica
  BY <1>3 DEF HandleCard, BadCardRequest, AskCard, ReadRecord, MarkCalledBack, LoseCard
<1>4. CASE UNCHANGED vars
  BY <1>4 DEF vars
<1>. QED
  BY <1>1, <1>2, <1>3, <1>4 DEF Next

\* The replicas start as the primary does.
LEMMA InitReplica == Init => ReplicaInv
BY DEF Init, ReplicaInv, Extends

\* Every step keeps the primary ahead of its replicas.
LEMMA NextReplica == TypeInv /\ ReplicaInv /\ [Next]_vars => ReplicaInv'
<1> SUFFICES ASSUME TypeInv, ReplicaInv, [Next]_vars, NEW r \in Replicas
             PROVE  Extends(alertTask', replica'[r].alertTask)
  BY DEF ReplicaInv
<1>1. Extends(alertTask', alertTask)
  BY RowsGrow
<1>2. CASE replica'[r] = replica[r]
  BY <1>1, <1>2, ExtendsTwice DEF ReplicaInv
<1>3. CASE replica'[r].alertTask = alertTask /\ alertTask' = alertTask
  BY <1>3, ExtendsItself
<1>. QED
  BY <1>2, <1>3, ReplicaStep

\* A row a replica has called back is one of the primary called back.
CalledBack(rows, order, level) ==
  \E i \in DOMAIN rows : IsOf(rows[i], order, level) /\ rows[i].IsCallback = 1

\* A count of called-back rows that is not empty has found one.
LEMMA CountedIsCalledBack ==
  \A rows, order, level :
    Counted(rows, order, level, 1) # {} <=> CalledBack(rows, order, level)
BY DEF Counted, CalledBack

\* A table that extends another has its called-back rows.
LEMMA CalledBackStays ==
  ASSUME NEW new, NEW old, NEW order, NEW level,
         Extends(new, old), CalledBack(old, order, level)
  PROVE  CalledBack(new, order, level)
BY DEF Extends, CalledBack, IsOf

\* What every replica knows to be called back stays so.
LEMMA EverywhereStays ==
  ASSUME TypeInv, ReplicaInv, [Next]_vars, NEW flow, CalledBackEverywhere(flow)
  PROVE  \A r \in Replicas :
           Counted(replica'[r].alertTask, flow.Id, GetLevel(flow), 1) # {}
<1> SUFFICES ASSUME NEW r \in Replicas
             PROVE  Counted(replica'[r].alertTask, flow.Id, GetLevel(flow), 1) # {}
  OBVIOUS
<1>1. CalledBack(replica[r].alertTask, flow.Id, GetLevel(flow))
  BY CountedIsCalledBack DEF CalledBackEverywhere, ReadDB
<1>2. CalledBack(alertTask, flow.Id, GetLevel(flow))
  BY <1>1, CalledBackStays DEF ReplicaInv
<1>. QED
  BY <1>1, <1>2, ReplicaStep, CountedIsCalledBack

-----------------------------------------------------------------------------
(***************************************************************************)
(* SilencedStaysSilent.  A delivery that comes when every replica knows    *)
(* never gets to the statements that lead to the metric.                   *)
(***************************************************************************)
Raising == {"count", "insert", "crossed"}

SilentInv ==
  /\ \A d \in Deliveries : pc[d] \in {"idle", "origin", "need"} \cup Raising => ~emitted[d]
  /\ \A d \in Deliveries : known[d] /\ ~unread[d] =>
       /\ pc[d] \notin Raising
       /\ pc[d] \in {"origin", "need"} =>
            \A r \in Replicas :
              Counted(replica[r].alertTask, Order(d), Level(d), 1) # {}
  /\ SilencedStaysSilent

\* No metric has been raised at the start.
LEMMA InitSilent == Init => SilentInv
BY DEF Init, SilentInv, SilencedStaysSilent, Raising

\* The way of a delivery to its metric.
LEMMA RaisingStep ==
  ASSUME TypeInv, NEW d \in Deliveries, Handle(d)
  PROVE  /\ emitted'[d] # emitted[d] => pc[d] = "crossed"
         /\ pc[d] # "idle" => request'[d] = request[d] /\ known'[d] = known[d]
         /\ pc'[d] \in {"idle", "origin", "need"} \cup Raising => emitted'[d] = emitted[d]
         /\ pc'[d] \in {"idle", "origin", "need"} \cup Raising =>
              pc[d] \in {"idle", "origin", "need"} \cup Raising
         /\ unread[d] => unread'[d]
         /\ pc'[d] \in Raising /\ pc[d] \notin Raising =>
              /\ pc[d] = "need"
              /\ \/ unread'[d]
                 \/ \E r \in Replicas :
                      Counted(replica[r].alertTask, Order(d), Level(d), 1) = {}
         /\ pc'[d] = "need" => pc[d] = "origin"
         /\ pc'[d] = "origin" =>
              /\ pc[d] = "idle" /\ replica' = replica
              /\ known'[d] = CalledBackEverywhere(Flow(d)')
<1> USE DEF TypeInv, TypeOK, Raising, Ended, OncallWorkOrderCallbackResponse,
            tables, call, cards, history, Goto
<1>1. CASE BadRequest(d)
  BY <1>1 DEF BadRequest
<1>2. CASE Receive(d)
  <2>1. PICK q \in Requests :
          /\ request' = [request EXCEPT ![d] = q]
          /\ known' = [known EXCEPT ![d] = CalledBackEverywhere(q.OncallFlow)]
    BY <1>2 DEF Receive
  <2>2. Flow(d)' = q.OncallFlow /\ known'[d] = CalledBackEverywhere(q.OncallFlow)
    BY <2>1 DEF Flow
  <2>3. known'[d] = CalledBackEverywhere(Flow(d)')
    BY <2>2
  <2>4. pc'[d] \in {"origin", "answered", "failed"}
    BY <1>2 DEF Receive, Answer
  <2>. QED
    BY <1>2, <2>3, <2>4 DEF Receive
<1>3. CASE SaveOrigin(d)
  <2>1. \E where \in {"panic", "listen", "need", "answered", "failed"} :
          pc' = [pc EXCEPT ![d] = where]
    BY <1>3 DEF SaveOrigin, AfterOrigin, Answer
  <2>. QED
    BY <1>3, <2>1 DEF SaveOrigin
<1>4. CASE Need(d)
  <2>1. \/ /\ pc'[d] \in {"count", "listen"}
           /\ pc'[d] = "count" =>
                \E r \in Replicas :
                  Counted(replica[r].alertTask, Order(d), Level(d), 1) = {}
           /\ unread' = unread
        \/ pc'[d] = "count" /\ unread'[d]
    BY <1>4 DEF Need, NeedNewAlertMetrics, ReadDB
  <2>. QED
    BY <1>4, <2>1 DEF Need
<1>5. CASE CountTask(d)
  BY <1>5 DEF CountTask
<1>6. CASE InsertTask(d)
  BY <1>6 DEF InsertTask
<1>7. CASE NoCrossFlow(d)
  BY <1>7 DEF NoCrossFlow
<1>8. CASE Emit(d)
  BY <1>8 DEF Emit
<1>9. CASE SaveListen(d)
  BY <1>9 DEF SaveListen, Answer
<1>10. CASE Lose(d)
  BY <1>10 DEF Lose
<1>. QED
  BY <1>1, <1>2, <1>3, <1>4, <1>5, <1>6, <1>7, <1>8, <1>9, <1>10 DEF Handle

\* Every step keeps a known delivery away from its metric.
LEMMA NextSilent == TypeInv /\ ReplicaInv /\ SilentInv /\ [Next]_vars => SilentInv'
<1> SUFFICES ASSUME TypeInv, ReplicaInv, SilentInv, [Next]_vars PROVE SilentInv'
  OBVIOUS
<1>1. \A d \in Deliveries : Handle(d) \/ Same(d)
  BY OneMoves
<1>2. \A d \in Deliveries : known[d] \in BOOLEAN /\ unread[d] \in BOOLEAN /\ emitted[d] \in BOOLEAN
  BY DEF TypeInv, TypeOK
<1>3. ASSUME NEW d \in Deliveries, pc'[d] \in {"idle", "origin", "need"} \cup Raising
      PROVE  ~emitted'[d]
  BY <1>1, <1>3, RaisingStep DEF Same, SilentInv
<1>4. ASSUME NEW d \in Deliveries, known'[d], ~unread'[d]
      PROVE  /\ pc'[d] \notin Raising
             /\ pc'[d] \in {"origin", "need"} =>
                  \A r \in Replicas :
                    Counted(replica'[r].alertTask, Order(d)', Level(d)', 1) # {}
             /\ ~emitted'[d]
  <2>1. CASE Same(d)
    <3>1. /\ known[d] /\ ~unread[d] /\ pc'[d] = pc[d] /\ emitted'[d] = emitted[d]
          /\ Order(d)' = Order(d) /\ Level(d)' = Level(d)
      BY <1>4, <2>1 DEF Same, Order, Level, Flow
    <3>2. pc[d] \notin Raising /\ ~emitted[d]
      BY <3>1 DEF SilentInv, SilencedStaysSilent
    <3>3. ASSUME pc[d] \in {"origin", "need"}
          PROVE  CalledBackEverywhere(Flow(d))
      BY <3>1, <3>3 DEF SilentInv, CalledBackEverywhere, ReadDB, Order, Level
    <3>4. ASSUME pc[d] \in {"origin", "need"}
          PROVE  \A r \in Replicas :
                   Counted(replica'[r].alertTask, Order(d), Level(d), 1) # {}
      BY <3>3, <3>4, EverywhereStays DEF Order, Level
    <3>. QED
      BY <3>1, <3>2, <3>4
  <2>2. CASE Handle(d) /\ pc[d] = "idle"
    <3>1. pc'[d] \notin Raising /\ pc'[d] # "need" /\ ~emitted[d]
      BY <2>2, RaisingStep DEF SilentInv, Raising
    <3>2. ~emitted'[d]
      BY <1>2, <2>2, <3>1, RaisingStep
    <3>3. pc'[d] = "origin" => replica' = replica /\ CalledBackEverywhere(Flow(d)')
      BY <1>4, <2>2, RaisingStep
    <3>. QED
      BY <3>1, <3>2, <3>3 DEF CalledBackEverywhere, ReadDB, Order, Level
  <2>3. CASE Handle(d) /\ pc[d] # "idle"
    <3>1. /\ known[d] /\ ~unread[d]
          /\ Order(d)' = Order(d) /\ Level(d)' = Level(d)
      BY <1>4, <2>3, RaisingStep DEF Order, Level, Flow
    <3>2. /\ pc[d] \notin Raising /\ ~emitted[d]
          /\ pc[d] \in {"origin", "need"} =>
               \A r \in Replicas :
                 Counted(replica[r].alertTask, Order(d), Level(d), 1) # {}
      BY <3>1 DEF SilentInv, SilencedStaysSilent
    <3>3. pc'[d] \notin Raising /\ ~emitted'[d]
      BY <1>4, <2>3, <3>2, RaisingStep DEF Raising
    <3>4. ASSUME pc'[d] \in {"origin", "need"}
          PROVE  CalledBackEverywhere(Flow(d))
      BY <2>3, <3>2, <3>4, RaisingStep DEF CalledBackEverywhere, ReadDB, Order, Level
    <3>5. ASSUME pc'[d] \in {"origin", "need"}
          PROVE  \A r \in Replicas :
                   Counted(replica'[r].alertTask, Order(d), Level(d), 1) # {}
      BY <3>4, <3>5, EverywhereStays DEF Order, Level
    <3>. QED
      BY <3>1, <3>3, <3>5
  <2>. QED
    BY <1>1, <2>1, <2>2, <2>3
<1>5. SilencedStaysSilent'
  BY <1>4 DEF SilencedStaysSilent
<1>. QED
  BY <1>3, <1>4, <1>5 DEF SilentInv

\* Once every replica knows of the callback no later delivery raises the alert.
THEOREM SilenceLasts == Spec => []SilencedStaysSilent
<1>1. SilentInv => SilencedStaysSilent
  BY DEF SilentInv
<1>. QED
  BY <1>1, InitType, NextType, InitReplica, NextReplica, InitSilent, NextSilent, PTL
     DEF Spec

-----------------------------------------------------------------------------
(***************************************************************************)
(* SilenceIsJustified.  A delivery that goes on without its metric has     *)
(* read a called-back row, which stays on the primary.                     *)
(***************************************************************************)
\* a row that withholds the metric of an order
Justifies(row, flow) ==
  /\ row.IsCallback = 1
  /\ row.Level = GetLevel(flow)
  /\ \/ row.OncallOriginID = flow.Id
     \/ /\ row.CrossOncallFlowID = flow.CrossOncallFlowId
        /\ row.RootField = GetRootFieldById(flow.TenantId)

Justified(rows, flow) == \E i \in DOMAIN rows : Justifies(rows[i], flow)

Withheld(d) ==
  /\ pc[d] = "listen" \/ (wired /\ pc[d] = "answered")
  /\ GetStage(Flow(d)) # "not_start" /\ Level(d) # "" /\ ~emitted[d]

JustifyInv == \A d \in Deliveries : Withheld(d) => Justified(alertTask, Flow(d))

\* A table that extends another has the rows that justify.
LEMMA JustifiedStays ==
  ASSUME NEW new, NEW old, NEW flow, Extends(new, old), Justified(old, flow)
  PROVE  Justified(new, flow)
<1>1. PICK i \in DOMAIN old : Justifies(old[i], flow)
  BY DEF Justified
<1>2. i \in DOMAIN new /\ Justifies(new[i], flow)
  BY <1>1 DEF Extends, Justifies
<1>. QED
  BY <1>2 DEF Justified

\* A delivery comes to be without its metric after reading a row that justifies it.
LEMMA WithheldStep ==
  ASSUME TypeInv, NEW d \in Deliveries, Handle(d), Withheld(d)'
  PROVE  /\ Flow(d)' = Flow(d)
         /\ Withheld(d) \/ \E r \in Replicas : Justified(replica[r].alertTask, Flow(d))
<1> USE DEF TypeInv, TypeOK, Ended, Handling, OncallWorkOrderCallbackResponse,
            tables, call, cards, history, Goto
<1>1. pc'[d] = "listen" \/ (wired' /\ pc'[d] = "answered")
  BY DEF Withheld
<1>2. GetStage(Flow(d)') # "not_start" /\ GetLevel(Flow(d)') # "" /\ ~emitted'[d]
  BY DEF Withheld, Level
<1>3. CASE BadRequest(d)
  BY <1>1, <1>3 DEF BadRequest
<1>4. CASE Receive(d)
  BY <1>1, <1>4 DEF Receive, Answer
<1>5. CASE SaveOrigin(d)
  <2>1. Flow(d)' = Flow(d)
    BY <1>5 DEF SaveOrigin, Flow
  <2>2. /\ pc'[d] = "answered" => GetStage(Flow(d)) = "not_start"
        /\ pc'[d] = "listen" => GetLevel(Flow(d)) = ""
    BY <1>5 DEF SaveOrigin, AfterOrigin, Answer
  <2>. QED
    BY <1>1, <1>2, <2>1, <2>2
<1>6. CASE Need(d)
  <2>1. Flow(d)' = Flow(d) /\ pc'[d] = "listen"
    BY <1>1, <1>6 DEF Need, Flow
  <2>2. PICK r \in Replicas : Counted(replica[r].alertTask, Order(d), Level(d), 1) # {}
    BY <1>6, <2>1 DEF Need, NeedNewAlertMetrics, ReadDB
  <2>3. Justified(replica[r].alertTask, Flow(d))
    BY <2>2, CountedIsCalledBack DEF CalledBack, IsOf, Order, Level, Justified, Justifies
  <2>. QED
    BY <2>1, <2>3
<1>7. CASE CountTask(d)
  BY <1>1, <1>7 DEF CountTask
<1>8. CASE InsertTask(d)
  BY <1>1, <1>8 DEF InsertTask
<1>9. CASE NoCrossFlow(d)
  BY <1>1, <1>9 DEF NoCrossFlow
<1>10. CASE Emit(d)
  <2>1. Flow(d)' = Flow(d)
    BY <1>10 DEF Emit, Flow
  <2>2. \/ \E r \in Replicas :
             emitted' = [emitted EXCEPT ![d] = ~HasCallback(replica[r].alertTask, Flow(d))]
        \/ emitted' = [emitted EXCEPT ![d] = TRUE]
    BY <1>10 DEF Emit, ReadDB
  <2>3. PICK r \in Replicas : HasCallback(replica[r].alertTask, Flow(d))
    BY <1>2, <2>2
  <2>4. Justified(replica[r].alertTask, Flow(d))
    BY <2>3 DEF HasCallback, Justified, Justifies
  <2>. QED
    BY <2>1, <2>4
<1>11. CASE SaveListen(d)
  <2>1. Flow(d)' = Flow(d) /\ emitted'[d] = emitted[d] /\ pc[d] = "listen"
    BY <1>11 DEF SaveListen, Flow
  <2>. QED
    BY <1>2, <2>1 DEF Withheld, Level
<1>12. CASE Lose(d)
  BY <1>1, <1>12 DEF Lose
<1>. QED
  BY <1>3, <1>4, <1>5, <1>6, <1>7, <1>8, <1>9, <1>10, <1>11, <1>12 DEF Handle

\* Nothing is withheld at the start.
LEMMA InitJustify == Init => JustifyInv
BY DEF Init, JustifyInv, Withheld

\* Every step keeps the row behind a silence.
LEMMA NextJustify == TypeInv /\ ReplicaInv /\ JustifyInv /\ [Next]_vars => JustifyInv'
<1> SUFFICES ASSUME TypeInv, ReplicaInv, JustifyInv, [Next]_vars,
                    NEW d \in Deliveries, Withheld(d)'
             PROVE  Justified(alertTask', Flow(d)')
  BY DEF JustifyInv
<1>1. Extends(alertTask', alertTask)
  BY RowsGrow
<1>2. CASE Handle(d)
  <2>1. /\ Flow(d)' = Flow(d)
        /\ Withheld(d) \/ \E r \in Replicas : Justified(replica[r].alertTask, Flow(d))
    BY <1>2, WithheldStep
  <2>2. Justified(alertTask, Flow(d))
    BY <2>1, JustifiedStays DEF JustifyInv, ReplicaInv
  <2>. QED
    BY <1>1, <2>1, <2>2, JustifiedStays
<1>3. CASE Same(d)
  <2>1. wired' = wired
    BY DEF Next, Handle, BadRequest, Receive, SaveOrigin, Need, CountTask, InsertTask,
           NoCrossFlow, Emit, SaveListen, Lose, HandleCard, BadCardRequest, AskCard,
           ReadRecord, MarkCalledBack, LoseCard, Replicate, vars
  <2>2. Flow(d)' = Flow(d) /\ Withheld(d)
    BY <1>3, <2>1 DEF Same, Withheld, Flow, Level
  <2>. QED
    BY <1>1, <2>2, JustifiedStays DEF JustifyInv
<1>. QED
  BY <1>2, <1>3, OneMoves

\* An alert is withheld only for one that Argos has called back for.
THEOREM NoAlertIsSwallowed == Spec => []SilenceIsJustified
<1>1. JustifyInv => SilenceIsJustified
  BY DEF JustifyInv, SilenceIsJustified, Alertable, Withheld, Justified, Justifies,
         Order, Level
<1>. QED
  BY <1>1, InitType, NextType, InitReplica, NextReplica, InitJustify, NextJustify, PTL
     DEF Spec

-----------------------------------------------------------------------------
(***************************************************************************)
(* The book of alerts.  A delivery before its metric has not raised it;    *)
(* with the invariants above each step is one of AlertBook or a stutter.   *)
(***************************************************************************)
Raisable == {"idle", "origin", "need", "count", "insert", "crossed"}

FirstInv == \A d \in Deliveries : pc[d] \in Raisable => ~emitted[d]

\* A delivery does not come back to where it may raise its metric.
LEMMA RaisableStep ==
  ASSUME TypeInv, NEW d \in Deliveries, Handle(d), pc'[d] \in Raisable
  PROVE  pc[d] \in Raisable /\ emitted'[d] = emitted[d]
<1> USE DEF TypeInv, TypeOK, Raisable, tables, call, cards, history, Goto,
            OncallWorkOrderCallbackResponse
<1>1. CASE BadRequest(d)
  BY <1>1 DEF BadRequest
<1>2. CASE Receive(d)
  BY <1>2 DEF Receive, Answer
<1>3. CASE SaveOrigin(d)
  BY <1>3 DEF SaveOrigin, AfterOrigin, Answer
<1>4. CASE Need(d)
  BY <1>4 DEF Need
<1>5. CASE CountTask(d)
  BY <1>5 DEF CountTask
<1>6. CASE InsertTask(d)
  BY <1>6 DEF InsertTask
<1>7. CASE NoCrossFlow(d)
  BY <1>7 DEF NoCrossFlow
<1>8. CASE Emit(d)
  BY <1>8 DEF Emit
<1>9. CASE SaveListen(d)
  BY <1>9 DEF SaveListen, Answer
<1>10. CASE Lose(d)
  BY <1>10 DEF Lose
<1>. QED
  BY <1>1, <1>2, <1>3, <1>4, <1>5, <1>6, <1>7, <1>8, <1>9, <1>10 DEF Handle

\* Nothing has been raised at the start.
LEMMA InitFirst == Init => FirstInv
BY DEF Init, FirstInv

\* Every step keeps FirstInv.
LEMMA NextFirst == TypeInv /\ FirstInv /\ [Next]_vars => FirstInv'
<1> SUFFICES ASSUME TypeInv, FirstInv, [Next]_vars,
                    NEW d \in Deliveries, pc'[d] \in Raisable
             PROVE  ~emitted'[d]
  BY DEF FirstInv
<1>1. CASE Handle(d)
  BY <1>1, RaisableStep DEF FirstInv
<1>2. CASE Same(d)
  BY <1>2 DEF Same, FirstInv
<1>. QED
  BY <1>1, <1>2, OneMoves

\* A row for the alert of a delivery is an entry of its subject.
LEMMA EntryOfNew ==
  \A flow, d : /\ EntryOf(NewAlertTask(flow, d)) = SubjectOf(flow)
               /\ NewAlertTask(flow, d).IsCallback = 0
BY DEF EntryOf, NewAlertTask, SubjectOf

\* An insert adds an entry, which is not answered.
LEMMA InsertEnters ==
  ASSUME NEW rows \in AlertTasks, NEW row \in AlertTask, row.IsCallback = 0
  PROVE  /\ Entries(Insert(rows, row)) = Entries(rows) \cup {EntryOf(row)}
         /\ Answered(Insert(rows, row)) = Answered(rows)
<1> DEFINE new == Insert(rows, row)
<1>1. /\ DOMAIN new = DOMAIN rows \cup {Len(rows) + 1} /\ Len(rows) + 1 \notin DOMAIN rows
      /\ \A i \in DOMAIN rows : new[i] = rows[i]
      /\ new[Len(rows) + 1] = row
  <2>1. /\ DOMAIN new = 1..(Len(rows) + 1) /\ DOMAIN rows = 1..Len(rows)
        /\ Len(rows) \in Nat /\ new[Len(rows) + 1] = row
        /\ \A i \in DOMAIN rows : new[i] = rows[i]
    BY InsertAdds
  <2>. HIDE DEF new
  <2>. QED
    BY <2>1
<1>. HIDE DEF new
<1>2. Entries(new) = Entries(rows) \cup {EntryOf(row)}
  BY <1>1 DEF Entries
<1>3. {j \in DOMAIN new : new[j].IsCallback = 1} = {j \in DOMAIN rows : rows[j].IsCallback = 1}
  BY <1>1
<1>4. Answered(new) = Answered(rows)
  BY <1>1, <1>3 DEF Answered
<1>. QED
  BY <1>2, <1>4 DEF new

\* The update enters nothing, and answers the entries of an order and level.
LEMMA UpdateAnswers ==
  ASSUME NEW rows \in AlertTasks, NEW order, NEW level
  PROVE  LET new == UpdateIsCallbackTrue(rows, order, level)
         IN /\ Entries(new) = Entries(rows)
            /\ Answered(new) = Answered(rows) \cup
                 {a \in Entries(rows) : a.order = order /\ a.level = level}
<1> DEFINE new == UpdateIsCallbackTrue(rows, order, level)
           ofIt == {i \in DOMAIN rows : IsOf(rows[i], order, level)}
<1>1. DOMAIN new = DOMAIN rows
  BY UpdateMarks
<1>2. ASSUME NEW i \in DOMAIN rows
      PROVE  /\ EntryOf(new[i]) = EntryOf(rows[i])
             /\ new[i].IsCallback = 1 <=> rows[i].IsCallback = 1 \/ i \in ofIt
  <2>1. rows[i] \in AlertTask
    BY DEF AlertTasks
  <2>2. new[i] = IF IsOf(rows[i], order, level)
                 THEN [rows[i] EXCEPT !.IsCallback = 1] ELSE rows[i]
    BY DEF UpdateIsCallbackTrue
  <2>. HIDE DEF new
  <2>. QED
    BY <2>1, <2>2 DEF AlertTask, EntryOf
<1>. HIDE DEF new
<1>3. Entries(new) = Entries(rows)
  BY <1>1, <1>2 DEF Entries
<1>4. {j \in DOMAIN new : new[j].IsCallback = 1} =
        {j \in DOMAIN rows : rows[j].IsCallback = 1} \cup ofIt
  BY <1>1, <1>2
<1>5. {EntryOf(rows[i]) : i \in ofIt} =
        {a \in Entries(rows) : a.order = order /\ a.level = level}
  BY DEF Entries, EntryOf, IsOf
<1>6. Answered(new) = Answered(rows) \cup {EntryOf(rows[i]) : i \in ofIt}
  <2>. HIDE DEF ofIt
  <2>. DEFINE was == {j \in DOMAIN rows : rows[j].IsCallback = 1}
  <2>1. was \subseteq DOMAIN rows /\ ofIt \subseteq DOMAIN rows
    BY DEF ofIt
  <2>2. Answered(new) = {EntryOf(new[i]) : i \in was \cup ofIt}
    BY <1>4 DEF Answered
  <2>3. Answered(rows) = {EntryOf(rows[i]) : i \in was}
    BY DEF Answered
  <2>. HIDE DEF was
  <2>. QED
    BY <1>2, <2>1, <2>2, <2>3
<1>. QED
  BY <1>3, <1>5, <1>6 DEF new

\* Two functions of deliveries that agree but for one differ there.
LEMMA OneChanges ==
  ASSUME NEW f, NEW g, NEW d \in Deliveries,
         f = [e \in Deliveries |-> f[e]], g = [e \in Deliveries |-> g[e]],
         \A e \in Deliveries \ {d} : g[e] = f[e]
  PROVE  /\ g = [f EXCEPT ![d] = g[d]]
         /\ g[d] = f[d] => g = f
OBVIOUS

\* Fate is a function of deliveries.
LEMMA FateIsFunction == Fate = [e \in Deliveries |-> Fate[e]]
BY DEF Fate

\* The same of About.
LEMMA AboutIsFunction == About = [e \in Deliveries |-> About[e]]
BY DEF About

\* Fate after a step.
LEMMA FateIsFunctionNext == Fate' = [e \in Deliveries |-> Fate'[e]]
BY DEF Fate

\* About after a step.
LEMMA AboutIsFunctionNext == About' = [e \in Deliveries |-> About'[e]]
BY DEF About

\* A step of a delivery changes its own fate at most, and its own subject.
LEMMA FateMoves ==
  ASSUME TypeInv, NEW d \in Deliveries, Handle(d)
  PROVE  /\ Fate' = [Fate EXCEPT ![d] = Fate'[d]]
         /\ About' = [About EXCEPT ![d] = About'[d]]
         /\ Fate'[d] = Fate[d] => UNCHANGED Fate
         /\ About'[d] = About[d] => UNCHANGED About
<1>1. wired' = wired
  BY DEF Handle, BadRequest, Receive, SaveOrigin, Need, CountTask, InsertTask,
         NoCrossFlow, Emit, SaveListen, Lose
<1>2. ASSUME NEW e \in Deliveries, e # d
      PROVE  Fate'[e] = Fate[e] /\ About'[e] = About[e]
  <2>1. Same(e)
    BY <1>2, OthersStay
  <2>2. Flow(e)' = Flow(e)
    BY <2>1 DEF Same, Flow
  <2>3. Alertable(e)' <=> Alertable(e)
    BY <1>1, <2>1, <2>2 DEF Alertable, Same, Level
  <2>4. e \in Awaited' <=> e \in Awaited
    BY <2>1 DEF Same, Awaited
  <2>. QED
    BY <2>1, <2>2, <2>3, <2>4 DEF Same, Fate, About
<1>3. /\ Fate' = [Fate EXCEPT ![d] = Fate'[d]]
      /\ Fate'[d] = Fate[d] => Fate' = Fate
  BY <1>2, FateIsFunction, FateIsFunctionNext, OneChanges
<1>4. /\ About' = [About EXCEPT ![d] = About'[d]]
      /\ About'[d] = About[d] => About' = About
  BY <1>2, AboutIsFunction, AboutIsFunctionNext, OneChanges
<1>. QED
  BY <1>3, <1>4

\* A delivery that neither comes, raises nor ends well stays what it was.
LEMMA FateKept ==
  ASSUME TypeInv, NEW d \in Deliveries, Handle(d), pc[d] \in Handling,
         pc'[d] \notin {"idle", "bad"}, request'[d] = request[d],
         emitted'[d] = emitted[d], emitted[d] \/ ~Alertable(d)'
  PROVE  UNCHANGED <<Fate, About>>
<1>1. Flow(d)' = Flow(d)
  BY DEF Flow
<1>2. ~Alertable(d) /\ d \notin Awaited /\ d \notin Awaited'
  BY DEF Alertable, Awaited, Handling
<1>3. Fate'[d] = Fate[d] /\ About'[d] = About[d]
  BY <1>1, <1>2 DEF Fate, About
<1>. QED
  BY <1>3, FateMoves

\* A delivery in hand is open unless it has raised its alert.
LEMMA FateInHand ==
  ASSUME TypeInv, NEW d \in Deliveries, pc[d] \in Handling
  PROVE  /\ Fate[d] = IF emitted[d] THEN "raised" ELSE "open"
         /\ About[d] = SubjectOf(Flow(d)) /\ About[d].order = Order(d)
         /\ About[d].level = Level(d)
<1>1. ~Alertable(d) /\ d \notin Awaited
  BY DEF Alertable, Awaited, Handling
<1>. QED
  BY <1>1 DEF Fate, About, SubjectOf, Order, Level

\* The orders with a row are one more when a row is saved.
LEMMA SavedAdds ==
  ASSUME NEW table, DOMAIN table = Orders, NEW o \in Orders, NEW row, row # Nil
  PROVE  Kept([table EXCEPT ![o] = row]) = Kept(table) \cup {o}
BY DEF Kept

BookInv == TypeInv /\ RecordInv /\ ReplicaInv /\ JustifyInv /\ FirstInv

\* A delivery comes, once.
LEMMA ComeStep ==
  ASSUME BookInv, NEW d \in Deliveries, Receive(d)
  PROVE  Book!Come(d)
<1> USE DEF BookInv, TypeInv, TypeOK
<1>1. PICK q \in Requests : request' = [request EXCEPT ![d] = q]
  BY DEF Receive
<1>2. /\ pc[d] = "idle" /\ pc'[d] \in {"origin", "answered", "failed"}
      /\ pc'[d] = "answered" => ~wired'
      /\ emitted' = emitted
  BY DEF Receive, Answer, Goto
<1>3. ~emitted[d]
  BY <1>2 DEF FirstInv, Raisable
<1>4. Fate[d] = "awaited" /\ Fate'[d] = "open"
  <2>1. ~Alertable(d) /\ ~Alertable(d)'
    BY <1>2 DEF Alertable
  <2>2. d \in Awaited /\ ~(d \in Awaited')
    BY <1>2 DEF Awaited
  <2>3. ~emitted'[d]
    BY <1>2, <1>3
  <2>. QED
    BY <1>3, <2>1, <2>2, <2>3 DEF Fate
<1>5. About'[d] = SubjectOf(q.OncallFlow)
  BY <1>1, <1>2 DEF About, Awaited, Flow
<1>6. Fate' = [Fate EXCEPT ![d] = "open"]
      /\ About' = [About EXCEPT ![d] = SubjectOf(q.OncallFlow)]
  BY <1>4, <1>5, FateMoves DEF Handle
<1>. QED
  BY <1>4, <1>6 DEF Book!Come, Receive, tables

\* The order of a delivery is kept.
LEMMA KeepStep ==
  ASSUME BookInv, NEW d \in Deliveries, SaveOrigin(d)
  PROVE  Book!Keep(d) \/ UNCHANGED Book!alertBook
<1> USE DEF BookInv, tables, Goto
<1>1. /\ pc[d] = "origin" /\ pc[d] \in Handling /\ UNCHANGED <<request, emitted>>
      /\ UNCHANGED <<alertTask, listen>>
  BY DEF SaveOrigin, call, Handling
<1>2. pc'[d] \in {"answered", "failed", "panic", "listen", "need"}
      /\ (pc'[d] = "answered" => GetStage(Flow(d)) = "not_start")
  BY DEF SaveOrigin, Answer, AfterOrigin, TypeInv, TypeOK
<1>3. ~Alertable(d)'
  BY <1>1, <1>2 DEF Alertable, Flow
<1>4. UNCHANGED <<Fate, About>>
  BY <1>1, <1>2, <1>3, FateKept DEF Handle
<1>5. Fate[d] = "open" /\ About[d].order = Order(d)
  BY <1>1, FateInHand DEF FirstInv, Raisable
<1>6. Kept(origin') = Kept(origin) \/ Kept(origin') = Kept(origin) \cup {Order(d)}
  <2>1. Order(d) \in Orders /\ CopyOriginalOncallRecord(Flow(d), d) # Nil
    BY <1>1, FlowTyped, CopyIsThere
  <2>2. \/ origin' = origin
        \/ origin' = [origin EXCEPT ![Order(d)] = CopyOriginalOncallRecord(Flow(d), d)]
    BY DEF SaveOrigin, Save
  <2>3. DOMAIN origin = Orders
    BY DEF TypeInv, TypeOK, OncallOriginRecords
  <2>. QED
    BY <2>1, <2>2, <2>3, SavedAdds
<1>7. UNCHANGED <<Kept(listen), Entries(alertTask), Answered(alertTask)>>
  BY <1>1
<1>. QED
  BY <1>4, <1>5, <1>6, <1>7 DEF Book!Keep, Book!alertBook

\* An alert that is due: what a delivery past the first statement has.
LEMMA DueNow ==
  ASSUME BookInv, NEW d \in Deliveries, pc[d] \in Alerting
  PROVE  Book!Due(d)
<1>1. pc[d] \in Handling /\ pc[d] \in Raisable /\ pc[d] \in Recorded
  BY DEF Alerting, Handling, Raisable, Recorded
<1>2. Order(d) \in Orders /\ Flow(d) \in OncallFlow /\ Level(d) # ""
  BY <1>1, FlowTyped DEF BookInv, TypeInv, CallsAreTyped
<1>3. Level(d) \in Levels
  BY <1>2, LevelTyped DEF Level
<1>4. Order(d) \in Kept(origin)
  BY <1>1, <1>2 DEF BookInv, RecordInv, Kept
<1>5. Fate[d] = "open" /\ About[d].order = Order(d) /\ About[d].level = Level(d)
  BY <1>1, FateInHand DEF BookInv, FirstInv
<1>. QED
  BY <1>3, <1>4, <1>5 DEF Book!Due

\* The alert of a delivery is entered.
LEMMA EnterStep ==
  ASSUME BookInv, NEW d \in Deliveries, InsertTask(d)
  PROVE  Book!Enter(d) \/ UNCHANGED Book!alertBook
<1>1. /\ pc[d] = "insert" /\ pc[d] \in Handling /\ pc[d] \in Alerting /\ pc'[d] = "crossed"
      /\ UNCHANGED <<request, emitted, origin, listen>>
  BY DEF InsertTask, call, Handling, Alerting, Goto, BookInv, TypeInv, TypeOK
<1>2. UNCHANGED <<Fate, About>>
  BY <1>1, FateKept DEF Handle, Alertable, BookInv
<1>3. Book!Due(d) /\ About[d] = SubjectOf(Flow(d))
  BY <1>1, DueNow, FateInHand DEF BookInv
<1>4. CASE alertTask' = alertTask
  BY <1>1, <1>2, <1>4 DEF Book!alertBook
<1>5. CASE alertTask' = Insert(alertTask, NewAlertTask(Flow(d), d))
  <2>1. NewAlertTask(Flow(d), d) \in AlertTask /\ alertTask \in AlertTasks
    BY <1>1, NewRowTyped DEF BookInv, TypeInv, TypeOK
  <2>2. /\ Entries(alertTask') = Entries(alertTask) \cup {SubjectOf(Flow(d))}
        /\ Answered(alertTask') = Answered(alertTask)
    BY <1>5, <2>1, InsertEnters, EntryOfNew
  <2>. QED
    BY <1>1, <1>2, <1>3, <2>2 DEF Book!Enter
<1>. QED
  BY <1>4, <1>5 DEF InsertTask

\* The metric is raised, or the delivery goes on without it.
LEMMA RaiseStep ==
  ASSUME BookInv, BookInv', NEW d \in Deliveries, Emit(d)
  PROVE  Book!Raise(d) \/ UNCHANGED Book!alertBook
<1>1. /\ pc[d] = "crossed" /\ pc[d] \in Handling /\ pc[d] \in Alerting /\ pc'[d] = "listen"
      /\ UNCHANGED <<request, origin, listen, alertTask>> /\ ~emitted[d]
  BY DEF Emit, tables, Handling, Alerting, Goto, BookInv, TypeInv, TypeOK, FirstInv, Raisable
<1>2. CASE ~emitted'[d]
  <2>1. emitted'[d] = emitted[d]
    BY <1>1, <1>2 DEF BookInv, TypeInv, TypeOK
  <2>2. ~Alertable(d)'
    BY <1>1 DEF Alertable
  <2>3. UNCHANGED <<Fate, About>>
    BY <1>1, <2>1, <2>2, FateKept DEF Handle, BookInv
  <2>. QED
    BY <1>1, <2>3 DEF Book!alertBook
<1>3. CASE emitted'[d]
  <2>1. Fate'[d] = "raised" /\ About'[d] = About[d]
    BY <1>1, <1>3 DEF Fate, About, Awaited, Flow
  <2>2. Fate' = [Fate EXCEPT ![d] = "raised"] /\ About' = About
    BY <2>1, FateMoves DEF Handle, BookInv
  <2>. QED
    BY <1>1, <2>2, DueNow DEF Book!Raise
<1>. QED
  BY <1>2, <1>3

\* The order is listened to; a delivery that ends well without its metric has a
\* called-back row that withheld it.
LEMMA ListenedStep ==
  ASSUME BookInv, BookInv', NEW d \in Deliveries, SaveListen(d)
  PROVE  Book!Listen(d) \/ UNCHANGED Book!alertBook
<1>1. /\ pc[d] = "listen" /\ pc[d] \in Handling /\ pc'[d] \in {"answered", "failed"}
      /\ UNCHANGED <<request, emitted, origin, alertTask>> /\ wired /\ wired' = wired
  BY DEF SaveListen, call, Handling, Goto, Answer, BookInv, TypeInv, TypeOK, CallsAreTyped
<1>2. Order(d) \in Orders /\ Flow(d) \in OncallFlow /\ Order(d) \in Kept(origin)
  BY <1>1, FlowTyped DEF BookInv, RecordInv, Kept, Recorded
<1>3. /\ Fate[d] = IF emitted[d] THEN "raised" ELSE "open"
      /\ About[d] = SubjectOf(Flow(d)) /\ About[d].order = Order(d)
      /\ About[d].level = Level(d)
  BY <1>1, FateInHand DEF BookInv
<1>4. \/ listen' = listen /\ pc'[d] = "failed"
      \/ Kept(listen') = Kept(listen) \cup {Order(d)}
  <2>1. NewListenTask(request[d].Action, d) # Nil
    BY NilAssumption DEF NewListenTask, StatusOf
  <2>2. DOMAIN listen = Orders
    BY DEF BookInv, TypeInv, TypeOK, OncallListenAlertTasks
  <2>3. \/ listen' = listen /\ pc'[d] = "failed"
        \/ listen' = [listen EXCEPT ![Order(d)] = NewListenTask(request[d].Action, d)]
    BY DEF SaveListen, Save, Goto, BookInv, TypeInv, TypeOK
  <2>. QED
    BY <1>2, <2>1, <2>2, <2>3, SavedAdds
<1>5. CASE emitted[d] \/ ~Alertable(d)'
  <2>1. UNCHANGED <<Fate, About>>
    BY <1>1, <1>5, FateKept DEF Handle, BookInv
  <2>. QED
    BY <1>1, <1>2, <1>3, <1>4, <2>1 DEF Book!Listen, Book!alertBook
<1>6. CASE ~emitted[d] /\ Alertable(d)'
  <2>1. pc'[d] = "answered" /\ Flow(d)' = Flow(d) /\ Level(d) # ""
    BY <1>1, <1>6 DEF Alertable, Flow, Level
  <2>2. Fate'[d] = "withheld" /\ About'[d] = About[d]
    BY <1>1, <1>6, <2>1 DEF Fate, About, Awaited
  <2>3. Fate' = [Fate EXCEPT ![d] = "withheld"] /\ About' = About
    BY <2>2, FateMoves DEF Handle, BookInv
  <2>4. Justified(alertTask, Flow(d))
    BY <1>1, <1>6, <2>1 DEF BookInv, JustifyInv, Withheld, Alertable
  <2>5. \E a \in Answered(alertTask) : Book!SpeaksFor(a, About[d])
    <3>1. PICK i \in DOMAIN alertTask : Justifies(alertTask[i], Flow(d))
      BY <2>4 DEF Justified
    <3>2. EntryOf(alertTask[i]) \in Answered(alertTask)
      BY <3>1 DEF Justifies, Answered
    <3>3. Book!SpeaksFor(EntryOf(alertTask[i]), SubjectOf(Flow(d)))
      BY <3>1 DEF Justifies, EntryOf, SubjectOf, Book!SpeaksFor
    <3>. QED
      BY <1>3, <3>2, <3>3
  <2>6. Level(d) \in Levels
    BY <1>2, <2>1, LevelTyped DEF Level
  <2>. QED
    BY <1>1, <1>2, <1>3, <1>4, <1>6, <2>1, <2>3, <2>5, <2>6 DEF Book!Listen, Book!Due
<1>. QED
  BY <1>5, <1>6

\* A card answers the entries of its order and level.
LEMMA CallBackStep ==
  ASSUME BookInv, NEW c \in Cards, MarkCalledBack(c)
  PROVE  (\E a \in Entries(alertTask) : Book!CallBack(a)) \/ UNCHANGED Book!alertBook
<1>1. UNCHANGED <<wired, pc, request, emitted, origin, listen>>
  BY DEF MarkCalledBack, call
<1>2. UNCHANGED <<Fate, About>>
  BY <1>1 DEF Fate, About, Awaited, Alertable, Flow, Level
<1>3. CASE alertTask' = alertTask
  BY <1>1, <1>2, <1>3 DEF Book!alertBook
<1>4. CASE Marked(c)
  <2>. DEFINE matching == {a \in Entries(alertTask) :
                             a.order = tags[c].originalOncallId /\ a.level = TagLevel(c)}
  <2>1. /\ Entries(alertTask') = Entries(alertTask)
        /\ Answered(alertTask') = Answered(alertTask) \cup matching
    BY <1>4, UpdateAnswers DEF Marked, BookInv, TypeInv, TypeOK
  <2>2. CASE matching = {}
    BY <1>1, <1>2, <2>1, <2>2 DEF Book!alertBook
  <2>3. CASE matching # {}
    <3>1. PICK a \in matching : TRUE
      BY <2>3
    <3>2. matching = {b \in Entries(alertTask) : b.order = a.order /\ b.level = a.level}
      OBVIOUS
    <3>. HIDE DEF matching
    <3>3. Book!CallBack(a)
      BY <1>1, <1>2, <2>1, <3>2 DEF Book!CallBack
    <3>. QED
      BY <3>3 DEF matching
  <2>. QED
    BY <2>2, <2>3
<1>. QED
  BY <1>3, <1>4 DEF MarkCalledBack, Marked

\* Nothing is in the book at the start.
LEMMA InitBook == Init => Book!Init
<1> SUFFICES ASSUME Init PROVE Book!Init
  OBVIOUS
<1>1. About = [d \in Deliveries |-> Nil] /\ Fate = [d \in Deliveries |-> "awaited"]
  BY DEF Init, About, Fate, Awaited, Alertable
<1>2. Kept(origin) = {} /\ Kept(listen) = {}
  BY DEF Init, Kept
<1>3. Entries(alertTask) = {} /\ Answered(alertTask) = {}
  BY DEF Init, Entries, Answered
<1>. QED
  BY <1>1, <1>2, <1>3 DEF Book!Init

\* Every step is one of the book or a stutter.
LEMMA BookStep == BookInv /\ BookInv' /\ [Next]_vars => [Book!Next]_(Book!alertBook)
<1> SUFFICES ASSUME BookInv, BookInv', [Next]_vars
             PROVE  Book!Next \/ UNCHANGED Book!alertBook
  OBVIOUS
<1>1. ASSUME NEW d \in Deliveries, Handle(d)
      PROVE  Book!Next \/ UNCHANGED Book!alertBook
  <2>. USE <1>1
  <2>1. CASE BadRequest(d)
    <3>1. /\ pc[d] = "idle" /\ pc'[d] = "bad"
          /\ UNCHANGED <<request, emitted, origin, listen, alertTask>>
      BY <2>1 DEF BadRequest, tables, call, Goto, BookInv, TypeInv, TypeOK
    <3>2. Fate'[d] = Fate[d] /\ About'[d] = About[d]
      BY <3>1 DEF Fate, About, Awaited, Alertable
    <3>3. UNCHANGED <<Fate, About>>
      BY <3>2, FateMoves DEF BookInv
    <3>. QED
      BY <3>1, <3>3 DEF Book!alertBook
  <2>2. CASE Receive(d)
    BY <2>2, ComeStep DEF Book!Next
  <2>3. CASE SaveOrigin(d)
    BY <2>3, KeepStep DEF Book!Next
  <2>4. CASE InsertTask(d)
    BY <2>4, EnterStep DEF Book!Next
  <2>5. CASE Emit(d)
    BY <2>5, RaiseStep DEF Book!Next
  <2>6. CASE SaveListen(d)
    BY <2>6, ListenedStep DEF Book!Next
  <2>7. CASE Need(d) \/ CountTask(d) \/ NoCrossFlow(d) \/ Lose(d)
    <3>1. /\ pc[d] \in Handling
          /\ pc'[d] \in {"count", "listen", "insert", "crossed", "panic", "lost"}
          /\ UNCHANGED <<request, emitted, origin, listen, alertTask>>
      BY <2>7 DEF Need, CountTask, NoCrossFlow, Lose, tables, call, Goto, Handling,
                  BookInv, TypeInv, TypeOK
    <3>2. UNCHANGED <<Fate, About>>
      BY <3>1, FateKept DEF Alertable, BookInv
    <3>. QED
      BY <3>1, <3>2 DEF Book!alertBook
  <2>. QED
    BY <2>1, <2>2, <2>3, <2>4, <2>5, <2>6, <2>7 DEF Handle
<1>2. ASSUME NEW c \in Cards, HandleCard(c)
      PROVE  Book!Next \/ UNCHANGED Book!alertBook
  <2>1. CASE MarkCalledBack(c)
    BY <2>1, CallBackStep DEF Book!Next
  <2>2. CASE ~MarkCalledBack(c)
    <3>1. UNCHANGED <<wired, pc, request, emitted, origin, listen, alertTask>>
      BY <1>2, <2>2 DEF HandleCard, BadCardRequest, AskCard, ReadRecord, LoseCard,
                        tables, call
    <3>. QED
      BY <3>1 DEF Book!alertBook, Fate, About, Awaited, Alertable, Flow, Level
  <2>. QED
    BY <2>1, <2>2
<1>3. CASE (\E r \in Replicas : Replicate(r)) \/ UNCHANGED vars
  <2>1. UNCHANGED <<wired, pc, request, emitted, origin, listen, alertTask>>
    BY <1>3 DEF Replicate, vars, tables, call
  <2>. QED
    BY <2>1 DEF Book!alertBook, Fate, About, Awaited, Alertable, Flow, Level
<1>. QED
  BY <1>1, <1>2, <1>3 DEF Next

\* The two callbacks keep the book: an order is kept before its alert is entered or
\* raised, a delivery raises once, and what it withholds has been answered.
THEOREM BookIsKept == Spec => KeepsBook
<1>1. Spec => []BookInv
  BY InitType, NextType, InitRecord, NextRecord, InitReplica, NextReplica, InitJustify,
     NextJustify, InitFirst, NextFirst, PTL DEF Spec, BookInv
<1>. QED
  BY <1>1, InitBook, BookStep, PTL DEF Spec, KeepsBook, Book!Spec

=============================================================================
