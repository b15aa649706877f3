----------------------------- MODULE OncallAlert -----------------------------
(***************************************************************************)
(* The alert path of the callback service: the work-order platform posts   *)
(* every change of an order (GetOncallCallback), the service keeps it, and *)
(* raises a metric once for each order and level; Argos turns the metric   *)
(* into an alarm and asks for its card (GetOncallArgosDIYCardCallback),    *)
(* which marks the alert as called back, so that it is not raised again.   *)
(*                                                                         *)
(* Handlers of any number of pods run at once and share only the database: *)
(* a step is one statement and the code up to the next.  Writes go to the  *)
(* primary, reads to a replica that lags behind it.  A statement may fail, *)
(* and a failed write may have been applied.                               *)
(*                                                                         *)
(* At this commit the two saves of the handler and query.Init are          *)
(* commented out: wired = FALSE is the program as it is, wired = TRUE the  *)
(* program with those lines, whose functions are all there.                *)
(***************************************************************************)
EXTENDS CallbackData

CONSTANTS
  Requests,      \* the bodies the platform may post
  CardRequests,  \* the bodies Argos may post
  Cards          \* calls of the Argos callback

ASSUME RequestAssumption ==
  /\ Requests \subseteq OncallWorkOrderCallbackRequest
  /\ CardRequests \subseteq ArgosTagValsCallBackRequest
  /\ "" \notin Levels
  /\ Orders \cap {"malformed"} = {}

VARIABLES
  wired,      \* the commented lines are in force
  origin,     \* table oncall_origin_record, by work order
  alertTask,  \* table alert_task, in the order of insertion
  listen,     \* table oncall_listen_alert_task, by work order
  replica,    \* what each read replica has of origin and alert_task
  pc,         \* where each delivery is, or how it ended
  request,    \* its body
  emitted,    \* it has raised the metric
  cardPc,     \* where each card is, or how it ended
  tags,       \* the tags it is asked for
  after,      \* history: the deliveries that had ended when this one came
  known,      \* history: every replica had a called-back row for it then
  unread,     \* history: its read of alert_task failed
  counted     \* history: rows of alert_task when it counted them

tables  == <<origin, alertTask, listen>>
call    == <<pc, request, emitted>>
cards   == <<cardPc, tags>>
history == <<after, known, unread, counted>>
vars    == <<wired, tables, replica, call, cards, history>>

Handling  == {"origin", "need", "count", "insert", "crossed", "listen"}
Ended     == OncallWorkOrderCallbackResponse \cup {"failed", "bad", "panic", "lost"}
CardEnded == ArgosTagValsCallBackResponse \cup {"failed", "bad", "panic", "lost"}

Flow(d)  == request[d].OncallFlow
Order(d) == Flow(d).Id
Level(d) == GetLevel(Flow(d))

Init ==
  /\ wired \in BOOLEAN
  /\ origin = [o \in Orders |-> Nil]
  /\ alertTask = <<>>
  /\ listen = [o \in Orders |-> Nil]
  /\ replica = [r \in Replicas |-> [origin |-> origin, alertTask |-> <<>>]]
  /\ pc = [d \in Deliveries |-> "idle"]
  /\ request = [d \in Deliveries |-> Nil]
  /\ emitted = [d \in Deliveries |-> FALSE]
  /\ cardPc = [c \in Cards |-> "idle"]
  /\ tags = [c \in Cards |-> Nil]
  /\ after = [d \in Deliveries |-> {}]
  /\ known = [d \in Deliveries |-> FALSE]
  /\ unread = [d \in Deliveries |-> FALSE]
  /\ counted = [d \in Deliveries |-> 0]

-----------------------------------------------------------------------------
(***************************************************************************)
(* The work-order callback.                                                *)
(***************************************************************************)
Goto(d, where) == pc' = [pc EXCEPT ![d] = where]

\* WriteHeader and the answer: 200, or 500 when the headers cannot be written
Answer(d) == \E how \in {"answered", "failed"} : Goto(d, how)

\* reads go to any replica
ReadDB(r) == replica[r]

CalledBackEverywhere(flow) ==
  \A r \in Replicas :
    Counted(ReadDB(r).alertTask, flow.Id, GetLevel(flow), 1) # {}

BadRequest(d) ==
  /\ pc[d] = "idle"
  /\ Goto(d, "bad")
  /\ UNCHANGED <<wired, tables, replica, request, emitted, cards, history>>

Receive(d) ==
  /\ pc[d] = "idle"
  /\ \E q \in Requests :
       /\ request' = [request EXCEPT ![d] = q]
       /\ known' = [known EXCEPT ![d] = CalledBackEverywhere(q.OncallFlow)]
  /\ after' = [after EXCEPT ![d] = {e \in Deliveries : pc[e] \in Ended}]
  /\ IF wired THEN Goto(d, "origin") ELSE Answer(d)
  /\ UNCHANGED <<wired, tables, replica, emitted, cards, unread, counted>>

\* what saveAlertTask does with the order before its first statement
AfterOrigin(flow) ==
  CASE flow.TenantId = Nil -> "panic"
    [] GetLevel(flow) = "" -> "listen"
    [] OTHER -> "need"

\* mutant: the error of the save is only logged
SaveOrigin_Ignored(d) ==
  /\ pc[d] = "origin"
  /\ \/ /\ origin' = Save(origin, Order(d), CopyOriginalOncallRecord(Flow(d), d))
        /\ IF GetStage(Flow(d)) = "not_start" THEN Answer(d)
                                             ELSE Goto(d, AfterOrigin(Flow(d)))
     \/ /\ UNCHANGED origin
        /\ Goto(d, AfterOrigin(Flow(d)))
  /\ UNCHANGED <<wired, alertTask, listen, replica, request, emitted, cards, history>>

SaveOrigin(d) ==
  /\ pc[d] = "origin"
  /\ LET saved == Save(origin, Order(d), CopyOriginalOncallRecord(Flow(d), d))
     IN \/ /\ origin' = saved
           /\ IF GetStage(Flow(d)) = "not_start" THEN Answer(d)
                                                ELSE Goto(d, AfterOrigin(Flow(d)))
        \/ /\ origin' \in {origin, saved}
           /\ Goto(d, "failed")
  /\ UNCHANGED <<wired, alertTask, listen, replica, request, emitted, cards, history>>

\* mutant: asks for the alerts Argos has not seen
NeedNewAlertMetrics_Unseen(d, r) ==
  Counted(ReadDB(r).alertTask, Order(d), Level(d), 0) = {}

NeedNewAlertMetrics(d, r) ==
  Counted(ReadDB(r).alertTask, Order(d), Level(d), 1) = {}

\* needNewAlertMetrics: a failed read asks for the metric
Need(d) ==
  /\ pc[d] = "need"
  /\ \/ /\ \E r \in Replicas :
             Goto(d, IF NeedNewAlertMetrics(d, r) THEN "count" ELSE "listen")
        /\ UNCHANGED unread
     \/ /\ Goto(d, "count")
        /\ unread' = [unread EXCEPT ![d] = TRUE]
  /\ UNCHANGED <<wired, tables, replica, request, emitted, cards, after, known, counted>>

\* mutant: the rows are counted on a replica
CountTask_OnReplica(d) ==
  /\ pc[d] = "count"
  /\ \E r \in Replicas :
       Goto(d, IF Counted(ReadDB(r).alertTask, Order(d), Level(d), 99) = {}
               THEN "insert" ELSE "crossed")
  /\ counted' = [counted EXCEPT ![d] = Len(alertTask)]
  /\ UNCHANGED <<wired, tables, replica, request, emitted, cards, after, known, unread>>

\* saveAlertMetricsTask: a failed count skips the save
CountTask(d) ==
  /\ pc[d] = "count"
  /\ \/ Goto(d, IF Counted(alertTask, Order(d), Level(d), 99) = {}
                THEN "insert" ELSE "crossed")
     \/ Goto(d, "crossed")
  /\ counted' = [counted EXCEPT ![d] = Len(alertTask)]
  /\ UNCHANGED <<wired, tables, replica, request, emitted, cards, after, known, unread>>

\* an error is only logged
InsertTask(d) ==
  /\ pc[d] = "insert"
  /\ alertTask' \in {alertTask, Insert(alertTask, NewAlertTask(Flow(d), d))}
  /\ Goto(d, "crossed")
  /\ UNCHANGED <<wired, origin, listen, replica, request, emitted, cards, history>>

\* the order belongs to no flow: the nil id is dereferenced, the row is there
NoCrossFlow(d) ==
  /\ pc[d] = "crossed"
  /\ Flow(d).CrossOncallFlowId = Nil
  /\ Goto(d, "panic")
  /\ UNCHANGED <<wired, tables, replica, request, emitted, cards, history>>

\* EmitCounterWithWorkOrderLevel: a failed count suppresses nothing
Emit(d) ==
  /\ pc[d] = "crossed"
  /\ Flow(d).CrossOncallFlowId # Nil
  /\ \/ \E r \in Replicas :
          emitted' = [emitted EXCEPT ![d] = ~HasCallback(ReadDB(r).alertTask, Flow(d))]
     \/ emitted' = [emitted EXCEPT ![d] = TRUE]
  /\ Goto(d, "listen")
  /\ UNCHANGED <<wired, tables, replica, request, cards, history>>

SaveListen(d) ==
  /\ pc[d] = "listen"
  /\ LET saved == Save(listen, Order(d), NewListenTask(request[d].Action, d))
     IN \/ /\ listen' = saved
           /\ Answer(d)
        \/ /\ listen' \in {listen, saved}
           /\ Goto(d, "failed")
  /\ UNCHANGED <<wired, origin, alertTask, replica, request, emitted, cards, history>>

\* the pod dies with the call in flight
Lose(d) ==
  /\ pc[d] \in Handling
  /\ Goto(d, "lost")
  /\ UNCHANGED <<wired, tables, replica, request, emitted, cards, history>>

-----------------------------------------------------------------------------
(***************************************************************************)
(* The Argos callback.                                                     *)
(***************************************************************************)
CardGoto(c, where) == cardPc' = [cardPc EXCEPT ![c] = where]

BadCardRequest(c) ==
  /\ cardPc[c] = "idle"
  /\ CardGoto(c, "bad")
  /\ UNCHANGED <<wired, tables, replica, call, tags, history>>

\* the tags name a work order, which is to be read
NamesOrder(t) == GetAlterType(t) = "workOrderLevel" /\ t.originalOncallId \in Orders

\* BuildDIYArgosCard: BuildGeneralCard dereferences a missing context, and
\* without query.Init the read dereferences the nil database handle
AskCard(c) ==
  /\ cardPc[c] = "idle"
  /\ \E q \in CardRequests :
       LET t == q.AlertContext
       IN /\ tags' = [tags EXCEPT ![c] = t]
          /\ CASE t = Nil -> CardGoto(c, "panic")
               [] t # Nil /\ NamesOrder(t) ->
                    CardGoto(c, IF wired THEN "read" ELSE "panic")
               [] OTHER -> \E how \in {"general", "failed"} : CardGoto(c, how)
  /\ UNCHANGED <<wired, tables, replica, call, history>>

\* BuildWorkOrderLevelCard: no row, or no read, is answered with the general card
ReadRecord(c) ==
  /\ cardPc[c] = "read"
  /\ \/ \E r \in Replicas :
          LET record == Take(ReadDB(r).origin, tags[c].originalOncallId)
          IN /\ record # Nil
             /\ CardGoto(c, IF record.Described THEN "mark" ELSE "panic")
     \/ \E how \in {"general", "failed"} : CardGoto(c, how)
  /\ UNCHANGED <<wired, tables, replica, call, tags, history>>

\* the level of the tags, "" when there is none
TagLevel(c) == GetValueByKeyInList(tags[c], "workOrderLevel")

\* an error of the update is only logged; the pod may die before the answer
MarkCalledBack(c) ==
  /\ cardPc[c] = "mark"
  /\ alertTask' \in
       {alertTask,
        UpdateIsCallbackTrue(alertTask, tags[c].originalOncallId, TagLevel(c))}
  /\ \E how \in {"level", "failed", "lost"} : CardGoto(c, how)
  /\ UNCHANGED <<wired, origin, listen, replica, call, tags, history>>

LoseCard(c) ==
  /\ cardPc[c] = "read"
  /\ CardGoto(c, "lost")
  /\ UNCHANGED <<wired, tables, replica, call, tags, history>>

-----------------------------------------------------------------------------
\* a replica catches up with the primary
Replicate(r) ==
  /\ replica' = [replica EXCEPT ![r] = [origin |-> origin, alertTask |-> alertTask]]
  /\ replica[r] # replica'[r]
  /\ UNCHANGED <<wired, tables, call, cards, history>>

Handle(d) ==
  \/ BadRequest(d) \/ Receive(d) \/ SaveOrigin(d) \/ Need(d) \/ CountTask(d)
  \/ InsertTask(d) \/ NoCrossFlow(d) \/ Emit(d) \/ SaveListen(d) \/ Lose(d)

HandleCard(c) ==
  \/ BadCardRequest(c) \/ AskCard(c) \/ ReadRecord(c) \/ MarkCalledBack(c)
  \/ LoseCard(c)

Next ==
  \/ \E d \in Deliveries : Handle(d)
  \/ \E c \in Cards : HandleCard(c)
  \/ \E r \in Replicas : Replicate(r)

Spec == Init /\ [][Next]_vars

-----------------------------------------------------------------------------
(***************************************************************************)
(* Properties.                                                             *)
(***************************************************************************)
Snapshot ==
  [origin : OncallOriginRecords, alertTask : AlertTasks]

\* Every table has rows of its type, every call a body once it has been
\* received, and a replica is an earlier state of the tables it copies.
TypeOK ==
  /\ wired \in BOOLEAN
  /\ origin \in OncallOriginRecords
  /\ alertTask \in AlertTasks
  /\ listen \in OncallListenAlertTasks
  /\ replica \in [Replicas -> Snapshot]
  /\ pc \in [Deliveries -> {"idle"} \cup Handling \cup Ended]
  /\ request \in [Deliveries -> Optional(Requests)]
  /\ emitted \in [Deliveries -> BOOLEAN]
  /\ cardPc \in [Cards -> {"idle", "read", "mark"} \cup CardEnded]
  /\ tags \in [Cards -> AlertContext]
  /\ after \in [Deliveries -> SUBSET Deliveries]
  /\ known \in [Deliveries -> BOOLEAN]
  /\ unread \in [Deliveries -> BOOLEAN]
  /\ counted \in [Deliveries -> Nat]

\* Two rows of one order and level come only from two deliveries between whose
\* count and insert the other's insert fell: the count is on the primary, so no
\* lag of a replica makes a duplicate (saveAlertMetricsTask).
DuplicateMeansRace ==
  \A j \in DOMAIN alertTask : \A i \in 1..(j - 1) :
    IsOf(alertTask[i], alertTask[j].OncallOriginID, alertTask[j].Level)
      => counted[alertTask[j].by] < i

\* No alert without its work order: what has a row in alert_task, a metric or a
\* listening row has its origin record on the primary, from which its card is
\* built (saveOncallWorkFlow fails before saveAlertTask begins).
EveryAlertHasItsRecord ==
  /\ \A i \in DOMAIN alertTask : origin[alertTask[i].OncallOriginID] # Nil
  /\ \A d \in Deliveries : emitted[d] => origin[Order(d)] # Nil
  /\ \A o \in Orders : listen[o] # Nil => origin[o] # Nil

\* the delivery ran to its end and its order was to be alerted
Alertable(d) ==
  /\ wired /\ pc[d] = "answered"
  /\ GetStage(Flow(d)) # "not_start" /\ Level(d) # ""

\* An alert is withheld only when Argos has called back for it, or for the same
\* level of another order of its flow and business: a stale replica, a failed
\* statement or another delivery may raise an alert twice, never swallow it.
SilenceIsJustified ==
  \A d \in Deliveries : Alertable(d) /\ ~emitted[d] =>
    \E i \in DOMAIN alertTask :
      /\ alertTask[i].IsCallback = 1
      /\ alertTask[i].Level = Level(d)
      /\ \/ alertTask[i].OncallOriginID = Order(d)
         \/ /\ alertTask[i].CrossOncallFlowID = Flow(d).CrossOncallFlowId
            /\ alertTask[i].RootField = GetRootFieldById(Flow(d).TenantId)

\* Once every replica knows that Argos has called back for an order and level, no
\* later delivery raises it again, unless its read of alert_task fails.
SilencedStaysSilent ==
  \A d \in Deliveries : known[d] /\ ~unread[d] => ~emitted[d]

\* What an answered delivery has saved is never what an earlier one left, one that
\* had ended before it came: not after any interleaving with it or with others.
LaterDeliveryWins ==
  \A d \in Deliveries : wired /\ pc[d] = "answered" =>
    /\ origin[Order(d)].by \notin after[d]
    /\ GetStage(Flow(d)) # "not_start" => listen[Order(d)].by \notin after[d]

\* An alert counts as called back only when Argos has asked for a card of its own
\* order and level.
MarkedMeansAsked ==
  \A i \in DOMAIN alertTask : alertTask[i].IsCallback = 1 =>
    \E c \in Cards :
      /\ cardPc[c] \in {"level", "failed", "lost"}
      /\ tags[c] # Nil
      /\ IsOf(alertTask[i], tags[c].originalOncallId, tags[c].workOrderLevel)

\* The two callbacks keep the book of alerts: subjects are what bodies are about, kept
\* and listened orders those with a row, entries the rows of alert_task whatever their
\* number, answered those that are called back on the primary.
SubjectOf(flow) ==
  [order |-> flow.Id, level |-> GetLevel(flow), flow |-> flow.CrossOncallFlowId,
   field |-> GetRootFieldById(flow.TenantId)]

EntryOf(row) ==
  [order |-> row.OncallOriginID, level |-> row.Level, flow |-> row.CrossOncallFlowID,
   field |-> row.RootField]

Entries(rows) == {EntryOf(rows[i]) : i \in DOMAIN rows}

Answered(rows) == {EntryOf(rows[i]) : i \in {j \in DOMAIN rows : rows[j].IsCallback = 1}}

Awaited == {d \in Deliveries : pc[d] \in {"idle", "bad"}}

Fate == [d \in Deliveries |-> CASE emitted[d] -> "raised"
                               [] ~emitted[d] /\ Alertable(d) -> "withheld"
                               [] ~emitted[d] /\ d \in Awaited -> "awaited"
                               [] OTHER -> "open"]

About == [d \in Deliveries |-> IF d \in Awaited THEN Nil ELSE SubjectOf(Flow(d))]

Kept(table) == {o \in Orders : table[o] # Nil}

Book == INSTANCE AlertBook
          WITH Delivery <- Deliveries,
               Subject  <- {SubjectOf(q.OncallFlow) : q \in Requests},
               Grade    <- Levels,
               Nothing  <- Nil,
               about    <- About,
               fate     <- Fate,
               kept     <- Kept(origin),
               listened <- Kept(listen),
               book     <- Entries(alertTask),
               answered <- Answered(alertTask)

KeepsBook == Book!Spec

=============================================================================
