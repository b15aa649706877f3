---------------------------- MODULE CallbackData ----------------------------
(***************************************************************************)
(* The messages of the work-order and Argos callbacks (biz/model), the     *)
(* rows of the tables they are kept in (biz/dal) and the statements the    *)
(* service runs on them.  A message keeps the fields the handlers look at; *)
(* Described stands for Name and IsSolved, which a card dereferences.  A   *)
(* row has a column the database has not: by, the delivery that wrote it.  *)
(***************************************************************************)
EXTENDS Integers, Sequences

CONSTANTS
  Orders,      \* ids of work orders
  Levels,      \* their levels, P0..P4
  Tenants,     \* tenants, named for the business they belong to
  CrossFlows,  \* ids of the flows that several orders may share
  Deliveries,  \* calls of the work-order callback
  Replicas,    \* read replicas of the database
  Nil          \* a nil pointer, a NULL column, a row that is not there

ASSUME NilAssumption ==
  /\ Nil \notin Orders \cup CrossFlows \cup Deliveries
  /\ Nil \notin [Described : BOOLEAN, by : Deliveries]
  /\ Nil \notin [Status : {0, 1, 99}, by : Deliveries]

Optional(S) == S \cup {Nil}

-----------------------------------------------------------------------------
(***************************************************************************)
(* Messages.  A getter of a missing field returns the zero value.          *)
(***************************************************************************)
OncallFlow ==
  [Id : Orders, TenantId : Optional(Tenants), Level : Optional(Levels),
   Stage : Optional({"not_start", "doing"}),
   CrossOncallFlowId : Optional(CrossFlows), Described : BOOLEAN]

OncallWorkOrderCallbackRequest ==
  [Action : {"init", "solve_flow", ""}, OncallFlow : OncallFlow]

GetLevel(flow) == IF flow.Level = Nil THEN "" ELSE flow.Level
GetStage(flow) == IF flow.Stage = Nil THEN "" ELSE flow.Stage

\* the tags of an alert, by key; an id may be one that is not a number
Tags ==
  [metricType : Optional({"workOrderLevel", "other"}),
   originalOncallId : Optional(Orders \cup {"malformed"}),
   workOrderLevel : Optional(Levels)]

AlertContext == Optional(Tags)

ArgosTagValsCallBackRequest == [AlertContext : AlertContext]

\* the value of a tag, "" when the tag is not there
GetValueByKeyInList(tags, key) == IF tags[key] = Nil THEN "" ELSE tags[key]

GetAlterType(tags) == GetValueByKeyInList(tags, "metricType")

\* the answers with a card: the general one, or that of the level
ArgosTagValsCallBackResponse == {"general", "level"}

OncallWorkOrderCallbackResponse == {"answered"}

-----------------------------------------------------------------------------
(***************************************************************************)
(* Tenants and the business each belongs to.                               *)
(***************************************************************************)
IdToField == [cstTenant |-> "CST", setTenant |-> "SET", rdTenant |-> "RD"]

RootFields == {"CST", "SET", "RD", "UNKNOWN"}

GetRootFieldById(t) ==
  IF t \in DOMAIN IdToField THEN IdToField[t] ELSE "UNKNOWN"

-----------------------------------------------------------------------------
(***************************************************************************)
(* Rows.  alert_task has no unique key besides its own id; the other two   *)
(* tables have one row for each work order.                                *)
(***************************************************************************)
AlertTask ==
  [OncallOriginID : Orders, Level : Levels, IsCallback : {0, 1},
   CrossOncallFlowID : Optional(CrossFlows), RootField : RootFields,
   by : Deliveries]

OncallOriginRecord == [Described : BOOLEAN, by : Deliveries]

OncallListenAlertTask == [Status : {0, 1, 99}, by : Deliveries]

AlertTasks             == Seq(AlertTask)
OncallOriginRecords    == [Orders -> Optional(OncallOriginRecord)]
OncallListenAlertTasks == [Orders -> Optional(OncallListenAlertTask)]

\* StructCopy and TimeParseFromString: the columns no handler reads are left out
CopyOriginalOncallRecord(flow, d) == [Described |-> flow.Described, by |-> d]

NewAlertTask(flow, d) ==
  [OncallOriginID |-> flow.Id, Level |-> GetLevel(flow), IsCallback |-> 0,
   CrossOncallFlowID |-> flow.CrossOncallFlowId,
   RootField |-> GetRootFieldById(flow.TenantId), by |-> d]

StatusOf(action) ==
  CASE action = "init" -> 0 [] action = "solve_flow" -> 99 [] OTHER -> 1

NewListenTask(action, d) == [Status |-> StatusOf(action), by |-> d]

-----------------------------------------------------------------------------
(***************************************************************************)
(* Statements.                                                             *)
(***************************************************************************)
\* mutant: the row that is there is kept (ON CONFLICT DO NOTHING)
Save_KeepOld(table, order, row) ==
  [table EXCEPT ![order] = IF @ = Nil THEN row ELSE @]

\* INSERT ... ON DUPLICATE KEY UPDATE of a table with a unique key
Save(table, order, row) == [table EXCEPT ![order] = row]

Insert(rows, row) == Append(rows, row)

\* SELECT ... LIMIT 1 by the unique key, Nil when there is no row
Take(table, order) == table[order]

IsOf(row, order, level) == row.OncallOriginID = order /\ row.Level = level

\* the rows of a work order and level with a value of is_callback; 99 stands for any
Counted(rows, order, level, isCallback) ==
  {i \in DOMAIN rows : /\ IsOf(rows[i], order, level)
                       /\ isCallback = 99 \/ rows[i].IsCallback = isCallback}

\* mutant: every level of the work order
UpdateIsCallbackTrue_AnyLevel(rows, order, level) ==
  [i \in DOMAIN rows |->
     IF rows[i].OncallOriginID = order
     THEN [rows[i] EXCEPT !.IsCallback = 1] ELSE rows[i]]

UpdateIsCallbackTrue(rows, order, level) ==
  [i \in DOMAIN rows |->
     IF IsOf(rows[i], order, level)
     THEN [rows[i] EXCEPT !.IsCallback = 1] ELSE rows[i]]

\* mutant: suppressed by any alert of the flow, seen by Argos or not
HasCallback_AnyRow(rows, flow) ==
  \E i \in DOMAIN rows :
    /\ rows[i].CrossOncallFlowID = flow.CrossOncallFlowId
    /\ rows[i].RootField = GetRootFieldById(flow.TenantId)
    /\ rows[i].Level = GetLevel(flow)

\* IsExistOrderLevelAlertTaskWithCrossOncallFlowIdAndRootFieldAndHasCallback
HasCallback(rows, flow) ==
  \E i \in DOMAIN rows :
    /\ rows[i].CrossOncallFlowID = flow.CrossOncallFlowId
    /\ rows[i].RootField = GetRootFieldById(flow.TenantId)
    /\ rows[i].Level = GetLevel(flow)
    /\ rows[i].IsCallback = 1

=============================================================================
