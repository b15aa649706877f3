------------------------------- MODULE Gateway -------------------------------
(***************************************************************************)
(* The test pages and mocks of the callback service and its alarm proxy,   *)
(* behind their routes.                                                    *)
(*                                                                         *)
(* DisposeStress serves a key of TCC from a process-wide cache that a      *)
(* listener fills (TccGet); other pages ask TCC at each request; IDVMock,  *)
(* AutoTestIdv and DisposeTest4 relay the disposal centre; the alarm       *)
(* callback is relayed to another region.  Requests run at once; a step is *)
(* the code between two calls that leave the process.                      *)
(*                                                                         *)
(* External, modelled from their use: a TCC client that may fail, whose    *)
(* AddListener hands the callback the value it has fetched before it       *)
(* returns and whose one polling loop hands it each later one; the         *)
(* disposal centre; the other region.  The versions of a key are numbered. *)
(***************************************************************************)
EXTENDS Pages

CONSTANTS
  Requests,    \* the requests of a run
  Targets,     \* the <<method, path>> they may have
  Broken,      \* versions whose text is not a JSON object
  Blank,       \* versions whose text is empty
  Codes,       \* the status codes of the other region
  MaxVersion   \* bound: versions of a key

Handler == [t \in Targets |-> Dispatch(t[1], t[2])]

TccHandlers == {"DisposeStress"} \cup DOMAIN TccPages \cup DOMAIN SilentPages

TccTargets == {t \in Targets : Handler[t] \in TccHandlers}

\* the key a page of TCC reads, the one DisposeStress asks for
KeyOf ==
  [t \in TccTargets |->
     CASE Handler[t] \in DOMAIN TccPages -> TccPages[Handler[t]]
       [] Handler[t] \in DOMAIN SilentPages -> SilentPages[Handler[t]]
       [] OTHER -> PathKey(t[2])]

Keys == {KeyOf[t] : t \in TccTargets}

Versions == 1..MaxVersion
None     == 0            \* nothing published, cached or fetched
Failed   == MaxVersion + 1
Quiet    == MaxVersion + 2  \* a request that has added no listener

ASSUME GatewayAssumption ==
  /\ MaxVersion \in Nat \ {0}
  /\ Broken \subseteq Versions /\ Blank \subseteq Versions
  /\ Broken \cap Blank = {}

VARIABLES
  site,      \* where the service runs: in BOE, in a TTP region or elsewhere
  conf,      \* the latest version of each key
  cache,     \* listenerCache
  seen,      \* what the listener a request has added was last handed
  polling    \* what the polling loop has fetched: <<request, version>>
VARIABLES
  pc,        \* where each request is
  target,    \* its method and path
  got,       \* the version it has fetched
  region,    \* what the other region made of its alarm
  reply,     \* its answer
  warm,      \* history: its key was cached when it came
  silent     \* history: the other region did not answer its alarm

tcc     == <<conf, cache, seen, polling>>
request == <<pc, target, got, region, reply>>
history == <<warm, silent>>
vars    == <<site, tcc, request, history>>

Key(r) == KeyOf[target[r]]

Init ==
  /\ site \in {"boe", "ttp", "other"}
  /\ conf = [k \in Keys |-> None]
  /\ cache = [k \in Keys |-> None]
  /\ seen = [r \in Requests |-> Quiet]
  /\ polling = <<>>
  /\ pc = [r \in Requests |-> "idle"]
  /\ target = [r \in Requests |-> <<>>]
  /\ got = [r \in Requests |-> None]
  /\ region = [r \in Requests |-> None]
  /\ reply = [r \in Requests |-> Empty]
  /\ warm = [r \in Requests |-> FALSE]
  /\ silent = [r \in Requests |-> FALSE]

Goto(r, where) == pc' = [pc EXCEPT ![r] = where]

Reply(r, answer) == reply' = [reply EXCEPT ![r] = answer] /\ Goto(r, "done")

Await(r, where) == Goto(r, where) /\ UNCHANGED reply

-----------------------------------------------------------------------------
(***************************************************************************)
(* The first step of each handler.                                         *)
(***************************************************************************)
DisposeStress(r) == Await(r, "load")

IDVMock(r) == Reply(r, Answer(400, "bad_request")) \/ Await(r, "dispose")

AutoTestIdv(r) == Reply(r, Answer(400, "bad_request")) \/ Await(r, "dispose")

\* IDVMock in a TTP region
DisposeTest4(r) == IF site = "ttp" THEN IDVMock(r) ELSE Reply(r, Empty)

HandleAlarmCallback(r) == Reply(r, Page("bind_parameter_err")) \/ Await(r, "alarm")

Receive(r, t) ==
  /\ pc[r] = "idle"
  /\ target' = [target EXCEPT ![r] = t]
  /\ LET h == Handler[t]
     IN /\ warm' = [warm EXCEPT ![r] = h = "DisposeStress" /\ cache[KeyOf[t]] # None]
        /\ \/ h \in DOMAIN ConstantPages /\ Reply(r, ConstantPages[h])
           \/ h \in DOMAIN TccPages \cup DOMAIN SilentPages /\ Await(r, "get")
           \/ h = "DisposeStress" /\ DisposeStress(r)
           \/ h = "DisposeTest4" /\ DisposeTest4(r)
           \/ h = "IDVMock" /\ IDVMock(r)
           \/ h = "AutoTestIdv" /\ AutoTestIdv(r)
           \/ h = "HandleAlarmCallback" /\ HandleAlarmCallback(r)
           \/ h = "action" /\ Reply(r, Empty)
  /\ UNCHANGED <<site, tcc, got, region, silent>>

-----------------------------------------------------------------------------
(***************************************************************************)
(* Pages of TCC.                                                           *)
(***************************************************************************)
\* what a read of TCC returns
Reads(k) == {Failed} \cup (IF conf[k] = None THEN {} ELSE {conf[k]})

\* an error and an empty text give the default, a text JsonToMapNew cannot
\* parse makes it panic
TccPage(v) ==
  IF v \in {Failed} \cup Blank THEN Page("default")
  ELSE IF v \in Broken THEN Panic ELSE Text(v)

Get(r) ==
  /\ pc[r] = "get"
  /\ \E v \in Reads(Key(r)) :
       Reply(r, IF Handler[target[r]] \in DOMAIN SilentPages THEN Empty ELSE TccPage(v))
  /\ UNCHANGED <<site, tcc, target, got, region, history>>

-----------------------------------------------------------------------------
(***************************************************************************)
(* TccGet.                                                                 *)
(***************************************************************************)
\* mutant: an error empties the cache
Callback_Forget(k, v) == cache' = [cache EXCEPT ![k] = IF v = Failed THEN None ELSE v]

\* mutant: the value is stored before the error is looked at
Callback_StoreError(k, v) == cache' = [cache EXCEPT ![k] = v]

\* mutant: the first value stays (LoadOrStore)
Callback_KeepFirst(k, v) ==
  cache' = [cache EXCEPT ![k] = IF v # Failed /\ @ = None THEN v ELSE @]

\* the listener's callback: an error is only logged
Callback(k, v) == cache' = IF v = Failed THEN cache ELSE [cache EXCEPT ![k] = v]

Load(r) ==
  /\ pc[r] = "load"
  /\ Goto(r, IF cache[Key(r)] = None THEN "listen" ELSE "value")
  /\ UNCHANGED <<site, tcc, target, got, region, reply, history>>

ListenFails(r) ==
  /\ pc[r] = "listen"
  /\ Reply(r, Answer(500, "tcc_listen_err"))
  /\ UNCHANGED <<site, tcc, target, got, region, history>>

\* AddListener fetches the value, and then hands it to the callback
ListenFetches(r) ==
  /\ pc[r] = "listen"
  /\ \E v \in Reads(Key(r)) : got' = [got EXCEPT ![r] = v]
  /\ Goto(r, "listening")
  /\ UNCHANGED <<site, tcc, target, region, reply, history>>

AddListener(r) ==
  /\ pc[r] = "listening"
  /\ Callback(Key(r), got[r])
  /\ seen' = [seen EXCEPT ![r] = IF got[r] = Failed THEN None ELSE got[r]]
  /\ Goto(r, "value")
  /\ UNCHANGED <<site, conf, polling, target, got, region, reply, history>>

\* with nothing cached the type assertion v.(string) panics
Value(r) ==
  /\ pc[r] = "value"
  /\ Reply(r, IF cache[Key(r)] = None THEN Panic ELSE Text(cache[Key(r)]))
  /\ UNCHANGED <<site, tcc, target, got, region, history>>

\* the polling loop of the client
Poll(r, v) ==
  /\ polling = <<>>
  /\ seen[r] # Quiet
  /\ v \in Reads(Key(r))
  /\ v # seen[r]
  /\ polling' = <<r, v>>
  /\ UNCHANGED <<site, conf, cache, seen, request, history>>

Deliver ==
  /\ polling # <<>>
  /\ LET r == polling[1]
         v == polling[2]
     IN /\ Callback(Key(r), v)
        /\ seen' = IF v = Failed THEN seen ELSE [seen EXCEPT ![r] = v]
  /\ polling' = <<>>
  /\ UNCHANGED <<site, conf, request, history>>

Publish(k) ==
  /\ conf[k] < MaxVersion
  /\ conf' = [conf EXCEPT ![k] = @ + 1]
  /\ UNCHANGED <<site, cache, seen, polling, request, history>>

-----------------------------------------------------------------------------
(***************************************************************************)
(* IDVMock and AutoTestIdv.                                                *)
(***************************************************************************)
\* in a TTP region the body stays behind
Relayed(status) ==
  Answer(status, IF site = "ttp" THEN "{}" ELSE "body_of_disposal_centre")

\* what IDVMock says of a request that is not disposed of
Exempt == Page(IF site = "ttp" THEN "{}" ELSE "request_exempt")

\* what each makes of DisposeV2: its error, an answer to relay, or none
Disposed == {Page("error_of_disposal_centre")} \cup {Relayed(c) : c \in {200, 403}}

IDVMockAnswers     == Disposed \cup {Exempt}
AutoTestIdvAnswers == Disposed \cup {Empty}

IDV(r) ==
  /\ pc[r] = "dispose"
  /\ \/ Handler[target[r]] = "AutoTestIdv" /\ \E a \in AutoTestIdvAnswers : Reply(r, a)
     \/ Handler[target[r]] # "AutoTestIdv" /\ \E a \in IDVMockAnswers : Reply(r, a)
  /\ UNCHANGED <<site, tcc, target, got, region, history>>

-----------------------------------------------------------------------------
(***************************************************************************)
(* The alarm proxy.                                                        *)
(***************************************************************************)
\* mutant: the error of the call is not looked at
AlarmReply_NoError(code, err) ==
  CASE code = 504 -> Answer(504, "StatusGatewayTimeout")
    [] code = 500 -> Answer(500, "StatusInternalServerError")
    [] OTHER -> Page("resp")

\* HandleAlarmCallback's deferred answer to what CrossIDCCallV2 returns
AlarmReply(code, err) ==
  CASE code = 504 -> Answer(504, "StatusGatewayTimeout")
    [] code = 500 -> Answer(500, "StatusInternalServerError")
    [] OTHER -> Page(IF err THEN "error_text" ELSE "resp")

\* the other region takes the alarm, and makes an answer of it
RegionAnswers(r) ==
  /\ pc[r] = "alarm" /\ site # "boe"
  /\ \E code \in Codes : region' = [region EXCEPT ![r] = code]
  /\ Goto(r, "answering")
  /\ UNCHANGED <<site, tcc, target, got, reply, history>>

\* CrossIDCCallV2: in BOE nothing is called
CallSkipped(r) ==
  /\ pc[r] = "alarm" /\ site = "boe"
  /\ Reply(r, AlarmReply(0, FALSE))
  /\ UNCHANGED <<site, tcc, target, got, region, history>>

\* CrossIDCCallV2: no connection, or no answer within ten minutes
CallFails(r) ==
  /\ pc[r] \in {"alarm", "answering"} /\ site # "boe"
  /\ Reply(r, AlarmReply(0, TRUE))
  /\ silent' = [silent EXCEPT ![r] = TRUE]
  /\ UNCHANGED <<site, tcc, target, got, region, warm>>

\* CrossIDCCallV2: the body may be cut short, or be no JSON
CallReturns(r) ==
  /\ pc[r] = "answering"
  /\ \E err \in BOOLEAN :
       /\ region[r] # 200 => err
       /\ Reply(r, AlarmReply(region[r], err))
  /\ UNCHANGED <<site, tcc, target, got, region, history>>

-----------------------------------------------------------------------------
Handle(r) ==
  \/ Get(r) \/ Load(r) \/ ListenFails(r) \/ ListenFetches(r) \/ AddListener(r)
  \/ Value(r) \/ IDV(r) \/ RegionAnswers(r) \/ CallSkipped(r) \/ CallFails(r)
  \/ CallReturns(r)

Next ==
  \/ \E r \in Requests, t \in Targets : Receive(r, t)
  \/ \E r \in Requests : Handle(r)
  \/ \E r \in Requests, v \in Versions \cup {Failed} : Poll(r, v)
  \/ Deliver
  \/ \E k \in Keys : Publish(k)

\* the runtime runs every request it has begun and the polling loop; a listener's
\* poll that is tried again and again succeeds again and again
Fairness ==
  /\ \A r \in Requests : WF_vars(Handle(r))
  /\ WF_vars(Deliver)
  /\ \A r \in Requests, v \in Versions : SF_vars(Poll(r, v))

Spec     == Init /\ [][Next]_vars
FairSpec == Spec /\ Fairness

-----------------------------------------------------------------------------
(***************************************************************************)
(* Properties.                                                             *)
(***************************************************************************)
Statuses == {200, 400, 403, 500, 504}

\* A request is at one of its places, with an answer of a status that is sent; no failed
\* read of TCC is cached, or handed to a listener.
TypeOK ==
  /\ site \in {"boe", "ttp", "other"}
  /\ conf \in [Keys -> {None} \cup Versions]
  /\ cache \in [Keys -> {None} \cup Versions]
  /\ seen \in [Requests -> {None, Quiet} \cup Versions]
  /\ polling \in {<<>>} \cup (Requests \X (Versions \cup {Failed}))
  /\ pc \in [Requests -> {"idle", "get", "load", "listen", "listening", "value",
                          "dispose", "alarm", "answering", "done"}]
  /\ target \in [Requests -> Targets \cup {<<>>}]
  /\ got \in [Requests -> {None, Failed} \cup Versions]
  /\ region \in [Requests -> {None} \cup Codes]
  /\ \A r \in Requests : reply[r].status \in Statuses
  /\ warm \in [Requests -> BOOLEAN]
  /\ silent \in [Requests -> BOOLEAN]

\* A DisposeStress request whose key was cached when it came is served, and adds no
\* listener: neither an error of TCC nor another request empties the cache again.
WarmKeysServe ==
  \A r \in Requests : warm[r] /\ pc[r] = "done" =>
    reply[r].status = 200 /\ seen[r] = Quiet

\* A page never shows a text that its own key has not had: not on an error of TCC,
\* nor from a listener added by another path; a parsed page never a broken one.
BodyWasConfigured ==
  \A r \in Requests : pc[r] = "done" /\ Handler[target[r]] \in TccHandlers =>
    IF reply[r].body = "text"
    THEN /\ reply[r].version \in 1..conf[Key(r)]
         /\ Handler[target[r]] # "DisposeStress" => reply[r].version \notin Broken
    ELSE reply[r].body \in {"", "default", "panic", "tcc_listen_err"}

\* The answer of the alarm proxy that says the alarm was taken is given only when
\* the other region has said so, or in BOE, where nothing is called.
AlarmTruth ==
  \A r \in Requests :
    reply[r] = Page("resp") => site = "boe" \/ (region[r] = 200 /\ ~silent[r])

\* The requests that have added a listener of a key.
Listeners(k) == {r \in Requests : seen[r] # Quiet /\ Key(r) = k}

\* A cached value that is not the latest does not go unnoticed: of the listeners that
\* concurrent first requests have added, one has not been handed the latest either, so
\* that its next poll brings it; nothing fetched earlier is stored after it for good.
StaleIsNoticed ==
  \A k \in Keys : cache[k] # conf[k] /\ Listeners(k) # {} =>
    \E r \in Listeners(k) : seen[r] # conf[k]

\* Once a key is no longer published its cached value becomes the latest one, though
\* the fetches of concurrent first requests and of the polling loop are stored in any
\* order.
EventuallyFresh ==
  \A r \in Requests :
    <>[](seen[r] \in Versions => cache[Key(r)] = conf[Key(r)])

=============================================================================
