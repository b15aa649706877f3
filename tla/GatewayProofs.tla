---------------------------- MODULE GatewayProofs ----------------------------
(***************************************************************************)
(* Proofs about Gateway, for any number of requests, any set of paths and  *)
(* any number of versions of a key.                                        *)
(***************************************************************************)
EXTENDS Gateway, TLAPS

-----------------------------------------------------------------------------
(***************************************************************************)
(* The pages.                                                              *)
(***************************************************************************)
\* the handlers of TCC, named
TccNames ==
  {"DisposeStress",
   "DisposeTest1", "DisposeTest2", "DisposeTest3", "DisposeTest5", "DisposeTest6",
   "DisposeTest7", "DisposeTest8", "DisposeStress21", "DisposeStress22",
   "DisposeStress27", "DisposeStress28", "PoisonTest1", "PoisonTest2", "PoisonTest3",
   "PoisonTest4", "PoisonTest5", "PoisonTest6", "PoisonTest7",
   "DisposeTest9", "DisposeTest10"}

\* a page that does not say that an alarm was taken
Harmless(page) ==
  page.status = 200 /\ page.body # "resp"

\* harmless pages of handlers that are none of TCC
Innocent(pages) == \A h \in DOMAIN pages : h \notin TccNames /\ Harmless(pages[h])

\* Innocent tables make an innocent table.
LEMMA InnocentTogether ==
  ASSUME NEW tables, \A f \in tables : Innocent(f)
  PROVE  Innocent(Merged(tables))
<1> DEFINE all == Merged(tables)
<1>1. DOMAIN all = UNION {DOMAIN f : f \in tables}
  BY DEF Merged
<1>2. ASSUME NEW h \in DOMAIN all
      PROVE  \E f \in tables : h \in DOMAIN f /\ all[h] = f[h]
  <2>1. \E f \in tables : h \in DOMAIN f
    BY <1>1
  <2> QED BY <1>1, <2>1 DEF Merged
<1> HIDE DEF all
<1>3. ASSUME NEW h \in DOMAIN all
      PROVE  h \notin TccNames /\ Harmless(all[h])
  <2>1. PICK f \in tables : h \in DOMAIN f /\ all[h] = f[h]
    BY <1>2
  <2>2. Innocent(f)
    OBVIOUS
  <2> QED BY <2>1, <2>2 DEF Innocent
<1>4. Innocent(all)
  BY <1>3 DEF Innocent
<1> QED BY <1>4 DEF all

\* All constant pages are innocent.
LEMMA ConstantPagesAreInnocent == Innocent(ConstantPages)
<1> USE DEF Innocent, TccNames, Harmless, Page, Answer
<1>1. Innocent(TestBacks)
  BY DEF TestBacks, Ping, TestBack1, TestBack4, TestBack5, TestBack11, TestBack12,
         TestBack13, TestBack14, TestBack15, TestBack16, Stress5
<1>2. Innocent(Tests1to3) /\ Innocent(ColorTests)
  BY DEF Tests1to3, ColorTests
<1>3. Innocent(TuoMinTests) /\ Innocent(PoisonPages)
  BY DEF TuoMinTests, PoisonPages
<1>4. Innocent(Stress1to4) /\ Innocent(Stress6to8)
  BY DEF Stress1to4, Stress6to8, Message
<1>5. Innocent(Stress9to10) /\ Innocent(Stress11to20)
  BY DEF Stress9to10, Stress11to20
<1>6. Innocent(Stress23to26) /\ Innocent(Stress101to103)
  BY DEF Stress23to26, Stress101to103
<1> HIDE DEF Innocent
<1> QED BY <1>1, <1>2, <1>3, <1>4, <1>5, <1>6, InnocentTogether DEF ConstantPages

\* The pages of TCC, and all handlers of TCC, are those named.
LEMMA TccPagesAreNamed ==
  /\ TccHandlers = TccNames
  /\ DOMAIN TccPages \cup DOMAIN SilentPages = TccNames \ {"DisposeStress"}
<1>1. DOMAIN TccPages = TccNames \ {"DisposeStress", "DisposeTest9", "DisposeTest10"}
  <2>1. DOMAIN DisposeTests1to3 = {"DisposeTest1", "DisposeTest2", "DisposeTest3"}
    BY DEF DisposeTests1to3
  <2>2. DOMAIN DisposeTests5to8 =
          {"DisposeTest5", "DisposeTest6", "DisposeTest7", "DisposeTest8"}
    BY DEF DisposeTests5to8
  <2>3. DOMAIN Stress21to22 = {"DisposeStress21", "DisposeStress22"}
    BY DEF Stress21to22
  <2>4. DOMAIN Stress27to28 = {"DisposeStress27", "DisposeStress28"}
    BY DEF Stress27to28
  <2>5. DOMAIN PoisonTests = {"PoisonTest1", "PoisonTest2", "PoisonTest3", "PoisonTest4",
                              "PoisonTest5", "PoisonTest6", "PoisonTest7"}
    BY DEF PoisonTests
  <2>6. DOMAIN TccPages =
          DOMAIN DisposeTests1to3 \cup DOMAIN DisposeTests5to8 \cup DOMAIN Stress21to22
            \cup DOMAIN Stress27to28 \cup DOMAIN PoisonTests
    BY DEF TccPages, Merged
  <2> QED BY <2>1, <2>2, <2>3, <2>4, <2>5, <2>6 DEF TccNames
<1>2. DOMAIN SilentPages = {"DisposeTest9", "DisposeTest10"}
  BY DEF SilentPages
<1> QED BY <1>1, <1>2 DEF TccHandlers, TccNames

(***************************************************************************)
(* The handlers are apart: DisposeStress reads no page, a constant page is *)
(* not of TCC, and neither are the mocks and the alarm proxy.              *)
(***************************************************************************)
LEMMA HandlersAreApart ==
  /\ "DisposeStress" \notin DOMAIN TccPages \cup DOMAIN SilentPages
  /\ {"DisposeTest4", "IDVMock", "AutoTestIdv", "HandleAlarmCallback", "action"}
       \cap TccHandlers = {}
  /\ DOMAIN ConstantPages \cap TccHandlers = {}
<1>1. "DisposeStress" \notin DOMAIN TccPages \cup DOMAIN SilentPages
  BY TccPagesAreNamed DEF TccNames
<1>2. {"DisposeTest4", "IDVMock", "AutoTestIdv", "HandleAlarmCallback", "action"}
        \cap TccHandlers = {}
  BY TccPagesAreNamed DEF TccNames
<1>3. DOMAIN ConstantPages \cap TccHandlers = {}
  <2> SUFFICES ASSUME NEW h \in DOMAIN ConstantPages PROVE h \notin TccNames
    BY TccPagesAreNamed
  <2> QED BY ConstantPagesAreInnocent DEF Innocent
<1> QED BY <1>1, <1>2, <1>3

-----------------------------------------------------------------------------
(***************************************************************************)
(* Answers and reads.                                                      *)
(***************************************************************************)

\* The three marks are no versions, and differ.
LEMMA MarksAreApart ==
  /\ MaxVersion \in Nat \ {0}
  /\ None \notin Versions /\ Failed \notin Versions /\ Quiet \notin Versions
  /\ None # Failed /\ None # Quiet /\ Failed # Quiet
  BY GatewayAssumption DEF None, Failed, Quiet, Versions

\* A read of TCC fails or gives a version that has been published.
LEMMA ReadsArePublished ==
  ASSUME NEW k \in Keys, conf \in [Keys -> {None} \cup Versions], NEW v \in Reads(k)
  PROVE  /\ v \in {Failed} \cup Versions
         /\ v \in {Failed} \cup 1..conf[k]
<1>1. conf[k] = None \/ conf[k] \in Versions
  OBVIOUS
<1> QED BY <1>1, MarksAreApart DEF Reads, Versions

\* What a page of TCC shows.
LEMMA TccPageShows ==
  ASSUME NEW v
  PROVE  /\ TccPage(v).status \in Statuses
         /\ TccPage(v).body \in {"default", "panic", "text"}
         /\ TccPage(v).body = "text" => /\ TccPage(v).version = v
                                        /\ v \notin {Failed} \cup Broken
  BY DEF TccPage, Page, Answer, Text, Panic, Statuses

\* What the mocks of the disposal centre say.
LEMMA DisposalsSay ==
  ASSUME NEW a \in IDVMockAnswers \cup AutoTestIdvAnswers
  PROVE  /\ a.status \in Statuses
         /\ a.body # "resp"
<1>1. \/ a = Page("error_of_disposal_centre") \/ a = Exempt \/ a = Empty
      \/ \E c \in {200, 403} : a = Relayed(c)
  BY DEF IDVMockAnswers, AutoTestIdvAnswers, Disposed
<1>2. CASE a = Page("error_of_disposal_centre")
  BY <1>2 DEF Page, Answer, Statuses
<1>3. CASE a = Exempt
  BY <1>3 DEF Exempt, Page, Answer, Statuses
<1>4. CASE a = Empty
  BY <1>4 DEF Empty, Page, Answer, Statuses
<1>5. CASE \E c \in {200, 403} : a = Relayed(c)
  <2>1. PICK c \in {200, 403} : a = Relayed(c)
    BY <1>5
  <2>2. a.status = c
    BY <2>1 DEF Relayed, Answer
  <2>3. a.status \in Statuses
    BY <2>2 DEF Statuses
  <2>4. a.body \in {"{}", "body_of_disposal_centre"}
    BY <2>1 DEF Relayed, Answer
  <2> QED BY <2>3, <2>4
<1> QED BY <1>1, <1>2, <1>3, <1>4, <1>5

\* What the alarm proxy says.
LEMMA AlarmReplySays ==
  ASSUME NEW code, NEW err \in BOOLEAN
  PROVE  /\ AlarmReply(code, err).status \in Statuses
         /\ AlarmReply(code, err).body = "resp" => ~err
  BY DEF AlarmReply, Page, Answer, Statuses

\* The answers that are given at once, and when a listener cannot be added.
QuickAnswers ==
  {Empty, Panic, Answer(400, "bad_request"), Answer(500, "tcc_listen_err"),
   Page("bind_parameter_err")}
    \cup {ConstantPages[h] : h \in DOMAIN ConstantPages}

\* None of them is an alarm taken.
LEMMA QuickAnswersSay ==
  ASSUME NEW a \in QuickAnswers
  PROVE  /\ a.status \in Statuses
         /\ a.body # "resp"
<1> USE DEF QuickAnswers
<1>1. CASE a = Empty
  BY <1>1 DEF Empty, Page, Answer, Statuses
<1>2. CASE a = Panic
  BY <1>2 DEF Panic, Answer, Statuses
<1>3. CASE a = Answer(400, "bad_request") \/ a = Answer(500, "tcc_listen_err")
  BY <1>3 DEF Answer, Statuses
<1>4. CASE a = Page("bind_parameter_err")
  BY <1>4 DEF Page, Answer, Statuses
<1>5. CASE a \in {ConstantPages[h] : h \in DOMAIN ConstantPages}
  <2>1. Harmless(a)
    BY <1>5, ConstantPagesAreInnocent DEF Innocent
  <2> QED BY <2>1 DEF Harmless, Statuses
<1> QED BY <1>1, <1>2, <1>3, <1>4, <1>5

-----------------------------------------------------------------------------
(***************************************************************************)
(* The invariant.                                                          *)
(***************************************************************************)
Of(r) == Handler[target[r]]

(***************************************************************************)
(* A request is where its handler leads; only DisposeStress adds a         *)
(* listener, only listeners are polled, and nothing is answered before the *)
(* end.                                                                    *)
(***************************************************************************)
PlaceInv ==
  /\ reply = [r \in Requests |-> reply[r]]
  /\ polling # <<>> => polling[1] \in Requests /\ seen[polling[1]] # Quiet
  /\ \A r \in Requests :
       /\ pc[r] # "idle" => target[r] \in Targets
       /\ pc[r] = "get" => Of(r) \in DOMAIN TccPages \cup DOMAIN SilentPages
       /\ pc[r] \in {"load", "listen", "listening", "value"} => Of(r) = "DisposeStress"
       /\ pc[r] \in {"dispose", "alarm", "answering"} => Of(r) \notin TccHandlers
       /\ seen[r] # Quiet => pc[r] \in {"value", "done"} /\ Of(r) = "DisposeStress"
       /\ pc[r] # "done" => reply[r] = Empty

\* What is fetched, polled or cached of a key has been published of that key.
VersionInv ==
  /\ \A k \in Keys : cache[k] \in 0..conf[k]
  /\ \A r \in Requests : pc[r] = "listening" => got[r] \in {Failed} \cup 1..conf[Key(r)]
  /\ polling # <<>> => polling[2] \in {Failed} \cup 1..conf[Key(polling[1])]

\* A request that came to a cached key goes from Load to Value, and finds it there.
WarmInv ==
  \A r \in Requests : warm[r] =>
    /\ pc[r] \in {"load", "value", "done"}
    /\ Of(r) = "DisposeStress"
    /\ cache[Key(r)] # None
    /\ seen[r] = Quiet
    /\ pc[r] = "done" => reply[r].status = 200

\* An alarm is called taken by the answer only, and an unanswered one is done with.
AlarmInv ==
  \A r \in Requests :
    /\ silent[r] => pc[r] = "done"
    /\ reply[r].body = "resp" => site = "boe" \/ (region[r] = 200 /\ ~silent[r])

TypeInv == TypeOK /\ PlaceInv
IInv == TypeInv /\ VersionInv /\ WarmInv /\ AlarmInv /\ BodyWasConfigured

\* A request to a handler of TCC has a key.
LEMMA KeyIsAKey ==
  ASSUME NEW r \in Requests, target[r] \in Targets, Of(r) \in TccHandlers
  PROVE  Key(r) \in Keys
  BY DEF Of, Key, Keys, TccTargets

\* the answer is one of a few whose status is known
LEMMA ReplyType ==
  ASSUME TypeInv, NEW r \in Requests, NEW a, Reply(r, a), pc[r] # "done",
         a.status \in Statuses
  PROVE  /\ reply' = [q \in Requests |-> IF q = r THEN a ELSE reply[q]]
         /\ \A q \in Requests : reply'[q].status \in Statuses
         /\ pc' = [q \in Requests |-> IF q = r THEN "done" ELSE pc[q]]
<1>1. reply = [q \in Requests |-> reply[q]] /\ pc = [q \in Requests |-> pc[q]]
  BY DEF TypeInv, TypeOK, PlaceInv
<1>2. reply' = [reply EXCEPT ![r] = a] /\ pc' = [pc EXCEPT ![r] = "done"]
  BY DEF Reply, Goto
<1>3. reply' = [q \in Requests |-> IF q = r THEN a ELSE reply[q]]
  BY <1>1, <1>2
<1>4. pc' = [q \in Requests |-> IF q = r THEN "done" ELSE pc[q]]
  BY <1>1, <1>2
<1> QED BY <1>3, <1>4 DEF TypeInv, TypeOK

\* An answered request keeps types and places.
LEMMA ReplyKeeps ==
  ASSUME TypeInv, NEW r \in Requests, NEW a, Reply(r, a), pc[r] # "done",
         a.status \in Statuses,
         target' \in [Requests -> Targets \cup {<<>>}], target'[r] \in Targets,
         \A q \in Requests \ {r} : target'[q] = target[q],
         seen[r] # Quiet => Handler[target'[r]] = "DisposeStress",
         got' = got, region' = region, tcc' = tcc, site' = site,
         warm' \in [Requests -> BOOLEAN], silent' \in [Requests -> BOOLEAN]
  PROVE  TypeInv'
<1>1. /\ reply' = [q \in Requests |-> IF q = r THEN a ELSE reply[q]]
      /\ \A q \in Requests : reply'[q].status \in Statuses
      /\ pc' = [q \in Requests |-> IF q = r THEN "done" ELSE pc[q]]
  BY ReplyType
<1>2. TypeOK'
  BY <1>1 DEF TypeInv, TypeOK, tcc
<1>3. PlaceInv'
  BY <1>1 DEF TypeInv, TypeOK, PlaceInv, Of, tcc
<1> QED BY <1>2, <1>3 DEF TypeInv

(***************************************************************************)
(* A handler's first step answers at once, or awaits at the place that is  *)
(* its own.                                                                *)
(***************************************************************************)
LEMMA ReceiveLeads ==
  ASSUME NEW r \in Requests, NEW t \in Targets, Receive(r, t)
  PROVE  \/ \E a \in QuickAnswers :
              /\ Reply(r, a)
              /\ Handler[t] \notin TccHandlers
         \/ /\ Await(r, "get")
            /\ Handler[t] \in DOMAIN TccPages \cup DOMAIN SilentPages
         \/ Await(r, "load") /\ Handler[t] = "DisposeStress"
         \/ /\ Await(r, "dispose") \/ Await(r, "alarm")
            /\ Handler[t] \notin TccHandlers
<1> DEFINE h == Handler[t]
<1>1. CASE h \in DOMAIN ConstantPages /\ Reply(r, ConstantPages[h])
  BY <1>1, HandlersAreApart DEF QuickAnswers
<1>2. CASE h \in DOMAIN TccPages \cup DOMAIN SilentPages /\ Await(r, "get")
  BY <1>2
<1>3. CASE h = "DisposeStress" /\ DisposeStress(r)
  BY <1>3 DEF DisposeStress
<1>4. CASE h \in {"DisposeTest4", "IDVMock", "AutoTestIdv", "HandleAlarmCallback", "action"}
  <2>1. h \notin TccHandlers
    BY <1>4, HandlersAreApart
  <2>2. h # "DisposeStress" /\ h \notin DOMAIN TccPages \cup DOMAIN SilentPages
    BY <2>1 DEF TccHandlers
  <2>3. CASE h \in DOMAIN ConstantPages /\ Reply(r, ConstantPages[h])
    BY <2>1, <2>3 DEF QuickAnswers
  <2>4. CASE \/ h = "DisposeTest4" /\ DisposeTest4(r)
             \/ h = "IDVMock" /\ IDVMock(r)
             \/ h = "AutoTestIdv" /\ AutoTestIdv(r)
             \/ h = "HandleAlarmCallback" /\ HandleAlarmCallback(r)
             \/ h = "action" /\ Reply(r, Empty)
    BY <2>1, <2>4 DEF DisposeTest4, IDVMock, AutoTestIdv, HandleAlarmCallback, QuickAnswers
  <2> QED BY <2>2, <2>3, <2>4 DEF Receive
<1> QED BY <1>1, <1>2, <1>3, <1>4 DEF Receive

\* Dispatch keeps types and places.
LEMMA ReceiveType ==
  ASSUME TypeInv, NEW r \in Requests, NEW t \in Targets, Receive(r, t)
  PROVE  TypeInv'
<1>1. /\ target' = [target EXCEPT ![r] = t] /\ pc[r] = "idle"
      /\ got' = got /\ region' = region /\ tcc' = tcc /\ site' = site /\ silent' = silent
      /\ warm' = [warm EXCEPT ![r] = Handler[t] = "DisposeStress" /\ cache[KeyOf[t]] # None]
  BY DEF Receive
<1>2. /\ target' \in [Requests -> Targets \cup {<<>>}] /\ target'[r] = t
      /\ \A q \in Requests \ {r} : target'[q] = target[q]
      /\ warm' \in [Requests -> BOOLEAN] /\ silent' \in [Requests -> BOOLEAN]
      /\ seen[r] = Quiet
  BY <1>1 DEF TypeInv, TypeOK, PlaceInv
<1>3. ASSUME NEW a \in QuickAnswers, Reply(r, a)
      PROVE  TypeInv'
  BY <1>1, <1>2, <1>3, QuickAnswersSay, ReplyKeeps
<1>4. ASSUME NEW place \in {"get", "load", "dispose", "alarm"}, Await(r, place),
             place = "get" => Handler[t] \in DOMAIN TccPages \cup DOMAIN SilentPages,
             place = "load" => Handler[t] = "DisposeStress",
             place \in {"dispose", "alarm"} => Handler[t] \notin TccHandlers
      PROVE  TypeInv'
  <2>1. reply' = reply /\ pc' = [pc EXCEPT ![r] = place]
    BY <1>4 DEF Await, Goto
  <2>2. TypeOK'
    BY <1>1, <1>2, <2>1 DEF TypeInv, TypeOK, tcc
  <2>3. PlaceInv'
    BY <1>1, <1>2, <1>4, <2>1 DEF TypeInv, TypeOK, PlaceInv, Of, tcc
  <2> QED BY <2>2, <2>3 DEF TypeInv
<1> QED BY <1>3, <1>4, ReceiveLeads

\* Every step of a handler keeps types and places.
LEMMA HandleType ==
  ASSUME TypeInv, NEW r \in Requests, Handle(r)
  PROVE  TypeInv'
<1>0. /\ target \in [Requests -> Targets \cup {<<>>}]
      /\ warm \in [Requests -> BOOLEAN] /\ silent \in [Requests -> BOOLEAN]
      /\ pc[r] # "idle" => target[r] \in Targets
      /\ seen[r] # Quiet => Of(r) = "DisposeStress"
  BY DEF TypeInv, TypeOK, PlaceInv
<1>1. ASSUME NEW a, Reply(r, a), pc[r] \notin {"idle", "done"}, a.status \in Statuses,
             site' = site, tcc' = tcc, target' = target, got' = got, region' = region,
             warm' = warm, silent' \in [Requests -> BOOLEAN]
      PROVE  TypeInv'
  BY <1>0, <1>1, ReplyKeeps DEF Of
<1>2. CASE Get(r)
  <2>1. PICK v \in Reads(Key(r)) :
          Reply(r, IF Handler[target[r]] \in DOMAIN SilentPages THEN Empty ELSE TccPage(v))
    BY <1>2 DEF Get
  <2>2. TccPage(v).status \in Statuses /\ Empty.status \in Statuses
    BY TccPageShows, QuickAnswersSay DEF QuickAnswers
  <2> QED BY <1>0, <1>1, <1>2, <2>1, <2>2 DEF Get, history
<1>3. CASE Load(r)
  <2>1. PICK place \in {"listen", "value"} : Goto(r, place)
    BY <1>3 DEF Load
  <2>2. pc' = [pc EXCEPT ![r] = place] /\ pc[r] = "load"
    BY <1>3, <2>1 DEF Load, Goto
  <2>3. TypeOK'
    BY <1>3, <2>2 DEF TypeInv, TypeOK, Load, tcc, history
  <2>4. PlaceInv'
    BY <1>3, <2>2 DEF TypeInv, TypeOK, PlaceInv, Of, Load, tcc, history
  <2> QED BY <2>3, <2>4 DEF TypeInv
<1>4. CASE ListenFails(r)
  BY <1>0, <1>1, <1>4, QuickAnswersSay DEF ListenFails, QuickAnswers, history
<1>5. CASE ListenFetches(r)
  <2>1. Key(r) \in Keys
    BY <1>0, <1>5, KeyIsAKey DEF ListenFetches, TypeInv, PlaceInv, TccHandlers
  <2>2. PICK v \in Reads(Key(r)) : got' = [got EXCEPT ![r] = v]
    BY <1>5 DEF ListenFetches
  <2>3. v \in {None, Failed} \cup Versions
    BY <2>1, ReadsArePublished DEF TypeInv, TypeOK
  <2>4. pc' = [pc EXCEPT ![r] = "listening"] /\ pc[r] = "listen"
    BY <1>5 DEF ListenFetches, Goto
  <2>5. TypeOK'
    BY <1>5, <2>2, <2>3, <2>4 DEF TypeInv, TypeOK, ListenFetches, tcc, history
  <2>6. PlaceInv'
    BY <1>5, <2>4 DEF TypeInv, TypeOK, PlaceInv, Of, ListenFetches, tcc, history
  <2> QED BY <2>5, <2>6 DEF TypeInv
<1>6. CASE AddListener(r)
  <2>1. Key(r) \in Keys
    BY <1>0, <1>6, KeyIsAKey DEF AddListener, TypeInv, PlaceInv, TccHandlers
  <2>2. pc' = [pc EXCEPT ![r] = "value"] /\ pc[r] = "listening"
    BY <1>6 DEF AddListener, Goto
  <2>3. got[r] = Failed \/ got[r] \in {None} \cup Versions
    BY DEF TypeInv, TypeOK
  <2>4. cache' \in [Keys -> {None} \cup Versions]
    BY <1>6, <2>1, <2>3 DEF AddListener, Callback, TypeInv, TypeOK
  <2>5. seen' \in [Requests -> {None, Quiet} \cup Versions]
    BY <1>6, <2>3 DEF AddListener, TypeInv, TypeOK
  <2>6. \A q \in Requests : q # r => seen'[q] = seen[q]
    BY <1>6 DEF AddListener, TypeInv, TypeOK
  <2>7. seen'[r] # Quiet
    BY <1>6, <2>3, MarksAreApart DEF AddListener, TypeInv, TypeOK
  <2>8. TypeOK'
    BY <1>6, <2>2, <2>4, <2>5 DEF TypeInv, TypeOK, AddListener, history
  <2>9. PlaceInv'
    BY <1>6, <2>2, <2>6, <2>7 DEF TypeInv, TypeOK, PlaceInv, Of, AddListener, history
  <2> QED BY <2>8, <2>9 DEF TypeInv
<1>7. CASE Value(r)
  <2>1. PICK a : Reply(r, a) /\ (a = Panic \/ a = Text(cache[Key(r)]))
    BY <1>7 DEF Value
  <2>2. a.status \in Statuses
    BY <2>1 DEF Panic, Answer, Text, Statuses
  <2> QED BY <1>0, <1>1, <1>7, <2>1, <2>2 DEF Value, history
<1>8. CASE IDV(r)
  <2>1. PICK a \in IDVMockAnswers \cup AutoTestIdvAnswers : Reply(r, a)
    BY <1>8 DEF IDV
  <2> QED BY <1>0, <1>1, <1>8, <2>1, DisposalsSay DEF IDV, history
<1>9. CASE RegionAnswers(r)
  <2>1. /\ pc' = [pc EXCEPT ![r] = "answering"] /\ pc[r] = "alarm"
        /\ \E code \in Codes : region' = [region EXCEPT ![r] = code]
    BY <1>9 DEF RegionAnswers, Goto
  <2>2. TypeOK'
    BY <1>9, <2>1 DEF TypeInv, TypeOK, RegionAnswers, tcc, history
  <2>3. PlaceInv'
    BY <1>9, <2>1 DEF TypeInv, TypeOK, PlaceInv, Of, RegionAnswers, tcc, history
  <2> QED BY <2>2, <2>3 DEF TypeInv
<1>10. CASE CallSkipped(r)
  BY <1>0, <1>1, <1>10, AlarmReplySays DEF CallSkipped, history
<1>11. CASE CallFails(r)
  <2>1. silent' \in [Requests -> BOOLEAN]
    BY <1>0, <1>11 DEF CallFails
  <2> QED BY <1>0, <1>1, <1>11, <2>1, AlarmReplySays DEF CallFails
<1>12. CASE CallReturns(r)
  <2>1. PICK err \in BOOLEAN : Reply(r, AlarmReply(region[r], err))
    BY <1>12 DEF CallReturns
  <2> QED BY <1>0, <1>1, <1>12, <2>1, AlarmReplySays DEF CallReturns, history
<1> QED BY <1>2, <1>3, <1>4, <1>5, <1>6, <1>7, <1>8, <1>9, <1>10, <1>11, <1>12 DEF Handle

\* The client of TCC keeps types and places.
LEMMA TccType ==
  ASSUME TypeInv,
         \/ \E r \in Requests, v \in Versions \cup {Failed} : Poll(r, v)
         \/ Deliver
         \/ \E k \in Keys : Publish(k)
  PROVE  TypeInv'
<1>1. CASE \E r \in Requests, v \in Versions \cup {Failed} : Poll(r, v)
  <2>1. PICK r \in Requests, v \in Versions \cup {Failed} : Poll(r, v)
    BY <1>1
  <2>2. polling' = <<r, v>> /\ seen[r] # Quiet
    BY <2>1 DEF Poll
  <2>3. TypeOK'
    BY <2>1, <2>2 DEF TypeInv, TypeOK, Poll, request, history
  <2>4. PlaceInv'
    BY <2>1, <2>2 DEF TypeInv, PlaceInv, Of, Poll, request, history
  <2> QED BY <2>3, <2>4 DEF TypeInv
<1>2. CASE Deliver
  <2>1. PICK r \in Requests, v \in Versions \cup {Failed} : polling = <<r, v>>
    BY <1>2 DEF Deliver, TypeInv, TypeOK
  <2>2. /\ seen[r] # Quiet /\ Callback(Key(r), v) /\ polling' = <<>>
        /\ seen' = IF v = Failed THEN seen ELSE [seen EXCEPT ![r] = v]
    BY <1>2, <2>1 DEF Deliver, TypeInv, PlaceInv
  <2>3. pc[r] \in {"value", "done"} /\ Of(r) = "DisposeStress"
    BY <2>2 DEF TypeInv, PlaceInv
  <2>4. Key(r) \in Keys
    BY <2>3, KeyIsAKey DEF TypeInv, PlaceInv, TccHandlers
  <2>5. cache' \in [Keys -> {None} \cup Versions]
    BY <2>2, <2>4 DEF Callback, TypeInv, TypeOK
  <2>6. seen' \in [Requests -> {None, Quiet} \cup Versions]
    BY <2>2 DEF TypeInv, TypeOK
  <2>7. \A q \in Requests : seen'[q] # Quiet => seen[q] # Quiet
    BY <2>2 DEF TypeInv, TypeOK
  <2>8. TypeOK'
    BY <1>2, <2>2, <2>5, <2>6 DEF TypeInv, TypeOK, Deliver, request, history
  <2>9. PlaceInv'
    BY <1>2, <2>2, <2>7 DEF TypeInv, PlaceInv, Of, Deliver, request, history
  <2> QED BY <2>8, <2>9 DEF TypeInv
<1>3. CASE \E k \in Keys : Publish(k)
  <2>1. PICK k \in Keys : Publish(k)
    BY <1>3
  <2>2. conf[k] + 1 \in Versions
    BY <2>1, MarksAreApart DEF Publish, Versions, None, TypeInv, TypeOK
  <2>3. conf' \in [Keys -> {None} \cup Versions]
    BY <2>1, <2>2 DEF Publish, TypeInv, TypeOK
  <2>4. TypeOK'
    BY <2>1, <2>3 DEF TypeInv, TypeOK, Publish, request, history
  <2>5. PlaceInv'
    BY <2>1 DEF TypeInv, PlaceInv, Of, Publish, request, history
  <2> QED BY <2>4, <2>5 DEF TypeInv
<1> QED BY <1>1, <1>2, <1>3

\* Types and places hold when no request has come.
LEMMA InitType == Init => TypeInv
<1> SUFFICES ASSUME Init PROVE TypeInv
  OBVIOUS
<1>1. Empty.status \in Statuses
  BY QuickAnswersSay DEF QuickAnswers
<1>2. TypeOK
  BY <1>1 DEF Init, TypeOK
<1>3. PlaceInv
  BY DEF Init, PlaceInv
<1> QED BY <1>2, <1>3 DEF TypeInv

\* Types and places are inductive.
LEMMA NextType == TypeInv /\ [Next]_vars => TypeInv'
<1> SUFFICES ASSUME TypeInv, [Next]_vars PROVE TypeInv'
  OBVIOUS
<1>1. CASE UNCHANGED vars
  <2>1. TypeOK'
    BY <1>1 DEF TypeInv, TypeOK, vars, tcc, request, history
  <2>2. PlaceInv'
    BY <1>1 DEF TypeInv, PlaceInv, Of, vars, tcc, request, history
  <2> QED BY <2>1, <2>2 DEF TypeInv
<1> QED BY <1>1, ReceiveType, HandleType, TccType DEF Next

(***************************************************************************)
(* Versions come from the key they are cached, fetched or polled for, and  *)
(* a target stays a request's own.                                         *)
(***************************************************************************)
LEMMA TargetStays ==
  ASSUME TypeInv, Next, NEW r \in Requests, pc[r] # "idle"
  PROVE  target'[r] = target[r]
<1>1. ASSUME NEW q \in Requests, NEW t \in Targets, Receive(q, t)
      PROVE  target'[r] = target[r]
  BY <1>1 DEF Receive, TypeInv, TypeOK
<1>2. ASSUME NEW q \in Requests, Handle(q)
      PROVE  target' = target
  BY <1>2 DEF Handle, Get, Load, ListenFails, ListenFetches, AddListener, Value, IDV,
              RegionAnswers, CallSkipped, CallFails, CallReturns
<1>3. ASSUME \/ \E q \in Requests, v \in Versions \cup {Failed} : Poll(q, v)
             \/ Deliver
             \/ \E k \in Keys : Publish(k)
      PROVE  target' = target
  BY <1>3 DEF Poll, Deliver, Publish, request
<1> QED BY <1>1, <1>2, <1>3 DEF Next

\* The published versions of a key only grow.
LEMMA VersionsGrow ==
  ASSUME TypeInv, [Next]_vars, NEW k \in Keys
  PROVE  /\ conf[k] \in Nat /\ conf'[k] \in Nat
         /\ conf[k] <= conf'[k]
<1>1. conf[k] \in Nat
  BY MarksAreApart DEF TypeInv, TypeOK, None, Versions
<1>2. CASE conf' = conf
  BY <1>1, <1>2
<1>3. CASE \E i \in Keys : Publish(i)
  BY <1>1, <1>3 DEF Publish, TypeInv, TypeOK
<1>4. conf' = conf \/ \E i \in Keys : Publish(i)
  BY DEF Next, Receive, Handle, Get, Load, ListenFails, ListenFetches, AddListener, Value,
         IDV, RegionAnswers, CallSkipped, CallFails, CallReturns, Poll, Deliver, vars, tcc
<1> QED BY <1>2, <1>3, <1>4

\* What a listener or the polling loop hands to the callback was published.
LEMMA CallbackKeeps ==
  ASSUME TypeInv, VersionInv, NEW k \in Keys, NEW v, v \in {Failed} \cup 1..conf[k],
         Callback(k, v)
  PROVE  \A i \in Keys : /\ cache'[i] \in 0..conf[i]
                         /\ cache[i] # None => cache'[i] # None
<1>1. CASE v = Failed
  BY <1>1 DEF Callback, VersionInv
<1>2. CASE v # Failed
  <2>1. cache' = [cache EXCEPT ![k] = v] /\ v \in 1..conf[k]
    BY <1>2 DEF Callback
  <2>2. conf[k] \in Nat
    BY MarksAreApart DEF TypeInv, TypeOK, None, Versions
  <2>3. v \in 0..conf[k] /\ v # None
    BY <2>1, <2>2 DEF None
  <2> QED BY <2>1, <2>3 DEF VersionInv, TypeInv, TypeOK
<1> QED BY <1>1, <1>2

\* The cache holds published versions, and is not emptied.
LEMMA CacheKeeps ==
  ASSUME TypeInv, VersionInv, Next
  PROVE  \A k \in Keys : /\ cache'[k] \in 0..conf[k]
                         /\ cache[k] # None => cache'[k] # None
<1>1. ASSUME NEW r \in Requests, AddListener(r)
      PROVE  \A k \in Keys : /\ cache'[k] \in 0..conf[k]
                             /\ cache[k] # None => cache'[k] # None
  <2>1. Key(r) \in Keys
    BY <1>1, KeyIsAKey DEF AddListener, TypeInv, PlaceInv, TccHandlers
  <2>2. got[r] \in {Failed} \cup 1..conf[Key(r)] /\ Callback(Key(r), got[r])
    BY <1>1 DEF AddListener, VersionInv
  <2> QED BY <2>1, <2>2, CallbackKeeps
<1>2. ASSUME Deliver
      PROVE  \A k \in Keys : /\ cache'[k] \in 0..conf[k]
                             /\ cache[k] # None => cache'[k] # None
  <2>1. PICK r \in Requests : r = polling[1] /\ Callback(Key(r), polling[2]) /\ seen[r] # Quiet
    BY <1>2 DEF Deliver, TypeInv, PlaceInv
  <2>2. Key(r) \in Keys
    BY <2>1, KeyIsAKey DEF TypeInv, PlaceInv, TccHandlers
  <2>3. polling[2] \in {Failed} \cup 1..conf[Key(r)]
    BY <1>2, <2>1 DEF Deliver, VersionInv
  <2> QED BY <2>1, <2>2, <2>3, CallbackKeeps
<1>3. \/ cache' = cache
      \/ \E r \in Requests : AddListener(r)
      \/ Deliver
  BY DEF Next, Receive, Handle, Get, Load, ListenFails, ListenFetches, Value, IDV,
         RegionAnswers, CallSkipped, CallFails, CallReturns, Poll, Publish, tcc
<1> QED BY <1>1, <1>2, <1>3 DEF VersionInv

\* Every step keeps VersionInv.
LEMMA VersionNext == TypeInv /\ VersionInv /\ [Next]_vars => VersionInv'
<1> SUFFICES ASSUME TypeInv, VersionInv, [Next]_vars PROVE VersionInv'
  OBVIOUS
<1>1. CASE UNCHANGED vars
  BY <1>1 DEF VersionInv, Key, vars, tcc, request
<1>2. CASE Next
  <2>1. \A k \in Keys : cache'[k] \in 0..conf'[k]
    <3>1. \A k \in Keys : cache'[k] \in 0..conf[k]
      BY <1>2, CacheKeeps
    <3>2. \A k \in Keys : conf[k] \in Nat /\ conf'[k] \in Nat /\ conf[k] <= conf'[k]
      BY VersionsGrow
    <3> QED BY <3>1, <3>2
  <2>2. ASSUME NEW r \in Requests, pc'[r] = "listening"
        PROVE  got'[r] \in {Failed} \cup 1..conf'[Key(r)']
    <3>1. CASE pc[r] = "listening" /\ got'[r] = got[r]
      <4>1. Key(r)' = Key(r)
        BY <1>2, <3>1, TargetStays DEF Key
      <4>2. Key(r) \in Keys
        BY <3>1, KeyIsAKey DEF TypeInv, PlaceInv, TccHandlers
      <4>3. conf[Key(r)] \in Nat /\ conf'[Key(r)] \in Nat /\ conf[Key(r)] <= conf'[Key(r)]
        BY <4>2, VersionsGrow
      <4>4. got[r] \in {Failed} \cup 1..conf[Key(r)]
        BY <3>1 DEF VersionInv
      <4> QED BY <3>1, <4>1, <4>3, <4>4
    <3>2. CASE ListenFetches(r)
      <4>1. Key(r) \in Keys /\ Key(r)' = Key(r)
        BY <3>2, KeyIsAKey DEF ListenFetches, TypeInv, PlaceInv, TccHandlers, Key
      <4>2. PICK v \in Reads(Key(r)) : got' = [got EXCEPT ![r] = v]
        BY <3>2 DEF ListenFetches
      <4>3. v \in {Failed} \cup 1..conf[Key(r)]
        BY <4>1, <4>2, ReadsArePublished DEF TypeInv, TypeOK
      <4>4. got'[r] = v /\ conf' = conf
        BY <3>2, <4>2 DEF ListenFetches, TypeInv, TypeOK, tcc
      <4> QED BY <4>1, <4>3, <4>4
    <3>3. (pc[r] = "listening" /\ got'[r] = got[r]) \/ ListenFetches(r)
      <4>1. ASSUME NEW q \in Requests, NEW t \in Targets, Receive(q, t)
            PROVE  pc[r] = "listening" /\ got'[r] = got[r]
        <5>1. \E place \in {"done", "get", "load", "dispose", "alarm"} : Goto(q, place)
          BY <4>1, ReceiveLeads DEF Reply, Await
        <5> QED BY <2>2, <4>1, <5>1 DEF Receive, Goto, TypeInv, TypeOK
      <4>2. ASSUME NEW q \in Requests, Handle(q), ~ListenFetches(q)
            PROVE  pc[r] = "listening" /\ got'[r] = got[r]
        <5>1. \E place \in {"done", "listen", "value", "answering"} : Goto(q, place)
          BY <4>2 DEF Handle, Get, Load, ListenFails, AddListener, Value, IDV, RegionAnswers,
                      CallSkipped, CallFails, CallReturns, Reply
        <5>2. got' = got
          BY <4>2 DEF Handle, Get, Load, ListenFails, AddListener, Value, IDV, RegionAnswers,
                      CallSkipped, CallFails, CallReturns
        <5> QED BY <2>2, <5>1, <5>2 DEF Goto, TypeInv, TypeOK
      <4>3. ASSUME NEW q \in Requests, ListenFetches(q), q # r
            PROVE  pc[r] = "listening" /\ got'[r] = got[r]
        BY <2>2, <4>3 DEF ListenFetches, Goto, TypeInv, TypeOK
      <4>4. ASSUME \/ \E q \in Requests, v \in Versions \cup {Failed} : Poll(q, v)
                   \/ Deliver
                   \/ \E k \in Keys : Publish(k)
            PROVE  pc[r] = "listening" /\ got'[r] = got[r]
        BY <2>2, <4>4 DEF Poll, Deliver, Publish, request
      <4> QED BY <1>2, <4>1, <4>2, <4>3, <4>4 DEF Next
    <3> QED BY <3>1, <3>2, <3>3
  <2>3. ASSUME polling' # <<>>
        PROVE  polling'[2] \in {Failed} \cup 1..conf'[KeyOf[target'[polling'[1]]]]
    <3>1. CASE polling' = polling
      <4>1. PICK r \in Requests : r = polling[1] /\ seen[r] # Quiet
        BY <2>3, <3>1 DEF TypeInv, PlaceInv
      <4>2. pc[r] \in {"value", "done"} /\ Of(r) = "DisposeStress"
        BY <4>1 DEF TypeInv, PlaceInv
      <4>3. Key(r) \in Keys /\ Key(r)' = Key(r)
        BY <1>2, <4>2, KeyIsAKey, TargetStays DEF TypeInv, PlaceInv, TccHandlers, Key
      <4>4. conf[Key(r)] \in Nat /\ conf'[Key(r)] \in Nat /\ conf[Key(r)] <= conf'[Key(r)]
        BY <4>3, VersionsGrow
      <4>5. polling[2] \in {Failed} \cup 1..conf[Key(r)]
        BY <2>3, <3>1, <4>1 DEF VersionInv
      <4>6. polling'[2] = polling[2] /\ KeyOf[target'[polling'[1]]] = Key(r)
        BY <3>1, <4>1, <4>3 DEF Key
      <4> QED BY <4>4, <4>5, <4>6
    <3>2. CASE \E r \in Requests, v \in Versions \cup {Failed} : Poll(r, v)
      <4>1. PICK r \in Requests, v \in Versions \cup {Failed} : Poll(r, v)
        BY <3>2
      <4>2. /\ polling' = <<r, v>> /\ v \in Reads(Key(r)) /\ seen[r] # Quiet
            /\ conf' = conf /\ target' = target
        BY <4>1 DEF Poll, request
      <4>3. Key(r) \in Keys
        BY <4>2, KeyIsAKey DEF TypeInv, PlaceInv, TccHandlers
      <4>4. v \in {Failed} \cup 1..conf[Key(r)]
        BY <4>2, <4>3, ReadsArePublished DEF TypeInv, TypeOK
      <4> QED BY <4>2, <4>4 DEF Key
    <3>3. CASE Deliver
      BY <2>3, <3>3 DEF Deliver
    <3> QED BY <1>2, <3>1, <3>2, <3>3
            DEF Next, Receive, Handle, Get, Load, ListenFails, ListenFetches, AddListener,
                Value, IDV, RegionAnswers, CallSkipped, CallFails, CallReturns, Publish, tcc
  <2> QED BY <2>1, <2>2, <2>3 DEF VersionInv, Key
<1> QED BY <1>1, <1>2

\* What becomes of a request that came to a cached key.
LEMMA WarmNext == TypeInv /\ VersionInv /\ WarmInv /\ [Next]_vars => WarmInv'
<1> SUFFICES ASSUME TypeInv, VersionInv, WarmInv, [Next]_vars PROVE WarmInv'
  OBVIOUS
<1>1. CASE UNCHANGED vars
  BY <1>1 DEF WarmInv, Of, Key, vars, tcc, request, history
<1>2. CASE Next
  <2> SUFFICES ASSUME NEW r \in Requests, warm'[r]
               PROVE  /\ pc'[r] \in {"load", "value", "done"}
                      /\ Handler[target'[r]] = "DisposeStress"
                      /\ cache'[KeyOf[target'[r]]] # None
                      /\ seen'[r] = Quiet
                      /\ pc'[r] = "done" => reply'[r].status = 200
    BY DEF WarmInv, Of, Key
  <2>1. ASSUME warm[r],
               pc'[r] \in {"load", "value", "done"},
               seen'[r] = seen[r],
               pc'[r] = "done" => reply'[r].status = 200
        PROVE  /\ Handler[target'[r]] = "DisposeStress"
               /\ cache'[KeyOf[target'[r]]] # None
               /\ seen'[r] = Quiet
    <3>1. pc[r] # "idle" /\ Of(r) = "DisposeStress" /\ cache[Key(r)] # None /\ seen[r] = Quiet
      BY <2>1 DEF WarmInv
    <3>2. target'[r] = target[r]
      BY <1>2, <3>1, TargetStays
    <3>3. Key(r) \in Keys
      BY <3>1, KeyIsAKey DEF TypeInv, PlaceInv, TccHandlers
    <3>4. cache'[Key(r)] # None
      BY <1>2, <3>1, <3>3, CacheKeeps
    <3> QED BY <2>1, <3>1, <3>2, <3>4 DEF Of, Key
  <2>2. ASSUME NEW q \in Requests, NEW t \in Targets, Receive(q, t)
        PROVE  /\ pc'[r] \in {"load", "value", "done"}
               /\ Handler[target'[r]] = "DisposeStress"
               /\ cache'[KeyOf[target'[r]]] # None
               /\ seen'[r] = Quiet
               /\ pc'[r] = "done" => reply'[r].status = 200
    <3>1. CASE q = r
      <4>1. /\ Handler[t] = "DisposeStress" /\ cache[KeyOf[t]] # None
            /\ target'[r] = t /\ cache' = cache /\ seen' = seen /\ pc[r] = "idle"
        BY <2>2, <3>1 DEF Receive, tcc, TypeInv, TypeOK
      <4>2. Handler[t] \in TccHandlers /\ Handler[t] \notin DOMAIN TccPages \cup DOMAIN SilentPages
        BY <4>1, HandlersAreApart DEF TccHandlers
      <4>3. Await(q, "load")
        BY <2>2, <4>2, ReceiveLeads
      <4>4. pc'[r] = "load"
        BY <3>1, <4>3 DEF Await, Goto, TypeInv, TypeOK
      <4>5. seen[r] = Quiet
        BY <4>1 DEF TypeInv, PlaceInv
      <4> QED BY <4>1, <4>4, <4>5
    <3>2. CASE q # r
      <4>1. warm[r] /\ seen' = seen
        BY <2>2, <3>2 DEF Receive, tcc, TypeInv, TypeOK
      <4>2. \/ \E a \in QuickAnswers : Reply(q, a)
            \/ \E place \in {"get", "load", "dispose", "alarm"} : Await(q, place)
        BY <2>2, ReceiveLeads
      <4>3. pc'[r] = pc[r] /\ reply'[r] = reply[r]
        BY <3>2, <4>2 DEF Await, Reply, Goto, TypeInv, TypeOK, PlaceInv
      <4> QED BY <2>1, <4>1, <4>3 DEF WarmInv
    <3> QED BY <3>1, <3>2
  <2>3. ASSUME NEW q \in Requests, Handle(q), warm[r]
        PROVE  /\ pc'[r] \in {"load", "value", "done"}
               /\ seen'[r] = seen[r]
               /\ pc'[r] = "done" => reply'[r].status = 200
    <3>1. /\ pc[r] \in {"load", "value", "done"} /\ cache[Key(r)] # None
          /\ pc[r] = "done" => reply[r].status = 200
      BY <2>3 DEF WarmInv
    <3>2. CASE q # r
      <4>1. /\ \E place \in {"done", "listen", "listening", "value", "answering"} : Goto(q, place)
            /\ reply' = reply \/ \E a : Reply(q, a)
            /\ seen' = seen \/ AddListener(q)
        BY <2>3 DEF Handle, Get, Load, ListenFails, ListenFetches, AddListener, Value, IDV,
                    RegionAnswers, CallSkipped, CallFails, CallReturns, Reply, tcc
      <4>2. pc'[r] = pc[r] /\ reply'[r] = reply[r]
        BY <3>2, <4>1 DEF Reply, Goto, TypeInv, TypeOK, PlaceInv
      <4>3. seen'[r] = seen[r]
        BY <3>2, <4>1 DEF AddListener, TypeInv, TypeOK
      <4> QED BY <3>1, <4>2, <4>3
    <3>3. CASE q = r
      <4>1. Load(r) \/ Value(r)
        BY <2>3, <3>1, <3>3 DEF Handle, Get, ListenFails, ListenFetches, AddListener, IDV,
                                RegionAnswers, CallSkipped, CallFails, CallReturns
      <4>2. CASE Load(r)
        BY <3>1, <4>2 DEF Load, Goto, tcc, TypeInv, TypeOK
      <4>3. CASE Value(r)
        <5>1. /\ reply' = [reply EXCEPT ![r] = Text(cache[Key(r)])]
              /\ pc' = [pc EXCEPT ![r] = "done"] /\ seen' = seen
          BY <3>1, <4>3 DEF Value, Reply, Goto, tcc
        <5>2. reply'[r] = Text(cache[Key(r)]) /\ pc'[r] = "done"
          BY <5>1 DEF TypeInv, TypeOK, PlaceInv
        <5> QED BY <5>1, <5>2 DEF Text
      <4> QED BY <4>1, <4>2, <4>3
    <3> QED BY <3>2, <3>3
  <2>4. ASSUME NEW q \in Requests, Handle(q)
        PROVE  warm' = warm
    BY <2>4 DEF Handle, Get, Load, ListenFails, ListenFetches, AddListener, Value, IDV,
                RegionAnswers, CallSkipped, CallFails, CallReturns, history
  <2>5. ASSUME \/ \E q \in Requests, v \in Versions \cup {Failed} : Poll(q, v)
               \/ Deliver
               \/ \E k \in Keys : Publish(k)
        PROVE  /\ warm' = warm /\ pc' = pc /\ reply' = reply
               /\ warm[r] => seen'[r] = seen[r]
    <3>1. warm' = warm /\ pc' = pc /\ reply' = reply /\ (seen' = seen \/ Deliver)
      BY <2>5 DEF Poll, Deliver, Publish, request, history
    <3>2. ASSUME Deliver, warm[r]
          PROVE  seen'[r] = seen[r]
      <4>1. seen[r] = Quiet /\ seen[polling[1]] # Quiet
        BY <3>2 DEF Deliver, WarmInv, TypeInv, PlaceInv
      <4>2. seen' = seen \/ seen' = [seen EXCEPT ![polling[1]] = polling[2]]
        BY <3>2 DEF Deliver
      <4> QED BY <4>1, <4>2 DEF TypeInv, TypeOK
    <3> QED BY <3>1, <3>2
  <2> QED BY <1>2, <2>1, <2>2, <2>3, <2>4, <2>5 DEF Next, WarmInv
<1> QED BY <1>1, <1>2

-----------------------------------------------------------------------------
(***************************************************************************)
(* The answers.                                                            *)
(***************************************************************************)
\* what a page of TCC may show of a request
Shown(r, a) ==
  IF a.body = "text"
  THEN a.version \in 1..conf[Key(r)] /\ (Of(r) # "DisposeStress" => a.version \notin Broken)
  ELSE a.body \in {"", "default", "panic", "tcc_listen_err"}

\* what an answer given now may say
Honest(r, a) ==
  /\ a.body = "resp" =>
       site = "boe" \/ (region[r] = 200 /\ pc[r] = "answering" /\ silent' = silent)
  /\ Of(r) \in TccHandlers => Shown(r, a)

\* A page of TCC shows a version its key has had.
LEMMA GetAnswers ==
  ASSUME TypeInv, NEW r \in Requests, Get(r)
  PROVE  \E a : Reply(r, a) /\ Honest(r, a)
<1>1. pc[r] = "get" /\ target[r] \in Targets /\ Of(r) \in DOMAIN TccPages \cup DOMAIN SilentPages
  BY DEF Get, TypeInv, PlaceInv
<1>2. Key(r) \in Keys
  BY <1>1, KeyIsAKey DEF TccHandlers
<1>3. PICK v \in Reads(Key(r)) :
        Reply(r, IF Of(r) \in DOMAIN SilentPages THEN Empty ELSE TccPage(v))
  BY DEF Get, Of
<1>4. v \in {Failed} \cup 1..conf[Key(r)]
  BY <1>2, <1>3, ReadsArePublished DEF TypeInv, TypeOK
<1>5. CASE Reply(r, Empty)
  <2>1. Empty.body = ""
    BY DEF Empty, Page, Answer
  <2> QED BY <1>5, <2>1 DEF Honest, Shown
<1>6. CASE Reply(r, TccPage(v))
  <2>1. Shown(r, TccPage(v))
    BY <1>4, TccPageShows DEF Shown
  <2>2. TccPage(v).body \in {"default", "panic", "text"}
    BY TccPageShows
  <2> QED BY <1>6, <2>1, <2>2 DEF Honest
<1> QED BY <1>3, <1>5, <1>6

\* DisposeStress shows what is cached of its key.
LEMMA ValueAnswers ==
  ASSUME TypeInv, VersionInv, NEW r \in Requests, Value(r)
  PROVE  \E a : Reply(r, a) /\ Honest(r, a)
<1>1. pc[r] = "value" /\ target[r] \in Targets /\ Of(r) = "DisposeStress"
  BY DEF Value, TypeInv, PlaceInv
<1>2. Key(r) \in Keys
  BY <1>1, KeyIsAKey DEF TccHandlers
<1>3. CASE cache[Key(r)] = None
  <2>1. Reply(r, Panic) /\ Panic.body = "panic"
    BY <1>3 DEF Value, Panic, Answer
  <2> QED BY <2>1 DEF Honest, Shown
<1>4. CASE cache[Key(r)] # None
  <2> DEFINE a == Text(cache[Key(r)])
  <2>1. Reply(r, a) /\ a.body = "text" /\ a.version = cache[Key(r)]
    BY <1>4 DEF Value, Text
  <2>2. cache[Key(r)] \in 0..conf[Key(r)] /\ conf[Key(r)] \in Nat
    BY <1>2, MarksAreApart DEF VersionInv, TypeInv, TypeOK, None, Versions
  <2>3. cache[Key(r)] \in 1..conf[Key(r)]
    BY <1>4, <2>2 DEF None
  <2> QED BY <1>1, <2>1, <2>3 DEF Honest, Shown
<1> QED BY <1>3, <1>4

\* The mocks and the alarm proxy show no text of TCC.
LEMMA RelaysAnswer ==
  ASSUME TypeInv, NEW r \in Requests,
         ListenFails(r) \/ IDV(r) \/ CallSkipped(r) \/ CallFails(r) \/ CallReturns(r)
  PROVE  \E a : Reply(r, a) /\ Honest(r, a)
<1>1. CASE ListenFails(r)
  <2>1. PICK a : Reply(r, a) /\ a.body = "tcc_listen_err"
    <3>1. Answer(500, "tcc_listen_err").body = "tcc_listen_err"
      BY DEF Answer
    <3> QED BY <1>1, <3>1 DEF ListenFails
  <2>2. Shown(r, a)
    BY <2>1 DEF Shown
  <2> QED BY <2>1, <2>2 DEF Honest
<1>2. CASE IDV(r)
  <2>1. PICK a \in IDVMockAnswers \cup AutoTestIdvAnswers : Reply(r, a)
    BY <1>2 DEF IDV
  <2>2. Of(r) \notin TccHandlers
    BY <1>2 DEF IDV, TypeInv, PlaceInv
  <2>3. a.body # "resp"
    BY DisposalsSay
  <2> QED BY <2>1, <2>2, <2>3 DEF Honest
<1>3. CASE CallSkipped(r)
  <2>1. Reply(r, AlarmReply(0, FALSE)) /\ site = "boe" /\ Of(r) \notin TccHandlers
    BY <1>3 DEF CallSkipped, TypeInv, PlaceInv
  <2> QED BY <2>1 DEF Honest
<1>4. CASE CallFails(r)
  <2>1. Reply(r, AlarmReply(0, TRUE)) /\ Of(r) \notin TccHandlers
    BY <1>4 DEF CallFails, TypeInv, PlaceInv
  <2>2. AlarmReply(0, TRUE).body # "resp"
    BY AlarmReplySays
  <2> QED BY <2>1, <2>2 DEF Honest
<1>5. CASE CallReturns(r)
  <2>1. PICK err \in BOOLEAN : /\ region[r] # 200 => err
                               /\ Reply(r, AlarmReply(region[r], err))
    BY <1>5 DEF CallReturns
  <2>2. Of(r) \notin TccHandlers /\ pc[r] = "answering" /\ silent' = silent
    BY <1>5 DEF CallReturns, TypeInv, PlaceInv, history
  <2>3. AlarmReply(region[r], err).body = "resp" => ~err
    BY AlarmReplySays
  <2> QED BY <2>1, <2>2, <2>3 DEF Honest
<1> QED BY <1>1, <1>2, <1>3, <1>4, <1>5

\* What a step may make of a request: nothing, a wait, an answer, one given at once.
Same(r) ==
  /\ pc'[r] = pc[r] /\ target'[r] = target[r] /\ region'[r] = region[r]
  /\ reply'[r] = reply[r] /\ silent'[r] = silent[r]
Waits(r) ==
  /\ pc[r] # "done" /\ pc'[r] # "done"
  /\ reply'[r] = reply[r] /\ silent'[r] = silent[r]
Answers(r) ==
  /\ pc'[r] = "done" /\ target'[r] = target[r] /\ region'[r] = region[r]
  /\ Honest(r, reply'[r])
AnswersAtOnce(r) ==
  /\ pc'[r] = "done" /\ Handler[target'[r]] \notin TccHandlers
  /\ reply'[r].body # "resp"

\* A request is answered honestly, or at once.
LEMMA StepAnswers ==
  ASSUME TypeInv, VersionInv, Next, NEW r \in Requests
  PROVE  /\ site' = site
         /\ Same(r) \/ Waits(r) \/ Answers(r) \/ AnswersAtOnce(r)
<1>1. ASSUME NEW q \in Requests, NEW t \in Targets, Receive(q, t)
      PROVE  /\ site' = site
             /\ Same(r) \/ Waits(r) \/ AnswersAtOnce(r)
  <2>1. /\ site' = site /\ region' = region /\ silent' = silent
        /\ pc[q] = "idle" /\ target' = [target EXCEPT ![q] = t]
    BY <1>1 DEF Receive
  <2>2. CASE q # r
    <3>1. \E place \in {"done", "get", "load", "dispose", "alarm"} : Goto(q, place)
      BY <1>1, ReceiveLeads DEF Reply, Await
    <3>2. reply'[r] = reply[r]
      BY <1>1, <2>2, ReceiveLeads DEF Reply, Await, TypeInv, PlaceInv
    <3> QED BY <2>1, <2>2, <3>1, <3>2 DEF Same, Goto, TypeInv, TypeOK
  <2>3. CASE q = r
    <3>1. target'[r] = t
      BY <2>1, <2>3 DEF TypeInv, TypeOK
    <3>2. CASE \E a \in QuickAnswers : Reply(q, a) /\ Handler[t] \notin TccHandlers
      <4>1. PICK a \in QuickAnswers : Reply(q, a) /\ Handler[t] \notin TccHandlers
        BY <3>2
      <4>2. reply'[r] = a /\ pc'[r] = "done"
        BY <2>3, <4>1 DEF Reply, Goto, TypeInv, TypeOK, PlaceInv
      <4> QED BY <2>1, <3>1, <4>1, <4>2, QuickAnswersSay DEF AnswersAtOnce
    <3>3. CASE \E place \in {"get", "load", "dispose", "alarm"} : Await(q, place)
      BY <2>1, <2>3, <3>3 DEF Await, Goto, Waits, TypeInv, TypeOK
    <3> QED BY <1>1, <2>1, <3>2, <3>3, ReceiveLeads
  <2> QED BY <2>1, <2>2, <2>3
<1>2. ASSUME NEW q \in Requests, Handle(q)
      PROVE  /\ site' = site
             /\ Same(r) \/ Waits(r) \/ Answers(r)
  <2>1. site' = site /\ target' = target
    BY <1>2 DEF Handle, Get, Load, ListenFails, ListenFetches, AddListener, Value, IDV,
                RegionAnswers, CallSkipped, CallFails, CallReturns
  <2>2. region' = region \/ RegionAnswers(q)
    BY <1>2 DEF Handle, Get, Load, ListenFails, ListenFetches, AddListener, Value, IDV,
                CallSkipped, CallFails, CallReturns
  <2>3. silent' = silent \/ silent' = [silent EXCEPT ![q] = TRUE]
    BY <1>2 DEF Handle, Get, Load, ListenFails, ListenFetches, AddListener, Value, IDV,
                RegionAnswers, CallSkipped, CallFails, CallReturns, history
  <2>4. CASE Load(q) \/ ListenFetches(q) \/ AddListener(q) \/ RegionAnswers(q)
    <3>1. /\ reply' = reply /\ silent' = silent /\ pc[q] # "done"
          /\ \E place \in {"listen", "listening", "value", "answering"} : Goto(q, place)
      BY <2>4 DEF Load, ListenFetches, AddListener, RegionAnswers, history
    <3>2. CASE q = r
      <4>1. PICK place \in {"listen", "listening", "value", "answering"} : Goto(q, place)
        BY <3>1
      <4>2. pc'[r] = place
        BY <3>2, <4>1 DEF Goto, TypeInv, TypeOK
      <4> QED BY <2>1, <3>1, <3>2, <4>2 DEF Waits
    <3>3. CASE q # r
      <4>1. region'[r] = region[r]
        BY <2>2, <3>3 DEF RegionAnswers, TypeInv, TypeOK
      <4> QED BY <2>1, <3>1, <3>3, <4>1 DEF Same, Goto, TypeInv, TypeOK
    <3> QED BY <2>1, <3>2, <3>3
  <2>5. CASE ~(Load(q) \/ ListenFetches(q) \/ AddListener(q) \/ RegionAnswers(q))
    <3>1. PICK a : Reply(q, a) /\ Honest(q, a)
      BY <1>2, <2>5, GetAnswers, ValueAnswers, RelaysAnswer DEF Handle
    <3>2. region' = region
      BY <2>2, <2>5
    <3>3. CASE q = r
      <4>1. reply'[r] = a /\ pc'[r] = "done"
        BY <3>1, <3>3 DEF Reply, Goto, TypeInv, TypeOK, PlaceInv
      <4> QED BY <2>1, <3>1, <3>2, <3>3, <4>1 DEF Answers
    <3>4. CASE q # r
      <4>1. reply'[r] = reply[r] /\ pc'[r] = pc[r]
        BY <3>1, <3>4 DEF Reply, Goto, TypeInv, TypeOK, PlaceInv
      <4>2. silent'[r] = silent[r]
        BY <2>3, <3>4 DEF TypeInv, TypeOK
      <4> QED BY <2>1, <3>2, <4>1, <4>2 DEF Same
    <3> QED BY <2>1, <3>3, <3>4
  <2> QED BY <2>4, <2>5
<1>3. ASSUME \/ \E q \in Requests, v \in Versions \cup {Failed} : Poll(q, v)
             \/ Deliver
             \/ \E k \in Keys : Publish(k)
      PROVE  site' = site /\ Same(r)
  BY <1>3 DEF Poll, Deliver, Publish, request, history, Same
<1> QED BY <1>1, <1>2, <1>3 DEF Next

\* Every step keeps AlarmInv.
LEMMA AlarmNext == TypeInv /\ VersionInv /\ AlarmInv /\ [Next]_vars => AlarmInv'
<1> SUFFICES ASSUME TypeInv, VersionInv, AlarmInv, [Next]_vars PROVE AlarmInv'
  OBVIOUS
<1>1. CASE UNCHANGED vars
  BY <1>1 DEF AlarmInv, vars, request, history
<1>2. CASE Next
  <2> SUFFICES ASSUME NEW r \in Requests
               PROVE  /\ silent'[r] => pc'[r] = "done"
                      /\ reply'[r].body = "resp" =>
                           site' = "boe" \/ (region'[r] = 200 /\ ~silent'[r])
    BY DEF AlarmInv
  <2>1. site' = site
    BY <1>2, StepAnswers
  <2>2. CASE Same(r)
    BY <2>1, <2>2 DEF Same, AlarmInv
  <2>3. CASE Waits(r)
    <3>1. reply'[r] = Empty /\ ~silent'[r]
      BY <2>3 DEF Waits, AlarmInv, TypeInv, PlaceInv
    <3>2. Empty.body = ""
      BY DEF Empty, Page, Answer
    <3> QED BY <3>1, <3>2
  <2>4. CASE Answers(r)
    <3>1. pc[r] = "answering" => ~silent[r]
      BY DEF AlarmInv
    <3> QED BY <2>1, <2>4, <3>1 DEF Answers, Honest
  <2>5. CASE AnswersAtOnce(r)
    BY <2>5 DEF AnswersAtOnce
  <2> QED BY <1>2, <2>2, <2>3, <2>4, <2>5, StepAnswers
<1> QED BY <1>1, <1>2

\* Every step keeps BodyWasConfigured.
LEMMA ShownNext ==
  TypeInv /\ VersionInv /\ BodyWasConfigured /\ [Next]_vars => BodyWasConfigured'
<1> SUFFICES ASSUME TypeInv, VersionInv, BodyWasConfigured, [Next]_vars,
                    NEW r \in Requests, pc'[r] = "done", Handler[target'[r]] \in TccHandlers
             PROVE  IF reply'[r].body = "text"
                    THEN /\ reply'[r].version \in 1..conf'[KeyOf[target'[r]]]
                         /\ Handler[target'[r]] # "DisposeStress" =>
                              reply'[r].version \notin Broken
                    ELSE reply'[r].body \in {"", "default", "panic", "tcc_listen_err"}
  BY DEF BodyWasConfigured, Key
<1>1. CASE Same(r) \/ Answers(r)
  <2>1. target'[r] = target[r] /\ Of(r) \in TccHandlers
    BY <1>1 DEF Same, Answers, Of
  <2>2. Shown(r, reply'[r])
    BY <1>1, <2>1 DEF Same, Answers, Honest, Shown, BodyWasConfigured, Of
  <2>3. target[r] \in Targets
    <3>1. pc'[r] # "idle"
      OBVIOUS
    <3>2. target'[r] \in Targets
      BY <3>1, NextType DEF TypeInv, PlaceInv
    <3> QED BY <2>1, <3>2
  <2>4. Key(r) \in Keys
    BY <2>1, <2>3, KeyIsAKey
  <2>5. conf[Key(r)] \in Nat /\ conf'[Key(r)] \in Nat /\ conf[Key(r)] <= conf'[Key(r)]
    BY <2>4, VersionsGrow
  <2>6. KeyOf[target'[r]] = Key(r) /\ Handler[target'[r]] = Of(r)
    BY <2>1 DEF Key, Of
  <2>7. CASE reply'[r].body = "text"
    BY <2>2, <2>5, <2>6, <2>7 DEF Shown
  <2>8. CASE reply'[r].body # "text"
    BY <2>2, <2>8 DEF Shown
  <2> QED BY <2>7, <2>8
<1>2. CASE UNCHANGED vars
  BY <1>1, <1>2 DEF Same, vars, request, history
<1>3. CASE Next
  BY <1>1, <1>3, StepAnswers DEF Waits, AnswersAtOnce
<1> QED BY <1>2, <1>3

-----------------------------------------------------------------------------
(***************************************************************************)
(* What is cached was handed to a listener, and to none of them anything   *)
(* later.                                                                  *)
(***************************************************************************)
SeenInv ==
  /\ \A k \in Keys : cache[k] # None => \E r \in Listeners(k) : seen[r] = cache[k]
  /\ \A k \in Keys : \A r \in Listeners(k) : seen[r] # None => cache[k] # None

\* The callback, called for a listener with what it is handed, keeps SeenInv.
LEMMA CallbackIsSeen ==
  ASSUME TypeInv, SeenInv, NEW r \in Requests, Key(r) \in Keys,
         NEW v \in {Failed} \cup Versions, Callback(Key(r), v), target' = target,
         NEW w, seen' = [seen EXCEPT ![r] = w], w # Quiet,
         v # Failed => w = v,
         v = Failed => w = seen[r] \/ (seen[r] = Quiet /\ w = None)
  PROVE  SeenInv'
<1>1. /\ cache \in [Keys -> {None} \cup Versions]
      /\ seen \in [Requests -> {None, Quiet} \cup Versions]
  BY DEF TypeInv, TypeOK
<1>2. \A q \in Requests : Key(q)' = Key(q)
  BY DEF Key
<1>3. \A q \in Requests : seen'[q] = IF q = r THEN w ELSE seen[q]
  BY <1>1
<1>4. \A k \in Keys, q \in Requests :
        q \in Listeners(k)' <=> q \in Listeners(k) \/ (q = r /\ k = Key(r))
  BY <1>2, <1>3 DEF Listeners
<1>5. CASE v = Failed
  <2>1. cache' = cache
    BY <1>5 DEF Callback
  <2>2. \A k \in Keys : \A q \in Listeners(k) : q \in Listeners(k)' /\ seen'[q] = seen[q]
    BY <1>3, <1>4, <1>5 DEF Listeners
  <2>3. ASSUME NEW k \in Keys, cache'[k] # None
        PROVE  \E q \in Listeners(k)' : seen'[q] = cache'[k]
    BY <2>1, <2>2, <2>3 DEF SeenInv
  <2>4. ASSUME NEW k \in Keys, NEW q \in Listeners(k)', seen'[q] # None
        PROVE  cache'[k] # None
    <3>1. q \in Requests
      BY DEF Listeners
    <3>2. q \in Listeners(k) /\ seen'[q] = seen[q]
      BY <1>3, <1>4, <1>5, <2>4, <3>1 DEF Listeners
    <3> QED BY <2>1, <2>4, <3>2 DEF SeenInv
  <2> QED BY <2>3, <2>4 DEF SeenInv
<1>6. CASE v # Failed
  <2>1. cache' = [cache EXCEPT ![Key(r)] = v] /\ w = v /\ v # None
    BY <1>6, MarksAreApart DEF Callback
  <2>2. ASSUME NEW k \in Keys, k = Key(r)
        PROVE  cache'[k] = v /\ r \in Listeners(k)' /\ seen'[r] = v
    <3>1. cache'[k] = v /\ seen'[r] = v
      BY <1>1, <1>3, <2>1, <2>2
    <3>2. r \in Listeners(k)'
      BY <1>4, <2>2
    <3> QED BY <3>1, <3>2
  <2>3. ASSUME NEW k \in Keys, k # Key(r)
        PROVE  /\ cache'[k] = cache[k]
               /\ Listeners(k)' = Listeners(k)
               /\ \A q \in Listeners(k) : seen'[q] = seen[q]
    <3>1. r \notin Listeners(k)
      BY <2>3 DEF Listeners
    <3>2. Listeners(k) \subseteq Requests /\ Listeners(k)' \subseteq Requests
      BY DEF Listeners
    <3>3. Listeners(k)' = Listeners(k)
      BY <1>4, <2>3, <3>2
    <3>4. cache'[k] = cache[k]
      BY <1>1, <2>1, <2>3
    <3>5. \A q \in Listeners(k) : seen'[q] = seen[q]
      BY <1>3, <3>1, <3>2
    <3> QED BY <3>3, <3>4, <3>5
  <2>4. ASSUME NEW k \in Keys, cache'[k] # None
        PROVE  \E q \in Listeners(k)' : seen'[q] = cache'[k]
    <3>1. CASE k = Key(r)
      BY <2>2, <3>1
    <3>2. CASE k # Key(r)
      BY <2>3, <2>4, <3>2 DEF SeenInv
    <3> QED BY <3>1, <3>2
  <2>5. ASSUME NEW k \in Keys, NEW q \in Listeners(k)', seen'[q] # None
        PROVE  cache'[k] # None
    <3>1. CASE k = Key(r)
      BY <2>1, <2>2, <3>1
    <3>2. CASE k # Key(r)
      BY <2>3, <2>5, <3>2 DEF SeenInv
    <3> QED BY <3>1, <3>2
  <2> QED BY <2>4, <2>5 DEF SeenInv
<1> QED BY <1>5, <1>6

\* Every step keeps SeenInv.
LEMMA SeenNext == TypeInv /\ VersionInv /\ SeenInv /\ [Next]_vars => SeenInv'
<1> SUFFICES ASSUME TypeInv, VersionInv, SeenInv, [Next]_vars PROVE SeenInv'
  OBVIOUS
<1>1. CASE UNCHANGED <<cache, seen, target>>
  BY <1>1 DEF SeenInv, Listeners, Key
<1>2. ASSUME NEW r \in Requests, AddListener(r)
      PROVE  SeenInv'
  <2>1. Key(r) \in Keys
    BY <1>2, KeyIsAKey DEF AddListener, TypeInv, PlaceInv, TccHandlers
  <2>2. got[r] \in {Failed} \cup 1..conf[Key(r)] /\ conf[Key(r)] \in {None} \cup Versions
    BY <1>2, <2>1 DEF AddListener, VersionInv, TypeInv, TypeOK
  <2>3. got[r] \in {Failed} \cup Versions
    BY <2>2, MarksAreApart DEF Versions, None
  <2>4. seen[r] = Quiet
    BY <1>2 DEF AddListener, TypeInv, PlaceInv
  <2>5. PICK w : w = IF got[r] = Failed THEN None ELSE got[r]
    OBVIOUS
  <2>6. Callback(Key(r), got[r]) /\ target' = target /\ seen' = [seen EXCEPT ![r] = w]
    BY <1>2, <2>5 DEF AddListener
  <2>7. w # Quiet /\ (got[r] # Failed => w = got[r]) /\ (got[r] = Failed => w = None)
    BY <2>3, <2>5, MarksAreApart
  <2> QED BY <2>1, <2>3, <2>4, <2>6, <2>7, CallbackIsSeen
<1>3. ASSUME Deliver
      PROVE  SeenInv'
  <2>1. PICK r \in Requests, v \in Versions \cup {Failed} : polling = <<r, v>>
    BY <1>3 DEF Deliver, TypeInv, TypeOK
  <2>2. /\ seen[r] # Quiet /\ Callback(Key(r), v) /\ target' = target
        /\ seen' = IF v = Failed THEN seen ELSE [seen EXCEPT ![r] = v]
    BY <1>3, <2>1 DEF Deliver, TypeInv, PlaceInv, request
  <2>3. Key(r) \in Keys
    BY <2>2, KeyIsAKey DEF TypeInv, PlaceInv, TccHandlers
  <2>4. PICK w : w = IF v = Failed THEN seen[r] ELSE v
    OBVIOUS
  <2>5. seen' = [seen EXCEPT ![r] = w] /\ w # Quiet
    BY <2>2, <2>4, MarksAreApart DEF TypeInv, TypeOK
  <2> QED BY <2>2, <2>3, <2>4, <2>5, CallbackIsSeen
<1>4. ASSUME NEW r \in Requests, NEW t \in Targets, Receive(r, t)
      PROVE  SeenInv'
  <2>1. /\ cache' = cache /\ seen' = seen
        /\ \A q \in Requests : q # r => target'[q] = target[q]
    BY <1>4 DEF Receive, tcc, TypeInv, TypeOK
  <2>2. seen[r] = Quiet
    BY <1>4 DEF Receive, TypeInv, PlaceInv
  <2>3. \A k \in Keys : Listeners(k)' = Listeners(k)
    BY <2>1, <2>2 DEF Listeners, Key
  <2> QED BY <2>1, <2>3 DEF SeenInv
<1>5. \/ UNCHANGED <<cache, seen, target>>
      \/ \E r \in Requests : AddListener(r)
      \/ Deliver
      \/ \E r \in Requests, t \in Targets : Receive(r, t)
  BY DEF Next, Handle, Get, Load, ListenFails, ListenFetches, Value, IDV, RegionAnswers,
         CallSkipped, CallFails, CallReturns, Poll, Publish, vars, tcc, request
<1> QED BY <1>1, <1>2, <1>3, <1>4, <1>5

-----------------------------------------------------------------------------
(***************************************************************************)
(* The theorems.                                                           *)
(***************************************************************************)
\* The invariant holds when no request has come.
LEMMA InitInv == Init => IInv
<1> SUFFICES ASSUME Init PROVE IInv
  OBVIOUS
<1>1. TypeInv
  BY InitType
<1>2. VersionInv /\ WarmInv
  BY DEF Init, VersionInv, WarmInv, None
<1>3. AlarmInv /\ BodyWasConfigured
  BY DEF Init, AlarmInv, BodyWasConfigured, Empty, Page, Answer
<1> QED BY <1>1, <1>2, <1>3 DEF IInv

\* The invariant holds always.
LEMMA Invariance == Spec => []IInv
<1>1. IInv /\ [Next]_vars => IInv'
  BY NextType, VersionNext, WarmNext, AlarmNext, ShownNext DEF IInv
<1> QED BY InitInv, <1>1, PTL DEF Spec

\* Requests, versions, caches and answers are well typed: no failed read of TCC is cached.
THEOREM TypeCorrect == Spec => []TypeOK
<1>1. IInv => TypeOK
  BY DEF IInv, TypeInv
<1> QED BY <1>1, Invariance, PTL

\* A DisposeStress request whose key was cached when it came is served from the cache,
\* and adds no listener.
THEOREM WarmKeysAreServed == Spec => []WarmKeysServe
<1>1. IInv => WarmKeysServe
  BY DEF IInv, WarmInv, WarmKeysServe
<1> QED BY <1>1, Invariance, PTL

\* A page of TCC shows a text its own key has had, or a reserve.
THEOREM BodiesAreConfigured == Spec => []BodyWasConfigured
<1>1. IInv => BodyWasConfigured
  BY DEF IInv
<1> QED BY <1>1, Invariance, PTL

\* An alarm is called taken only if the other region has taken it and said so, or in BOE.
THEOREM AlarmsAreTrue == Spec => []AlarmTruth
<1>1. IInv => AlarmTruth
  BY DEF IInv, AlarmInv, AlarmTruth, Page, Answer
<1> QED BY <1>1, Invariance, PTL

\* However the fetches of concurrent first requests and of the polling loop are stored, a
\* stale cached value has a listener that has not been handed the latest (TccGet).
THEOREM StalenessIsNoticed == Spec => []StaleIsNoticed
<1>1. Init => SeenInv
  BY DEF Init, SeenInv, Listeners
<1>2. IInv /\ SeenInv /\ [Next]_vars => SeenInv'
  BY SeenNext DEF IInv
<1>3. SeenInv => StaleIsNoticed
  <2> SUFFICES ASSUME SeenInv, NEW k \in Keys, cache[k] # conf[k], NEW r \in Listeners(k)
               PROVE  \E q \in Listeners(k) : seen[q] # conf[k]
    BY DEF StaleIsNoticed
  <2>1. CASE cache[k] = None
    BY <2>1 DEF SeenInv
  <2>2. CASE cache[k] # None
    BY <2>2 DEF SeenInv
  <2> QED BY <2>1, <2>2
<1> QED BY <1>1, <1>2, <1>3, Invariance, PTL DEF Spec

==============================================================================
