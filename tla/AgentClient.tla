---------------------------- MODULE AgentClient ----------------------------
(***************************************************************************)
(* The Go client of the Python agent (biz/grpc_client/client.go).          *)
(*                                                                         *)
(* Goroutines make a client of their own or share the global one, which    *)
(* the first of them dials under a sync.Once that the others wait for.     *)
(* The methods that would call the agent answer with an error as long as   *)
(* there is no generated code; the rest looks at the connection.  No       *)
(* method sends the content of its request, so requests are left out.      *)
(***************************************************************************)
EXTENDS Naturals

CONSTANTS
  Goroutines,
  None        \* the nil pointer

ASSUME ClientAssumption == None \notin Goroutines

\* connectivity.State; IsConnected asks for 2, which is READY
States == {"IDLE", "CONNECTING", "READY", "TRANSIENT_FAILURE", "SHUTDOWN"}

HealthStatus == {"UNKNOWN", "SERVING", "NOT_SERVING"}

VARIABLES
  pc,            \* where a goroutine is
  once,          \* clientOnce: "new", "running" or "done"
  globalClient,  \* the client whose connection a goroutine has dialled, or None
  client,        \* the client a goroutine has been handed
  err,           \* it was handed an error
  shared,        \* the goroutines that asked for the global client
  conn,          \* the connection each goroutine has dialled
  answer         \* what the last method has answered

vars == <<pc, once, globalClient, client, err, shared, conn, answer>>

Init ==
  /\ pc = [g \in Goroutines |-> "idle"]
  /\ once = "new"
  /\ globalClient = None
  /\ client = [g \in Goroutines |-> None]
  /\ err = [g \in Goroutines |-> FALSE]
  /\ shared = {}
  /\ conn = [g \in Goroutines |-> "none"]
  /\ answer = [g \in Goroutines |-> "none"]

Goto(g, where) == pc' = [pc EXCEPT ![g] = where]

Handed(g, c, failed) ==
  /\ client' = [client EXCEPT ![g] = c]
  /\ err' = [err EXCEPT ![g] = failed]

-----------------------------------------------------------------------------
(***************************************************************************)
(* Clients.  Dialling does not wait for the connection: it fails on its    *)
(* options and address only.                                               *)
(***************************************************************************)
Dialled(g) == conn' = [conn EXCEPT ![g] = "IDLE"]
NotDialled == UNCHANGED conn

NewAgentClient(g) ==
  /\ pc[g] = "idle"
  /\ Goto(g, "has")
  /\ \/ Dialled(g) /\ Handed(g, g, FALSE)
     \/ NotDialled /\ Handed(g, None, TRUE)
  /\ UNCHANGED <<once, globalClient, shared, answer>>

GetGlobalClient(g) ==
  /\ pc[g] = "idle"
  /\ Goto(g, "once") /\ shared' = shared \cup {g}
  /\ UNCHANGED <<once, globalClient, client, err, conn, answer>>

\* mutant: once is done as soon as it is run
Do_DoneFirst(g) ==
  /\ pc[g] = "once" /\ once = "new"
  /\ once' = "done" /\ Goto(g, "dials")
  /\ UNCHANGED <<globalClient, client, err, shared, conn, answer>>

\* mutant: the client is looked at without a lock
Do_Unlocked(g) ==
  /\ pc[g] = "once" /\ globalClient = None
  /\ once' = "running" /\ Goto(g, "dials")
  /\ UNCHANGED <<globalClient, client, err, shared, conn, answer>>

\* clientOnce.Do: the first goroutine runs the function
Do(g) ==
  /\ pc[g] = "once" /\ once = "new"
  /\ once' = "running" /\ Goto(g, "dials")
  /\ UNCHANGED <<globalClient, client, err, shared, conn, answer>>

\* mutant: a dial that fails leaves once as it is
Dial_LeavesOnce(g) ==
  /\ pc[g] = "dials"
  /\ Goto(g, "has")
  /\ \/ once' = "done" /\ Dialled(g) /\ globalClient' = g /\ Handed(g, g, FALSE)
     \/ UNCHANGED once /\ NotDialled /\ globalClient' = None /\ Handed(g, None, TRUE)
  /\ UNCHANGED <<shared, answer>>

\* the function: the client and the error of the one dial, which only this
\* goroutine's err holds
Dial(g) ==
  /\ pc[g] = "dials"
  /\ once' = "done" /\ Goto(g, "has")
  /\ \/ Dialled(g) /\ globalClient' = g /\ Handed(g, g, FALSE)
     \/ NotDialled /\ globalClient' = None /\ Handed(g, None, TRUE)
  /\ UNCHANGED <<shared, answer>>

\* after Do: whatever the global client is, and no error
Return(g) ==
  /\ pc[g] = "once" /\ once = "done"
  /\ Goto(g, "has") /\ Handed(g, globalClient, FALSE)
  /\ UNCHANGED <<once, globalClient, shared, conn, answer>>

-----------------------------------------------------------------------------
(***************************************************************************)
(* Methods.  A goroutine that was handed an error calls none; one that was *)
(* handed nothing panics.                                                  *)
(***************************************************************************)
Calls(g) == pc[g] = "has" /\ ~err[g] /\ client[g] # None

Answers(g, what) ==
  /\ answer' = [answer EXCEPT ![g] = what]
  /\ UNCHANGED <<pc, once, globalClient, client, err, shared>>

Panic(g) ==
  /\ pc[g] = "has" /\ ~err[g] /\ client[g] = None
  /\ Goto(g, "panicked")
  /\ UNCHANGED <<once, globalClient, client, err, shared, conn, answer>>

\* Diagnose, SearchKnowledge and Visualize
Diagnose(g) == Calls(g) /\ Answers(g, "error") /\ UNCHANGED conn

\* whatever the state of the connection
HealthCheck(g) == Calls(g) /\ Answers(g, "SERVING") /\ UNCHANGED conn

IsConnected(g) ==
  /\ Calls(g)
  /\ Answers(g, IF conn[client[g]] = "READY" THEN "connected" ELSE "not connected")
  /\ UNCHANGED conn

\* a second Close of a connection is an error
Close(g) ==
  /\ Calls(g)
  /\ Answers(g, IF conn[client[g]] = "SHUTDOWN" THEN "error" ELSE "closed")
  /\ conn' = [conn EXCEPT ![client[g]] = "SHUTDOWN"]

\* the connection, which only Close ends
ConnectionMoves(g) ==
  /\ conn[g] \notin {"none", "SHUTDOWN"}
  /\ \E s \in States \ {"SHUTDOWN"} : conn' = [conn EXCEPT ![g] = s]
  /\ UNCHANGED <<pc, once, globalClient, client, err, shared, answer>>

-----------------------------------------------------------------------------
Gets(g) == NewAgentClient(g) \/ GetGlobalClient(g) \/ Do(g) \/ Dial(g) \/ Return(g)

Uses(g) == Panic(g) \/ Diagnose(g) \/ HealthCheck(g) \/ IsConnected(g) \/ Close(g)

Next == \E g \in Goroutines : Gets(g) \/ Uses(g) \/ ConnectionMoves(g)

Spec == Init /\ [][Next]_vars /\ \A g \in Goroutines : WF_vars(Do(g) \/ Dial(g) \/ Return(g))

-----------------------------------------------------------------------------
(***************************************************************************)
(* Properties.                                                             *)
(***************************************************************************)
\* Types; and a client that a goroutine has been handed has a connection: no method
\* finds a nil conn.
TypeOK ==
  /\ pc \in [Goroutines -> {"idle", "once", "dials", "has", "panicked"}]
  /\ once \in {"new", "running", "done"}
  /\ globalClient \in Goroutines \cup {None}
  /\ client \in [Goroutines -> Goroutines \cup {None}]
  /\ err \in [Goroutines -> BOOLEAN]
  /\ shared \subseteq Goroutines
  /\ conn \in [Goroutines -> States \cup {"none"}]
  /\ answer \in [Goroutines -> HealthStatus \cup
                   {"none", "error", "connected", "not connected", "closed"}]
  /\ \A g \in Goroutines : client[g] # None => conn[client[g]] # "none"

\* The error of the one dial goes to one goroutine; the others are handed a nil client
\* without an error, and panic.  That happens to none before another has been handed
\* the error: never while the first is still dialling, nor after a dial that succeeded.
NothingOnlyAfterError ==
  \A g \in Goroutines : pc[g] \in {"has", "panicked"} /\ ~err[g] /\ client[g] = None =>
    \E h \in shared \ {g} : pc[h] = "has" /\ err[h] /\ globalClient = None

\* However many goroutines ask for the global client at once, those that are handed one
\* share one, so that one Close leaves no connection behind.
OneForAll ==
  \A g, h \in shared : client[g] # None /\ client[h] # None => client[g] = client[h]

\* Nobody waits for the global client for ever, whether or not the dial succeeds.
EveryCallReturns ==
  \A g \in Goroutines : pc[g] = "once" ~> pc[g] = "has"

=============================================================================
