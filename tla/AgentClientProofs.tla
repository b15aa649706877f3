-------------------------- MODULE AgentClientProofs --------------------------
(***************************************************************************)
(* Proofs about AgentClient, for any number of goroutines.                 *)
(***************************************************************************)
EXTENDS AgentClient, TLAPS

(***************************************************************************)
(* The inductive invariant.                                                *)
(***************************************************************************)
\* One goroutine at most is in the function, and only while once is running.
OnceInv ==
  /\ \A g \in Goroutines : pc[g] = "dials" => once = "running"
  /\ \A g, h \in Goroutines : pc[g] = "dials" /\ pc[h] = "dials" => g = h
  /\ globalClient # None => once = "done" /\ conn[globalClient] # "none"

\* Who waits for the global client has nothing yet and is counted among those that
\* asked; who asked has the global client or nothing.
SharedInv ==
  /\ \A g \in Goroutines : pc[g] \in {"idle", "once", "dials"} => client[g] = None /\ ~err[g]
  /\ \A g \in Goroutines : pc[g] = "idle" => g \notin shared
  /\ \A g \in Goroutines : pc[g] \in {"once", "dials"} => g \in shared
  /\ \A g \in shared : client[g] # None => client[g] = globalClient

\* A dial that failed has left its error with a goroutine, which goes no further; only
\* after it is nothing handed out as if it were a client.
ErrorInv ==
  /\ once = "done" /\ globalClient = None => \E h \in shared : pc[h] = "has" /\ err[h]
  /\ \A g \in Goroutines : pc[g] \in {"has", "panicked"} /\ ~err[g] /\ client[g] = None =>
       once = "done" /\ globalClient = None

IInv == TypeOK /\ OnceInv /\ SharedInv /\ ErrorInv

-----------------------------------------------------------------------------
\* No goroutine has come yet.
LEMMA InitInv == Init => IInv
BY DEF Init, IInv, TypeOK, OnceInv, SharedInv, ErrorInv, States, HealthStatus

\* Actions that only look at a client or move a connection.
LEMMA KeepsInv ==
  ASSUME IInv, conn' \in [Goroutines -> States \cup {"none"}],
         answer' \in [Goroutines -> HealthStatus \cup
                        {"none", "error", "connected", "not connected", "closed"}],
         \A g \in Goroutines : conn[g] # "none" => conn'[g] # "none",
         UNCHANGED <<pc, once, globalClient, client, err, shared>>
  PROVE  IInv'
BY DEF IInv, TypeOK, OnceInv, SharedInv, ErrorInv

\* The invariant is inductive.
LEMMA StepInv == IInv /\ [Next]_vars => IInv'
<1> SUFFICES ASSUME IInv, [Next]_vars PROVE IInv'
  OBVIOUS
<1>. USE ClientAssumption
<1>1. CASE UNCHANGED vars
  BY <1>1 DEF vars, IInv, TypeOK, OnceInv, SharedInv, ErrorInv
<1>2. ASSUME NEW g \in Goroutines, NewAgentClient(g)
      PROVE  IInv'
  <2>1. \/ Dialled(g) /\ Handed(g, g, FALSE)
        \/ NotDialled /\ Handed(g, None, TRUE)
    BY <1>2 DEF NewAgentClient
  <2>2. /\ pc[g] = "idle" /\ UNCHANGED <<once, globalClient, shared, answer>>
    BY <1>2 DEF NewAgentClient
  <2>3. /\ conn' \in [Goroutines -> States \cup {"none"}]
        /\ \A h \in Goroutines : conn[h] # "none" => conn'[h] # "none"
    BY <2>1 DEF IInv, TypeOK, Dialled, NotDialled, States
  <2>4. /\ client' \in [Goroutines -> Goroutines \cup {None}]
        /\ client'[g] \in {g, None}
        /\ \A h \in Goroutines : h # g => client'[h] = client[h]
    <3>1. PICK c \in {g, None} : client' = [client EXCEPT ![g] = c]
      BY <2>1 DEF Handed
    <3>. QED
      BY <3>1 DEF IInv, TypeOK
  <2>5. client'[g] = g => conn'[g] = "IDLE"
    BY <2>1 DEF IInv, TypeOK, Handed, Dialled
  <2>6. /\ err' \in [Goroutines -> BOOLEAN]
        /\ err'[g] = (client'[g] = None)
        /\ \A h \in Goroutines : h # g => err'[h] = err[h]
    BY <2>1 DEF IInv, TypeOK, Handed
  <2>7. /\ pc' \in [Goroutines -> {"idle", "once", "dials", "has", "panicked"}]
        /\ pc'[g] = "has"
        /\ \A h \in Goroutines : h # g => pc'[h] = pc[h]
    BY <1>2 DEF IInv, TypeOK, NewAgentClient, Goto
  <2>8. TypeOK'
    <3>1. \A h \in Goroutines : client'[h] # None => conn'[client'[h]] # "none"
      BY <2>3, <2>4, <2>5 DEF IInv, TypeOK
    <3>. QED
      BY <2>2, <2>3, <2>4, <2>6, <2>7, <3>1 DEF IInv, TypeOK
  <2>9. OnceInv'
    <3>1. \A h \in Goroutines : pc'[h] = "dials" => pc[h] = "dials"
      BY <2>7
    <3>2. globalClient' # None => once' = "done" /\ conn'[globalClient'] # "none"
      BY <2>2, <2>3 DEF IInv, TypeOK, OnceInv
    <3>. QED
      BY <2>2, <3>1, <3>2 DEF IInv, OnceInv
  <2>10. SharedInv'
    <3>1. \A h \in Goroutines : pc'[h] \in {"idle", "once", "dials"} =>
            h # g /\ pc'[h] = pc[h] /\ client'[h] = client[h] /\ err'[h] = err[h]
      BY <2>4, <2>6, <2>7
    <3>2. g \notin shared
      BY <2>2 DEF IInv, SharedInv
    <3>3. \A h \in shared' : client'[h] # None => client'[h] = globalClient'
      BY <2>2, <2>4, <3>2 DEF IInv, TypeOK, SharedInv
    <3>. QED
      BY <2>2, <3>1, <3>3 DEF IInv, SharedInv
  <2>11. ErrorInv'
    <3>1. g \notin shared
      BY <2>2 DEF IInv, SharedInv
    <3>2. ASSUME NEW h \in shared, pc[h] = "has", err[h]
          PROVE  pc'[h] = "has" /\ err'[h]
      BY <2>6, <2>7, <3>1, <3>2 DEF IInv, TypeOK
    <3>3. once' = "done" /\ globalClient' = None => \E h \in shared' : pc'[h] = "has" /\ err'[h]
      BY <2>2, <3>2 DEF IInv, ErrorInv
    <3>4. ASSUME NEW h \in Goroutines, pc'[h] \in {"has", "panicked"}, ~err'[h], client'[h] = None
          PROVE  once' = "done" /\ globalClient' = None
      <4>1. h # g
        BY <2>6, <3>4
      <4>2. pc[h] \in {"has", "panicked"} /\ ~err[h] /\ client[h] = None
        BY <2>4, <2>6, <2>7, <3>4, <4>1
      <4>. QED
        BY <2>2, <4>2 DEF IInv, ErrorInv
    <3>. QED
      BY <3>3, <3>4 DEF ErrorInv
  <2>. QED
    BY <2>8, <2>9, <2>10, <2>11 DEF IInv
<1>3. ASSUME NEW g \in Goroutines, GetGlobalClient(g)
      PROVE  IInv'
  <2>1. TypeOK'
    BY <1>3 DEF IInv, TypeOK, OnceInv, GetGlobalClient, Goto
  <2>2. OnceInv'
    BY <1>3 DEF IInv, TypeOK, OnceInv, GetGlobalClient, Goto
  <2>3. SharedInv'
    BY <1>3 DEF IInv, TypeOK, OnceInv, SharedInv, GetGlobalClient, Goto
  <2>4. ErrorInv'
    BY <1>3 DEF IInv, TypeOK, OnceInv, SharedInv, ErrorInv, GetGlobalClient, Goto
  <2>. QED
    BY <2>1, <2>2, <2>3, <2>4 DEF IInv
<1>4. ASSUME NEW g \in Goroutines, Do(g)
      PROVE  IInv'
  BY <1>4 DEF IInv, TypeOK, OnceInv, SharedInv, ErrorInv, Do, Goto
<1>5. ASSUME NEW g \in Goroutines, Dial(g)
      PROVE  IInv'
  <2>1. \/ Dialled(g) /\ Handed(g, g, FALSE)
        \/ NotDialled /\ Handed(g, None, TRUE)
    BY <1>5 DEF Dial
  <2>2. /\ pc[g] = "dials" /\ once' = "done" /\ globalClient' = client'[g] /\ UNCHANGED <<shared, answer>>
    BY <1>5 DEF Dial, Handed, IInv, TypeOK
  <2>3. /\ conn' \in [Goroutines -> States \cup {"none"}]
        /\ \A h \in Goroutines : conn[h] # "none" => conn'[h] # "none"
    BY <2>1 DEF IInv, TypeOK, Dialled, NotDialled, States
  <2>4. /\ client' \in [Goroutines -> Goroutines \cup {None}]
        /\ client'[g] \in {g, None}
        /\ \A h \in Goroutines : h # g => client'[h] = client[h]
    <3>1. PICK c \in {g, None} : client' = [client EXCEPT ![g] = c]
      BY <2>1 DEF Handed
    <3>. QED
      BY <3>1 DEF IInv, TypeOK
  <2>5. client'[g] = g => conn'[g] = "IDLE"
    BY <2>1 DEF IInv, TypeOK, Handed, Dialled
  <2>6. /\ err' \in [Goroutines -> BOOLEAN]
        /\ err'[g] = (client'[g] = None)
        /\ \A h \in Goroutines : h # g => err'[h] = err[h]
    BY <2>1 DEF IInv, TypeOK, Handed
  <2>7. /\ pc' \in [Goroutines -> {"idle", "once", "dials", "has", "panicked"}]
        /\ pc'[g] = "has"
        /\ \A h \in Goroutines : h # g => pc'[h] = pc[h]
    BY <1>5 DEF IInv, TypeOK, Dial, Goto
  <2>8. TypeOK'
    <3>1. \A h \in Goroutines : client'[h] # None => conn'[client'[h]] # "none"
      BY <2>3, <2>4, <2>5 DEF IInv, TypeOK
    <3>. QED
      BY <2>2, <2>3, <2>4, <2>6, <2>7, <3>1 DEF IInv, TypeOK
  <2>9. OnceInv'
    <3>1. \A h \in Goroutines : pc'[h] # "dials"
      BY <1>5, <2>7 DEF IInv, OnceInv, Dial
    <3>2. globalClient' # None => once' = "done" /\ conn'[globalClient'] # "none"
      BY <2>2, <2>4, <2>5
    <3>. QED
      BY <3>1, <3>2 DEF OnceInv
  <2>10. SharedInv'
    <3>1. \A h \in Goroutines : pc'[h] \in {"idle", "once", "dials"} =>
            h # g /\ pc'[h] = pc[h] /\ client'[h] = client[h] /\ err'[h] = err[h]
      BY <2>4, <2>6, <2>7
    <3>2. globalClient = None
      BY <1>5 DEF Dial, IInv, OnceInv
    <3>3. \A h \in shared' : client'[h] # None => client'[h] = globalClient'
      BY <2>2, <2>4, <3>2 DEF IInv, TypeOK, SharedInv
    <3>. QED
      BY <2>2, <3>1, <3>3 DEF IInv, SharedInv
  <2>11. ErrorInv'
    <3>1. g \in shared
      BY <2>2 DEF IInv, SharedInv
    <3>2. globalClient' = None => pc'[g] = "has" /\ err'[g]
      BY <2>2, <2>6, <2>7
    <3>3. once' = "done" /\ globalClient' = None => \E h \in shared' : pc'[h] = "has" /\ err'[h]
      BY <2>2, <3>1, <3>2
    <3>4. ASSUME NEW h \in Goroutines, pc'[h] \in {"has", "panicked"}, ~err'[h], client'[h] = None
          PROVE  FALSE
      <4>1. h # g
        BY <2>6, <3>4
      <4>2. pc[h] \in {"has", "panicked"} /\ ~err[h] /\ client[h] = None
        BY <2>4, <2>6, <2>7, <3>4, <4>1
      <4>. QED
        BY <2>2, <4>2 DEF IInv, ErrorInv, OnceInv
    <3>. QED
      BY <3>3, <3>4 DEF ErrorInv
  <2>. QED
    BY <2>8, <2>9, <2>10, <2>11 DEF IInv
<1>6. ASSUME NEW g \in Goroutines, Return(g)
      PROVE  IInv'
  BY <1>6 DEF IInv, TypeOK, OnceInv, SharedInv, ErrorInv, Return, Goto, Handed
<1>7. ASSUME NEW g \in Goroutines, Panic(g)
      PROVE  IInv'
  BY <1>7 DEF IInv, TypeOK, OnceInv, SharedInv, ErrorInv, Panic, Goto
<1>8. ASSUME NEW g \in Goroutines, Diagnose(g) \/ HealthCheck(g) \/ IsConnected(g) \/ Close(g)
      PROVE  IInv'
  <2>1. client[g] \in Goroutines
    BY <1>8 DEF IInv, TypeOK, Diagnose, HealthCheck, IsConnected, Close, Calls
  <2>. QED
    BY <1>8, <2>1, KeepsInv DEF IInv, TypeOK, Diagnose, HealthCheck, IsConnected, Close,
                                Answers, States, HealthStatus
<1>9. ASSUME NEW g \in Goroutines, ConnectionMoves(g)
      PROVE  IInv'
  <2>1. PICK s \in States \ {"SHUTDOWN"} : conn' = [conn EXCEPT ![g] = s]
    BY <1>9 DEF ConnectionMoves
  <2>2. conn' \in [Goroutines -> States \cup {"none"}]
    BY <2>1 DEF IInv, TypeOK
  <2>3. \A h \in Goroutines : conn[h] # "none" => conn'[h] # "none"
    BY <2>1 DEF IInv, TypeOK, States
  <2>. QED
    BY <1>9, <2>2, <2>3, KeepsInv DEF IInv, TypeOK, ConnectionMoves
<1>. QED
  BY <1>1, <1>2, <1>3, <1>4, <1>5, <1>6, <1>7, <1>8, <1>9 DEF Next, Gets, Uses

\* The invariant holds in every reachable state.
LEMMA Invariant == Spec => []IInv
BY InitInv, StepInv, PTL DEF Spec

-----------------------------------------------------------------------------
\* Every client that a goroutine holds has a connection, whoever dialled it and whatever
\* has become of it since (NewAgentClient, GetGlobalClient).
THEOREM TypeCorrect == Spec => []TypeOK
<1>1. IInv => TypeOK
  BY DEF IInv
<1>. QED
  BY <1>1, Invariant, PTL

\* A nil client without an error is handed out only after another goroutine has been
\* handed the error of the one dial (GetGlobalClient: err is a local of each call).
THEOREM NothingNeedsAnError == Spec => []NothingOnlyAfterError
<1>1. IInv => NothingOnlyAfterError
  <2>. SUFFICES ASSUME IInv, NEW g \in Goroutines,
                       pc[g] \in {"has", "panicked"}, ~err[g], client[g] = None
                PROVE  \E h \in shared \ {g} : pc[h] = "has" /\ err[h] /\ globalClient = None
    BY DEF NothingOnlyAfterError
  <2>. QED
    BY DEF IInv, ErrorInv
<1>. QED
  BY <1>1, Invariant, PTL

\* However many goroutines race for it, there is one global client (clientOnce).
THEOREM AllShareOne == Spec => []OneForAll
<1>1. IInv => OneForAll
  BY DEF IInv, TypeOK, SharedInv, OneForAll
<1>. QED
  BY <1>1, Invariant, PTL

=============================================================================
