---------------------------- MODULE SessionsProofs ----------------------------
(***************************************************************************)
(* Proofs about Sessions, for any number of chats, deletions, clearings,   *)
(* ids and outages.                                                        *)
(*                                                                         *)
(* First come lemmas on what any step of Next may do to each variable      *)
(* (RedisMoves, MemoryMoves, ReachMoves, ...), one case per action; the    *)
(* invariants after them are proved from those lemmas.  HeldInv says what  *)
(* a chat read from its session still follows from it, GoneInv that no     *)
(* chat is about to write what was deleted, ListInv that it is listed, and *)
(* AnswerInv what a chat sees of its session at each of its steps.         *)
(***************************************************************************)
EXTENDS Sessions, TLAPS

(***************************************************************************)
(* The type invariant, in three parts: what the requests and the event     *)
(* loop do, what is stored, and what is remembered.                        *)
(***************************************************************************)
ChatStates   == {"idle", "find", "create", "push", "add", "update", "write", "harness"}
                  \cup Ended
DeleteStates == {"idle", "delete", "unlist"} \cup Ended
ClearStates  == {"idle", "keys", "wipe"} \cup Ended

StatesOf(r) == IF r \in Chats THEN ChatStates
               ELSE IF r \in Deletions THEN DeleteStates ELSE ClearStates

\* Each kind of request has its own steps, and an id as soon as it has come; the loop
\* runs the one that is between two awaits.
ControlInv ==
  /\ loop \in Requests \cup {Absent}
  /\ pc \in [Requests -> {"idle", "harness"} \cup Running \cup Ended]
  /\ \A r \in Requests : pc[r] \in StatesOf(r)
  /\ \A r \in Requests : pc[r] \in Running <=> loop = r
  /\ id \in [Requests -> Ids \cup {Absent}]
  /\ \A r \in Chats \cup Deletions : pc[r] # "idle" => id[r] \in Ids

DataInv ==
  /\ up \in BOOLEAN /\ client \in BOOLEAN
  /\ redis \in [Ids -> Seq(Messages) \cup {Absent}]
  /\ memory \in [Ids -> Seq(Messages) \cup {Absent}]
  /\ list \subseteq Ids
  /\ role \in [Chats -> {"user", "assistant"}]
  /\ messages \in [Chats -> Seq(Messages)]
  /\ outages \in 0..MaxOutages

\* A deletion has deleted when it is done; a chat that reached Redis midway keeps it, and
\* is disturbed.
HistoryInv ==
  /\ disturbed \subseteq Chats /\ mixed \subseteq Chats /\ unlisted \subseteq Ids
  /\ gone \in [Deletions -> {"no", "redis", "memory"}]
  /\ \A d \in Deletions : gone[d] # "no" => pc[d] = "done"
  /\ mixed \subseteq disturbed
  /\ \A c \in mixed : pc[c] # "idle" /\ (pc[c] \in Ended \/ client)

TypeInv == ControlInv /\ DataInv /\ HistoryInv

\* The parts are the types.
LEMMA TypesAreTyped == TypeInv => TypeOK
BY DEF TypeInv, ControlInv, DataInv, HistoryInv, TypeOK

-----------------------------------------------------------------------------
(***************************************************************************)
(* Control.                                                                *)
(***************************************************************************)
\* What a step of a request does to the control.
Moves(r) ==
  /\ loop \in {r, Absent}
  /\ \E where \in StatesOf(r) \ {"idle"} :
       Goto(r, where) /\ loop' = (IF where \in Running THEN r ELSE Absent)
  /\ \/ UNCHANGED id /\ (r \in Chats \cup Deletions => pc[r] # "idle")
     \/ pc[r] = "idle" /\ \E i \in Ids : id' = [id EXCEPT ![r] = i]
     \/ UNCHANGED id /\ r \in Clears

\* A request that moves keeps the control.
LEMMA MoveStep ==
  ASSUME ControlInv, NEW r \in Requests, Moves(r)
  PROVE  ControlInv'
<1>. USE SessionAssumption
<1>1. PICK where \in StatesOf(r) \ {"idle"} :
        pc' = [pc EXCEPT ![r] = where] /\ loop' = (IF where \in Running THEN r ELSE Absent)
  BY DEF Moves, Goto
<1>2. where \in {"idle", "harness"} \cup Running \cup Ended
  BY DEF StatesOf, ChatStates, DeleteStates, ClearStates, Running
<1>3. loop' \in Requests \cup {Absent}
  BY <1>1
<1>4. /\ pc' \in [Requests -> {"idle", "harness"} \cup Running \cup Ended]
      /\ pc'[r] = where /\ \A s \in Requests : s # r => pc'[s] = pc[s]
  BY <1>1, <1>2 DEF ControlInv
<1>5. \A s \in Requests : pc'[s] \in StatesOf(s)
  BY <1>4 DEF ControlInv
<1>6. \A s \in Requests : pc'[s] \in Running <=> loop' = s
  <2>. SUFFICES ASSUME NEW s \in Requests PROVE pc'[s] \in Running <=> loop' = s
    OBVIOUS
  <2>1. CASE s = r
    BY <1>1, <1>4, <2>1 DEF Requests
  <2>2. CASE s # r
    <3>1. pc'[s] \in Running <=> loop = s
      BY <1>4, <2>2 DEF ControlInv
    <3>2. loop # s /\ loop' # s
      BY <1>1, <2>2 DEF Moves, Requests
    <3>. QED
      BY <3>1, <3>2
  <2>. QED
    BY <2>1, <2>2
<1>7. /\ id' \in [Requests -> Ids \cup {Absent}]
      /\ \A s \in Requests : s # r => id'[s] = id[s]
      /\ r \in Chats \cup Deletions => id'[r] \in Ids
  BY DEF Moves, ControlInv, Requests
<1>8. \A s \in Chats \cup Deletions : pc'[s] # "idle" => id'[s] \in Ids
  BY <1>4, <1>7 DEF ControlInv, Requests
<1>. QED
  BY <1>3, <1>4, <1>5, <1>6, <1>7, <1>8 DEF ControlInv

\* A request that gives the loop back moves.
LEMMA LeaveMoves ==
  ASSUME ControlInv, NEW r \in Requests, loop \in {r, Absent}, pc[r] # "idle", UNCHANGED id,
         NEW where \in StatesOf(r) \ {"idle"}, where \notin Running, Leave(r, where)
  PROVE  Moves(r)
BY DEF Leave, Moves, Requests

\* The steps of Chat move it.
LEMMA ChatMoves ==
  ASSUME ControlInv, NEW c \in Chats, Chat(c)
  PROVE  Moves(c)
<1>. USE SessionAssumption DEF ControlInv, Moves, StatesOf, ChatStates, DeleteStates, ClearStates,
         Running, Ended, Requests, Goto, Continue, Leave, Added
<1>1. CASE Send(c)
  BY <1>1 DEF Send
<1>2. CASE GetSession(c)
  BY <1>2 DEF GetSession
<1>3. CASE CreateSession(c)
  <2>1. pc[c] = "create" /\ loop = c /\ UNCHANGED id
    BY <1>3 DEF CreateSession
  <2>2. Continue(c, "push") \/ Continue(c, "add") \/ Leave(c, "failed")
    BY <1>3 DEF CreateSession
  <2>3. CASE Continue(c, "push")
    BY <2>1, <2>3
  <2>4. CASE Continue(c, "add")
    BY <2>1, <2>4
  <2>5. CASE Leave(c, "failed")
    BY <2>1, <2>5, LeaveMoves
  <2>. QED
    BY <2>2, <2>3, <2>4, <2>5
<1>4. CASE Push(c)
  BY <1>4 DEF Push
<1>5. CASE AddMessage(c)
  BY <1>5 DEF AddMessage
<1>6. CASE UpdateSession(c)
  BY <1>6 DEF UpdateSession
<1>7. CASE WriteSession(c)
  <2>1. pc[c] = "write" /\ loop = c /\ UNCHANGED id
    BY <1>7 DEF WriteSession
  <2>2. Leave(c, "harness") \/ Leave(c, "done") \/ Leave(c, "failed")
    BY <1>7 DEF WriteSession, Added
  <2>. QED
    BY <2>1, <2>2, LeaveMoves
<1>8. CASE Answer(c)
  BY <1>8 DEF Answer
<1>9. CASE HarnessRaises(c)
  <2>1. pc[c] = "harness" /\ loop = Absent /\ UNCHANGED id /\ Leave(c, "failed")
    BY <1>9 DEF HarnessRaises
  <2>. QED
    BY <2>1, LeaveMoves
<1>. QED
  BY <1>1, <1>2, <1>3, <1>4, <1>5, <1>6, <1>7, <1>8, <1>9 DEF Chat

\* The steps of Deletion move it.
LEMMA DeletionMoves ==
  ASSUME ControlInv, NEW d \in Deletions, Deletion(d)
  PROVE  Moves(d)
<1>. USE SessionAssumption DEF ControlInv, Moves, StatesOf, ChatStates, DeleteStates, ClearStates,
         Running, Ended, Requests, Goto, Continue, Leave, Added
<1>1. CASE StartDeletion(d)
  BY <1>1 DEF StartDeletion
<1>2. CASE DeleteSession(d)
  <2>1. pc[d] = "delete" /\ loop = d /\ UNCHANGED id
    BY <1>2 DEF DeleteSession
  <2>2. Leave(d, "failed") \/ Leave(d, "done") \/ Leave(d, "missing") \/ Continue(d, "unlist")
    BY <1>2 DEF DeleteSession
  <2>3. CASE Continue(d, "unlist")
    BY <2>1, <2>3
  <2>. QED
    BY <2>1, <2>2, <2>3, LeaveMoves
<1>3. CASE Unlist(d)
  BY <1>3 DEF Unlist
<1>. QED
  BY <1>1, <1>2, <1>3 DEF Deletion

\* The steps of Clear move it.
LEMMA ClearMoves ==
  ASSUME ControlInv, NEW r \in Clears, Clear(r)
  PROVE  Moves(r)
<1>. USE SessionAssumption DEF ControlInv, Moves, StatesOf, ChatStates, DeleteStates, ClearStates,
         Running, Ended, Requests, Goto, Continue, Leave, Added
<1>1. CASE StartClear(r)
  BY <1>1 DEF StartClear
<1>2. CASE Keys(r)
  BY <1>2 DEF Keys
<1>3. CASE Wipe(r)
  BY <1>3 DEF Wipe
<1>. QED
  BY <1>1, <1>2, <1>3 DEF Clear

\* A step keeps the control.
LEMMA ControlStep == ControlInv /\ [Next]_vars => ControlInv'
<1>. SUFFICES ASSUME ControlInv, [Next]_vars PROVE ControlInv'
  OBVIOUS
<1>. USE SessionAssumption
<1>1. ASSUME NEW c \in Chats, Chat(c) PROVE ControlInv'
  BY <1>1, ChatMoves, MoveStep DEF Requests
<1>2. ASSUME NEW d \in Deletions, Deletion(d) PROVE ControlInv'
  BY <1>2, DeletionMoves, MoveStep DEF Requests
<1>3. ASSUME NEW r \in Clears, Clear(r) PROVE ControlInv'
  BY <1>3, ClearMoves, MoveStep DEF Requests
<1>4. ASSUME NEW r \in Requests, CommandFails(r) PROVE ControlInv'
  <2>1. Moves(r)
    <3>1. loop = r /\ pc[r] # "idle" /\ UNCHANGED id /\ Leave(r, "failed")
      BY <1>4 DEF CommandFails, ControlInv, Running
    <3>2. "failed" \in StatesOf(r) \ {"idle"} /\ "failed" \notin Running
      BY DEF StatesOf, ChatStates, DeleteStates, ClearStates, Ended, Running
    <3>. QED
      BY <3>1, <3>2, LeaveMoves
  <2>. QED
    BY <2>1, MoveStep
<1>5. CASE Restart
  <2>1. pc' = [r \in Requests |-> IF pc[r] \in Ended \cup {"idle"} THEN pc[r] ELSE "lost"]
    BY <1>5 DEF Restart
  <2>2. \A r \in Requests : pc'[r] \in StatesOf(r) /\ pc'[r] \notin Running
    BY <2>1 DEF ControlInv, StatesOf, ChatStates, DeleteStates, ClearStates, Ended, Running
  <2>3. pc' \in [Requests -> {"idle", "harness"} \cup Running \cup Ended]
    BY <2>1 DEF ControlInv, Ended
  <2>4. \A r \in Requests : pc'[r] # "idle" => pc[r] # "idle"
    BY <2>1
  <2>5. loop' = Absent /\ UNCHANGED id
    BY <1>5 DEF Restart
  <2>. QED
    BY <2>2, <2>3, <2>4, <2>5 DEF ControlInv, Requests
<1>6. ASSUME UNCHANGED <<loop, pc, id>> PROVE ControlInv'
  BY <1>6 DEF ControlInv
<1>7. ASSUME NEW i \in Ids, SessionExpires(i) PROVE ControlInv'
  BY <1>6, <1>7 DEF SessionExpires, call
<1>8. CASE ListExpires \/ RedisGoes \/ RedisComes \/ UNCHANGED vars
  BY <1>6, <1>8 DEF ListExpires, RedisGoes, RedisComes, vars, call
<1>. QED
  BY <1>1, <1>2, <1>3, <1>4, <1>5, <1>7, <1>8 DEF Next

-----------------------------------------------------------------------------
(***************************************************************************)
(* What a step does to each store.                                         *)
(***************************************************************************)
\* The ways a step changes Redis.
RedisMoves ==
  \/ UNCHANGED redis
  \/ \E i \in Ids : redis' = [redis EXCEPT ![i] = Absent]
  \/ redis' = [i \in Ids |-> Absent]
  \/ \E c \in Chats : /\ pc[c] = "create" /\ client' /\ UNCHANGED memory
                      /\ gone' = Recreated(id[c]) /\ id[c] \in unlisted'
                      /\ redis' = [redis EXCEPT ![id[c]] = <<>>]
  \/ \E c \in Chats : /\ pc[c] = "write" /\ client' /\ UNCHANGED <<memory, gone>>
                      /\ ~client => id[c] \in unlisted'
                      /\ redis' = [redis EXCEPT ![id[c]] = messages[c]]

\* The ways a step changes the memory.
MemoryMoves ==
  \/ UNCHANGED memory
  \/ \E i \in Ids : memory' = [memory EXCEPT ![i] = Absent]
  \/ memory' = [i \in Ids |-> Absent]
  \/ \E c \in Chats : /\ pc[c] = "create" /\ ~client /\ ~client' /\ UNCHANGED redis
                      /\ gone' = Recreated(id[c])
                      /\ memory' = [memory EXCEPT ![id[c]] = <<>>]
  \/ \E c \in Chats : /\ pc[c] = "add" /\ ~client /\ ~client' /\ UNCHANGED <<redis, gone>>
                      /\ memory[id[c]] # Absent
                      /\ memory' = [memory EXCEPT ![id[c]] =
                                      Append(memory[id[c]], <<c, role[c]>>)]
  \/ \E c \in Chats : /\ pc[c] = "write" /\ ~client /\ ~client' /\ UNCHANGED <<redis, gone>>
                      /\ memory' = [memory EXCEPT ![id[c]] = messages[c]]

\* A step changes Redis in one of these ways.
LEMMA RedisStep ==
  ASSUME ControlInv, [Next]_vars
  PROVE  RedisMoves
<1>. USE SessionAssumption DEF RedisMoves, ControlInv, store, process, call, history
<1>1. ASSUME NEW c \in Chats, Send(c) PROVE RedisMoves
  BY <1>1 DEF Send
<1>2. ASSUME NEW c \in Chats, GetSession(c) PROVE RedisMoves
  BY <1>2 DEF GetSession, Uses, Removes, Reach, Hidden, Session
<1>3. ASSUME NEW c \in Chats, CreateSession(c) PROVE RedisMoves
  BY <1>3 DEF CreateSession, Uses, Removes, Reach, Hidden, Recreated
<1>4. ASSUME NEW c \in Chats, Push(c) PROVE RedisMoves
  BY <1>4 DEF Push, Uses, Removes, Reach, Hidden
<1>5. ASSUME NEW c \in Chats, AddMessage(c) PROVE RedisMoves
  BY <1>5 DEF AddMessage, Uses, Removes, Reach, Hidden, Session, Added
<1>6. ASSUME NEW c \in Chats, UpdateSession(c) PROVE RedisMoves
  BY <1>6 DEF UpdateSession, Uses, Removes, Reach, Hidden, Session, Added
<1>7. ASSUME NEW c \in Chats, WriteSession(c) PROVE RedisMoves
  BY <1>7 DEF WriteSession, Uses, Removes, Reach, Hidden, Added
<1>8. ASSUME NEW c \in Chats, Answer(c) PROVE RedisMoves
  BY <1>8 DEF Answer
<1>9. ASSUME NEW c \in Chats, HarnessRaises(c) PROVE RedisMoves
  BY <1>9 DEF HarnessRaises
<1>10. ASSUME NEW d \in Deletions, StartDeletion(d) PROVE RedisMoves
  BY <1>10 DEF StartDeletion
<1>11. ASSUME NEW d \in Deletions, DeleteSession(d) PROVE RedisMoves
  BY <1>11 DEF DeleteSession, Removes, Reach, Hidden, Of, Come
<1>12. ASSUME NEW d \in Deletions, Unlist(d) PROVE RedisMoves
  BY <1>12 DEF Unlist, Uses, Removes, Reach, Hidden
<1>13. ASSUME NEW r \in Clears, StartClear(r) PROVE RedisMoves
  BY <1>13 DEF StartClear
<1>14. ASSUME NEW r \in Clears, Keys(r) PROVE RedisMoves
  BY <1>14 DEF Keys, Uses, Removes, Reach, Hidden, Come
<1>15. ASSUME NEW r \in Clears, Wipe(r) PROVE RedisMoves
  BY <1>15 DEF Wipe, Removes, Reach, Hidden, Come
<1>16. ASSUME NEW r \in Requests, CommandFails(r) PROVE RedisMoves
  BY <1>16 DEF CommandFails, Reach, Hidden
<1>17. ASSUME NEW i \in Ids, SessionExpires(i) PROVE RedisMoves
  BY <1>17 DEF SessionExpires, Of, Come
<1>18. CASE ListExpires
  BY <1>18 DEF ListExpires
<1>19. CASE RedisGoes
  BY <1>19 DEF RedisGoes
<1>20. CASE RedisComes
  BY <1>20 DEF RedisComes
<1>21. CASE Restart
  BY <1>21 DEF Restart, Come
<1>22. CASE UNCHANGED vars
  BY <1>22 DEF vars
<1>. QED
  BY <1>1, <1>2, <1>3, <1>4, <1>5, <1>6, <1>7, <1>8, <1>9, <1>10, <1>11, <1>12, <1>13,
     <1>14, <1>15, <1>16, <1>17, <1>18, <1>19, <1>20, <1>21, <1>22
     DEF Next, Chat, Deletion, Clear

\* A step changes the memory in one of these ways.
LEMMA MemoryStep ==
  ASSUME ControlInv, [Next]_vars
  PROVE  MemoryMoves
<1>. USE SessionAssumption DEF MemoryMoves, ControlInv, store, process, call, history
<1>1. ASSUME NEW c \in Chats, Send(c) PROVE MemoryMoves
  BY <1>1 DEF Send
<1>2. ASSUME NEW c \in Chats, GetSession(c) PROVE MemoryMoves
  BY <1>2 DEF GetSession, Uses, Removes, Reach, Hidden, Session
<1>3. ASSUME NEW c \in Chats, CreateSession(c) PROVE MemoryMoves
  BY <1>3 DEF CreateSession, Uses, Removes, Reach, Hidden, Recreated
<1>4. ASSUME NEW c \in Chats, Push(c) PROVE MemoryMoves
  BY <1>4 DEF Push, Uses, Removes, Reach, Hidden
<1>5. ASSUME NEW c \in Chats, AddMessage(c) PROVE MemoryMoves
  BY <1>5 DEF AddMessage, Uses, Removes, Reach, Hidden, Session, Added
<1>6. ASSUME NEW c \in Chats, UpdateSession(c) PROVE MemoryMoves
  BY <1>6 DEF UpdateSession, Uses, Removes, Reach, Hidden, Session, Added
<1>7. ASSUME NEW c \in Chats, WriteSession(c) PROVE MemoryMoves
  BY <1>7 DEF WriteSession, Uses, Removes, Reach, Hidden, Added
<1>8. ASSUME NEW c \in Chats, Answer(c) PROVE MemoryMoves
  BY <1>8 DEF Answer
<1>9. ASSUME NEW c \in Chats, HarnessRaises(c) PROVE MemoryMoves
  BY <1>9 DEF HarnessRaises
<1>10. ASSUME NEW d \in Deletions, StartDeletion(d) PROVE MemoryMoves
  BY <1>10 DEF StartDeletion
<1>11. ASSUME NEW d \in Deletions, DeleteSession(d) PROVE MemoryMoves
  BY <1>11 DEF DeleteSession, Removes, Reach, Hidden, Of, Come
<1>12. ASSUME NEW d \in Deletions, Unlist(d) PROVE MemoryMoves
  BY <1>12 DEF Unlist, Uses, Removes, Reach, Hidden
<1>13. ASSUME NEW r \in Clears, StartClear(r) PROVE MemoryMoves
  BY <1>13 DEF StartClear
<1>14. ASSUME NEW r \in Clears, Keys(r) PROVE MemoryMoves
  BY <1>14 DEF Keys, Uses, Removes, Reach, Hidden, Come
<1>15. ASSUME NEW r \in Clears, Wipe(r) PROVE MemoryMoves
  BY <1>15 DEF Wipe, Removes, Reach, Hidden, Come
<1>16. ASSUME NEW r \in Requests, CommandFails(r) PROVE MemoryMoves
  BY <1>16 DEF CommandFails, Reach, Hidden
<1>17. ASSUME NEW i \in Ids, SessionExpires(i) PROVE MemoryMoves
  BY <1>17 DEF SessionExpires, Of, Come
<1>18. CASE ListExpires
  BY <1>18 DEF ListExpires
<1>19. CASE RedisGoes
  BY <1>19 DEF RedisGoes
<1>20. CASE RedisComes
  BY <1>20 DEF RedisComes
<1>21. CASE Restart
  BY <1>21 DEF Restart, Come
<1>22. CASE UNCHANGED vars
  BY <1>22 DEF vars
<1>. QED
  BY <1>1, <1>2, <1>3, <1>4, <1>5, <1>6, <1>7, <1>8, <1>9, <1>10, <1>11, <1>12, <1>13,
     <1>14, <1>15, <1>16, <1>17, <1>18, <1>19, <1>20, <1>21, <1>22
     DEF Next, Chat, Deletion, Clear

-----------------------------------------------------------------------------
(***************************************************************************)
(* Types.                                                                  *)
(***************************************************************************)
\* What a chat adds is a message.
LEMMA MessageTyped ==
  ASSUME DataInv, NEW c \in Chats
  PROVE  <<c, role[c]>> \in Messages
BY DEF DataInv, Messages

\* No session is Absent.
LEMMA SessionThere ==
  ASSUME NEW s \in Seq(Messages)
  PROVE  s # Absent
BY SessionAssumption

\* A step keeps the sessions in both stores typed.
LEMMA StoresTyped ==
  ASSUME ControlInv, DataInv, [Next]_vars
  PROVE  /\ redis' \in [Ids -> Seq(Messages) \cup {Absent}]
         /\ memory' \in [Ids -> Seq(Messages) \cup {Absent}]
<1>1. redis' \in [Ids -> Seq(Messages) \cup {Absent}]
  <2>1. RedisMoves
    BY RedisStep
  <2>2. /\ redis \in [Ids -> Seq(Messages) \cup {Absent}]
        /\ \A c \in Chats : messages[c] \in Seq(Messages)
        /\ <<>> \in Seq(Messages)
    BY DEF DataInv
  <2>3. ASSUME NEW s \in Seq(Messages) \cup {Absent}, NEW i, redis' = [redis EXCEPT ![i] = s]
        PROVE  redis' \in [Ids -> Seq(Messages) \cup {Absent}]
    BY <2>2, <2>3
  <2>4. CASE redis' = [i \in Ids |-> Absent]
    BY <2>4
  <2>5. ASSUME NEW i, redis' = [redis EXCEPT ![i] = Absent]
        PROVE  redis' \in [Ids -> Seq(Messages) \cup {Absent}]
    BY <2>3, <2>5
  <2>6. ASSUME NEW c \in Chats, redis' = [redis EXCEPT ![id[c]] = <<>>]
        PROVE  redis' \in [Ids -> Seq(Messages) \cup {Absent}]
    BY <2>2, <2>3, <2>6
  <2>7. ASSUME NEW c \in Chats, redis' = [redis EXCEPT ![id[c]] = messages[c]]
        PROVE  redis' \in [Ids -> Seq(Messages) \cup {Absent}]
    BY <2>2, <2>3, <2>7
  <2>. QED
    BY <2>1, <2>2, <2>4, <2>5, <2>6, <2>7 DEF RedisMoves
<1>2. memory' \in [Ids -> Seq(Messages) \cup {Absent}]
  <2>1. MemoryMoves
    BY MemoryStep
  <2>2. /\ memory \in [Ids -> Seq(Messages) \cup {Absent}]
        /\ \A c \in Chats : messages[c] \in Seq(Messages)
        /\ <<>> \in Seq(Messages)
    BY DEF DataInv
  <2>3. ASSUME NEW c \in Chats, pc[c] = "add", memory[id[c]] # Absent,
               memory' = [memory EXCEPT ![id[c]] = Append(memory[id[c]], <<c, role[c]>>)]
        PROVE  memory' \in [Ids -> Seq(Messages) \cup {Absent}]
    <3>1. id[c] \in Ids
      BY <2>3 DEF ControlInv
    <3>2. memory[id[c]] \in Seq(Messages)
      BY <2>2, <2>3, <3>1
    <3>3. Append(memory[id[c]], <<c, role[c]>>) \in Seq(Messages)
      BY <3>2, MessageTyped
    <3>. QED
      BY <2>2, <2>3, <3>3
  <2>. QED
    BY <2>1, <2>2, <2>3 DEF MemoryMoves
<1>. QED
  BY <1>1, <1>2

\* What one of the requests does to the messages of the chats and their roles.
CallMoves ==
  \/ UNCHANGED <<role, messages>>
  \/ \E c \in Chats : /\ pc[c] = "harness"
                      /\ role' = [role EXCEPT ![c] = "assistant"] /\ UNCHANGED messages
  \/ \E c \in Chats : \E s \in {redis[id[c]], memory[id[c]]} :
       /\ pc[c] = "add" /\ s # Absent /\ UNCHANGED role
       /\ messages' = [messages EXCEPT ![c] = Append(s, <<c, role[c]>>)]

\* A step changes them in one of these ways.
LEMMA CallStep ==
  ASSUME ControlInv, [Next]_vars
  PROVE  CallMoves
<1>. USE SessionAssumption DEF CallMoves, ControlInv, store, process, call, history
<1>1. ASSUME NEW c \in Chats, Send(c) PROVE CallMoves
  BY <1>1 DEF Send
<1>2. ASSUME NEW c \in Chats, GetSession(c) PROVE CallMoves
  BY <1>2 DEF GetSession, Uses, Removes, Reach, Hidden, Session
<1>3. ASSUME NEW c \in Chats, CreateSession(c) PROVE CallMoves
  BY <1>3 DEF CreateSession, Uses, Removes, Reach, Hidden, Recreated
<1>4. ASSUME NEW c \in Chats, Push(c) PROVE CallMoves
  BY <1>4 DEF Push, Uses, Removes, Reach, Hidden
<1>5. ASSUME NEW c \in Chats, AddMessage(c) PROVE CallMoves
  BY <1>5 DEF AddMessage, Uses, Removes, Reach, Hidden, Session, Added
<1>6. ASSUME NEW c \in Chats, UpdateSession(c) PROVE CallMoves
  BY <1>6 DEF UpdateSession, Uses, Removes, Reach, Hidden, Session, Added
<1>7. ASSUME NEW c \in Chats, WriteSession(c) PROVE CallMoves
  BY <1>7 DEF WriteSession, Uses, Removes, Reach, Hidden, Added
<1>8. ASSUME NEW c \in Chats, Answer(c) PROVE CallMoves
  BY <1>8 DEF Answer
<1>9. ASSUME NEW c \in Chats, HarnessRaises(c) PROVE CallMoves
  BY <1>9 DEF HarnessRaises
<1>10. ASSUME NEW d \in Deletions, StartDeletion(d) PROVE CallMoves
  BY <1>10 DEF StartDeletion
<1>11. ASSUME NEW d \in Deletions, DeleteSession(d) PROVE CallMoves
  BY <1>11 DEF DeleteSession, Removes, Reach, Hidden, Of, Come
<1>12. ASSUME NEW d \in Deletions, Unlist(d) PROVE CallMoves
  BY <1>12 DEF Unlist, Uses, Removes, Reach, Hidden
<1>13. ASSUME NEW r \in Clears, StartClear(r) PROVE CallMoves
  BY <1>13 DEF StartClear
<1>14. ASSUME NEW r \in Clears, Keys(r) PROVE CallMoves
  BY <1>14 DEF Keys, Uses, Removes, Reach, Hidden, Come
<1>15. ASSUME NEW r \in Clears, Wipe(r) PROVE CallMoves
  BY <1>15 DEF Wipe, Removes, Reach, Hidden, Come
<1>16. ASSUME NEW r \in Requests, CommandFails(r) PROVE CallMoves
  BY <1>16 DEF CommandFails, Reach, Hidden
<1>17. ASSUME NEW i \in Ids, SessionExpires(i) PROVE CallMoves
  BY <1>17 DEF SessionExpires, Of, Come
<1>18. CASE ListExpires
  BY <1>18 DEF ListExpires
<1>19. CASE RedisGoes
  BY <1>19 DEF RedisGoes
<1>20. CASE RedisComes
  BY <1>20 DEF RedisComes
<1>21. CASE Restart
  BY <1>21 DEF Restart, Come
<1>22. CASE UNCHANGED vars
  BY <1>22 DEF vars
<1>. QED
  BY <1>1, <1>2, <1>3, <1>4, <1>5, <1>6, <1>7, <1>8, <1>9, <1>10, <1>11, <1>12, <1>13,
     <1>14, <1>15, <1>16, <1>17, <1>18, <1>19, <1>20, <1>21, <1>22
     DEF Next, Chat, Deletion, Clear

\* The list, and whether Redis answers.
ListMoves ==
  /\ up' \in BOOLEAN /\ client' \in BOOLEAN /\ outages' \in 0..MaxOutages
  /\ list' \subseteq Ids /\ unlisted' \subseteq Ids

\* A step keeps them typed.
LEMMA ListStep ==
  ASSUME ControlInv, DataInv, HistoryInv, [Next]_vars
  PROVE  ListMoves
<1>. USE SessionAssumption DEF ListMoves, ControlInv, DataInv, HistoryInv, store, process,
       call, history
<1>1. ASSUME NEW c \in Chats, Send(c) PROVE ListMoves
  BY <1>1 DEF Send
<1>2. ASSUME NEW c \in Chats, GetSession(c) PROVE ListMoves
  BY <1>2 DEF GetSession, Uses, Removes, Reach, Hidden, Session
<1>3. ASSUME NEW c \in Chats, CreateSession(c) PROVE ListMoves
  <2>1. /\ id[c] \in Ids /\ client' \in BOOLEAN
        /\ UNCHANGED <<up, list, outages>>
        /\ unlisted' = unlisted \/ unlisted' = unlisted \cup {id[c]}
    BY <1>3 DEF CreateSession, Uses, Removes, Reach, Hidden, Recreated
  <2>. QED
    BY <2>1
<1>4. ASSUME NEW c \in Chats, Push(c) PROVE ListMoves
  BY <1>4 DEF Push, Uses, Removes, Reach, Hidden
<1>5. ASSUME NEW c \in Chats, AddMessage(c) PROVE ListMoves
  BY <1>5 DEF AddMessage, Uses, Removes, Reach, Hidden, Session, Added
<1>6. ASSUME NEW c \in Chats, UpdateSession(c) PROVE ListMoves
  BY <1>6 DEF UpdateSession, Uses, Removes, Reach, Hidden, Session, Added
<1>7. ASSUME NEW c \in Chats, WriteSession(c) PROVE ListMoves
  <2>1. /\ id[c] \in Ids /\ client' \in BOOLEAN
        /\ UNCHANGED <<up, list, outages>>
        /\ unlisted' = unlisted \/ unlisted' = unlisted \cup {id[c]}
    BY <1>7 DEF WriteSession, Uses, Removes, Reach, Hidden, Recreated
  <2>. QED
    BY <2>1
<1>8. ASSUME NEW c \in Chats, Answer(c) PROVE ListMoves
  BY <1>8 DEF Answer
<1>9. ASSUME NEW c \in Chats, HarnessRaises(c) PROVE ListMoves
  BY <1>9 DEF HarnessRaises
<1>10. ASSUME NEW d \in Deletions, StartDeletion(d) PROVE ListMoves
  BY <1>10 DEF StartDeletion
<1>11. ASSUME NEW d \in Deletions, DeleteSession(d) PROVE ListMoves
  BY <1>11 DEF DeleteSession, Removes, Reach, Hidden, Of, Come
<1>12. ASSUME NEW d \in Deletions, Unlist(d) PROVE ListMoves
  BY <1>12 DEF Unlist, Uses, Removes, Reach, Hidden
<1>13. ASSUME NEW r \in Clears, StartClear(r) PROVE ListMoves
  BY <1>13 DEF StartClear
<1>14. ASSUME NEW r \in Clears, Keys(r) PROVE ListMoves
  BY <1>14 DEF Keys, Uses, Removes, Reach, Hidden, Come
<1>15. ASSUME NEW r \in Clears, Wipe(r) PROVE ListMoves
  BY <1>15 DEF Wipe, Removes, Reach, Hidden, Come
<1>16. ASSUME NEW r \in Requests, CommandFails(r) PROVE ListMoves
  BY <1>16 DEF CommandFails, Reach, Hidden
<1>17. ASSUME NEW i \in Ids, SessionExpires(i) PROVE ListMoves
  BY <1>17 DEF SessionExpires, Of, Come
<1>18. CASE ListExpires
  BY <1>18 DEF ListExpires
<1>19. CASE RedisGoes
  <2>1. outages' \in 0..MaxOutages
    BY <1>19 DEF RedisGoes
  <2>2. /\ up' \in BOOLEAN /\ client' \in BOOLEAN
        /\ list' = list /\ unlisted' = unlisted
    BY <1>19 DEF RedisGoes
  <2>. QED
    BY <2>1, <2>2
<1>20. CASE RedisComes
  BY <1>20 DEF RedisComes
<1>21. CASE Restart
  <2>1. outages' \in 0..MaxOutages
    BY <1>21 DEF Restart
  <2>2. /\ up' \in BOOLEAN /\ client' \in BOOLEAN
        /\ list' = list /\ unlisted' = unlisted
    BY <1>21 DEF Restart
  <2>. QED
    BY <2>1, <2>2
<1>22. CASE UNCHANGED vars
  BY <1>22 DEF vars
<1>. QED
  BY <1>1, <1>2, <1>3, <1>4, <1>5, <1>6, <1>7, <1>8, <1>9, <1>10, <1>11, <1>12, <1>13,
     <1>14, <1>15, <1>16, <1>17, <1>18, <1>19, <1>20, <1>21, <1>22
     DEF Next, Chat, Deletion, Clear

\* A step keeps the data typed.
LEMMA DataStep ==
  ASSUME ControlInv, DataInv, HistoryInv, [Next]_vars
  PROVE  DataInv'
<1>1. /\ redis' \in [Ids -> Seq(Messages) \cup {Absent}]
      /\ memory' \in [Ids -> Seq(Messages) \cup {Absent}]
  BY StoresTyped
<1>2. ListMoves
  BY ListStep
<1>3. role' \in [Chats -> {"user", "assistant"}] /\ messages' \in [Chats -> Seq(Messages)]
  <2>1. CallMoves
    BY CallStep
  <2>2. /\ role \in [Chats -> {"user", "assistant"}]
        /\ messages \in [Chats -> Seq(Messages)]
    BY DEF DataInv
  <2>3. CASE UNCHANGED <<role, messages>>
    BY <2>2, <2>3
  <2>4. ASSUME NEW c \in Chats, role' = [role EXCEPT ![c] = "assistant"], UNCHANGED messages
        PROVE  /\ role' \in [Chats -> {"user", "assistant"}]
               /\ messages' \in [Chats -> Seq(Messages)]
    BY <2>2, <2>4
  <2>5. ASSUME NEW c \in Chats, NEW s \in {redis[id[c]], memory[id[c]]}, pc[c] = "add",
               s # Absent, UNCHANGED role,
               messages' = [messages EXCEPT ![c] = Append(s, <<c, role[c]>>)]
        PROVE  /\ role' \in [Chats -> {"user", "assistant"}]
               /\ messages' \in [Chats -> Seq(Messages)]
    <3>1. id[c] \in Ids
      BY <2>5 DEF ControlInv
    <3>2. s \in Seq(Messages)
      BY <2>5, <3>1 DEF DataInv
    <3>3. Append(s, <<c, role[c]>>) \in Seq(Messages)
      BY <3>2, MessageTyped
    <3>. QED
      BY <2>2, <2>5, <3>3
  <2>. QED
    BY <2>1, <2>3, <2>4, <2>5 DEF CallMoves
<1>. QED
  BY <1>1, <1>2, <1>3 DEF DataInv, ListMoves

-----------------------------------------------------------------------------
(***************************************************************************)
(* History.                                                                *)
(***************************************************************************)
\* What a step does to the use of Redis, and whom it disturbs.
ReachMoves ==
  /\ disturbed \subseteq disturbed' /\ disturbed' \subseteq Chats
  /\ \/ UNCHANGED <<client, mixed>>
     \/ \E r \in Requests :
          /\ loop = r /\ client'
          /\ ~client => Come \subseteq disturbed'
          /\ IF ~client /\ pc[r] \in Midway THEN mixed' = mixed \cup {r} ELSE mixed' = mixed
     \/ /\ UNCHANGED mixed /\ ~client' /\ memory' = [i \in Ids |-> Absent]
        /\ \A r \in Requests : pc'[r] \in Ended \cup {"idle"}

\* A step that reaches a store is such a step.
LEMMA RemovesReach ==
  ASSUME ControlInv, DataInv, HistoryInv, NEW r \in Requests, pc[r] \in Running,
         NEW inRedis \in BOOLEAN,
         NEW chats \in SUBSET Chats, Reach(r, inRedis),
         disturbed' = disturbed \cup Hidden(inRedis) \cup chats
  PROVE  ReachMoves
<1>1. Reach(r, inRedis) /\ disturbed' = disturbed \cup Hidden(inRedis) \cup chats
  OBVIOUS
<1>2. Hidden(inRedis) \subseteq Chats /\ disturbed \subseteq Chats
  BY DEF Hidden, Come, HistoryInv
<1>3. loop = r
  BY DEF ControlInv
<1>4. CASE inRedis = TRUE
  <2>1. client' = TRUE
    BY <1>1, <1>4 DEF Reach
  <2>2. IF ~client /\ pc[r] \in Midway THEN mixed' = mixed \cup {r} ELSE mixed' = mixed
    BY <1>1, <1>4 DEF Reach
  <2>3. ~client => Come \subseteq disturbed'
    BY <1>1, <1>4 DEF Hidden
  <2>. QED
    BY <1>1, <1>2, <1>3, <2>1, <2>2, <2>3 DEF ReachMoves
<1>5. CASE inRedis = FALSE
  <2>1. UNCHANGED mixed /\ ~client /\ client' = FALSE
    BY <1>1, <1>5 DEF Reach
  <2>2. client = FALSE
    BY <2>1 DEF DataInv
  <2>. QED
    BY <1>1, <1>2, <2>1, <2>2 DEF ReachMoves
<1>. QED
  BY <1>4, <1>5

\* A step uses Redis in one of these ways.
LEMMA ReachStep ==
  ASSUME ControlInv, DataInv, HistoryInv, [Next]_vars
  PROVE  ReachMoves
<1>. USE SessionAssumption DEF store, process, call, history, ReachMoves, HistoryInv
<1>1. ASSUME NEW c \in Chats, Send(c) PROVE ReachMoves
  BY <1>1 DEF Send
<1>2. ASSUME NEW c \in Chats, GetSession(c) PROVE ReachMoves
  <2>1. pc[c] \in Running
    BY <1>2 DEF GetSession, Running
  <2>2. PICK inRedis \in BOOLEAN, chats \in {{}} : Removes(c, inRedis, chats)
    BY <1>2 DEF GetSession, Uses
  <2>3. chats \in SUBSET Chats
    BY DEF Of, Come
  <2>. QED
    BY <2>1, <2>2, <2>3, RemovesReach DEF Requests, Removes
<1>3. ASSUME NEW c \in Chats, CreateSession(c) PROVE ReachMoves
  <2>1. pc[c] \in Running
    BY <1>3 DEF CreateSession, Running
  <2>2. PICK inRedis \in BOOLEAN, chats \in {{}} : Removes(c, inRedis, chats)
    BY <1>3 DEF CreateSession, Uses
  <2>3. chats \in SUBSET Chats
    BY DEF Of, Come
  <2>. QED
    BY <2>1, <2>2, <2>3, RemovesReach DEF Requests, Removes
<1>4. ASSUME NEW c \in Chats, Push(c) PROVE ReachMoves
  <2>1. pc[c] \in Running
    BY <1>4 DEF Push, Running
  <2>2. PICK inRedis \in BOOLEAN, chats \in {{}} : Removes(c, inRedis, chats)
    BY <1>4 DEF Push, Uses
  <2>3. chats \in SUBSET Chats
    BY DEF Of, Come
  <2>. QED
    BY <2>1, <2>2, <2>3, RemovesReach DEF Requests, Removes
<1>5. ASSUME NEW c \in Chats, AddMessage(c) PROVE ReachMoves
  <2>1. pc[c] \in Running
    BY <1>5 DEF AddMessage, Running
  <2>2. PICK inRedis \in BOOLEAN, chats \in {{}} : Removes(c, inRedis, chats)
    BY <1>5 DEF AddMessage, Uses
  <2>3. chats \in SUBSET Chats
    BY DEF Of, Come
  <2>. QED
    BY <2>1, <2>2, <2>3, RemovesReach DEF Requests, Removes
<1>6. ASSUME NEW c \in Chats, UpdateSession(c) PROVE ReachMoves
  <2>1. pc[c] \in Running
    BY <1>6 DEF UpdateSession, Running
  <2>2. PICK inRedis \in BOOLEAN, chats \in {{}} : Removes(c, inRedis, chats)
    BY <1>6 DEF UpdateSession, Uses
  <2>3. chats \in SUBSET Chats
    BY DEF Of, Come
  <2>. QED
    BY <2>1, <2>2, <2>3, RemovesReach DEF Requests, Removes
<1>7. ASSUME NEW c \in Chats, WriteSession(c) PROVE ReachMoves
  <2>1. pc[c] \in Running
    BY <1>7 DEF WriteSession, Running
  <2>2. PICK inRedis \in BOOLEAN, chats \in {{}} : Removes(c, inRedis, chats)
    BY <1>7 DEF WriteSession, Uses
  <2>3. chats \in SUBSET Chats
    BY DEF Of, Come
  <2>. QED
    BY <2>1, <2>2, <2>3, RemovesReach DEF Requests, Removes
<1>8. ASSUME NEW c \in Chats, Answer(c) PROVE ReachMoves
  BY <1>8 DEF Answer
<1>9. ASSUME NEW c \in Chats, HarnessRaises(c) PROVE ReachMoves
  BY <1>9 DEF HarnessRaises
<1>10. ASSUME NEW d \in Deletions, StartDeletion(d) PROVE ReachMoves
  BY <1>10 DEF StartDeletion
<1>11. ASSUME NEW d \in Deletions, DeleteSession(d) PROVE ReachMoves
  <2>1. pc[d] \in Running
    BY <1>11 DEF DeleteSession, Running
  <2>2. PICK inRedis \in BOOLEAN, chats \in {{}, Of(id[d])} : Removes(d, inRedis, chats)
    BY <1>11 DEF DeleteSession, Uses
  <2>3. chats \in SUBSET Chats
    BY DEF Of, Come
  <2>. QED
    BY <2>1, <2>2, <2>3, RemovesReach DEF Requests, Removes
<1>12. ASSUME NEW d \in Deletions, Unlist(d) PROVE ReachMoves
  <2>1. pc[d] \in Running
    BY <1>12 DEF Unlist, Running
  <2>2. PICK inRedis \in BOOLEAN, chats \in {{}} : Removes(d, inRedis, chats)
    BY <1>12 DEF Unlist, Uses
  <2>3. chats \in SUBSET Chats
    BY DEF Of, Come
  <2>. QED
    BY <2>1, <2>2, <2>3, RemovesReach DEF Requests, Removes
<1>13. ASSUME NEW r \in Clears, StartClear(r) PROVE ReachMoves
  BY <1>13 DEF StartClear
<1>14. ASSUME NEW r \in Clears, Keys(r) PROVE ReachMoves
  <2>1. pc[r] \in Running
    BY <1>14 DEF Keys, Running
  <2>2. PICK inRedis \in BOOLEAN, chats \in {{}, Come} : Removes(r, inRedis, chats)
    BY <1>14 DEF Keys, Uses
  <2>3. chats \in SUBSET Chats
    BY DEF Of, Come
  <2>. QED
    BY <2>1, <2>2, <2>3, RemovesReach DEF Requests, Removes
<1>15. ASSUME NEW r \in Clears, Wipe(r) PROVE ReachMoves
  <2>1. pc[r] \in Running
    BY <1>15 DEF Wipe, Running
  <2>2. PICK inRedis \in BOOLEAN, chats \in {{}, Come} : Removes(r, inRedis, chats)
    BY <1>15 DEF Wipe, Uses
  <2>3. chats \in SUBSET Chats
    BY DEF Of, Come
  <2>. QED
    BY <2>1, <2>2, <2>3, RemovesReach DEF Requests, Removes
<1>16. ASSUME NEW r \in Requests, CommandFails(r) PROVE ReachMoves
  <2>1. /\ pc[r] \in Running /\ Reach(r, TRUE)
        /\ disturbed' = disturbed \cup Hidden(TRUE) \cup {}
    BY <1>16 DEF CommandFails, ControlInv
  <2>. QED
    BY <2>1, RemovesReach
<1>17. ASSUME NEW i \in Ids, SessionExpires(i) PROVE ReachMoves
  BY <1>17 DEF SessionExpires, Of, Come
<1>18. CASE ListExpires
  BY <1>18 DEF ListExpires
<1>19. CASE RedisGoes
  BY <1>19 DEF RedisGoes
<1>20. CASE RedisComes
  BY <1>20 DEF RedisComes
<1>21. CASE Restart
  <2>1. \A r \in Requests : pc'[r] \in Ended \cup {"idle"}
    BY <1>21 DEF Restart, Ended
  <2>2. /\ UNCHANGED mixed /\ ~client' /\ disturbed' = disturbed \cup Come
        /\ memory' = [i \in Ids |-> Absent]
    BY <1>21 DEF Restart
  <2>. QED
    BY <2>1, <2>2 DEF Come
<1>22. CASE UNCHANGED vars
  BY <1>22 DEF vars
<1>. QED
  BY <1>1, <1>2, <1>3, <1>4, <1>5, <1>6, <1>7, <1>8, <1>9, <1>10, <1>11, <1>12, <1>13,
     <1>14, <1>15, <1>16, <1>17, <1>18, <1>19, <1>20, <1>21, <1>22
     DEF Next, Chat, Deletion, Clear

\* What a step does to the record of deletions.
GoneMoves ==
  \/ UNCHANGED gone
  \/ \E c \in Chats : loop = c /\ pc[c] = "create" /\ gone' = Recreated(id[c])
  \/ \E d \in Deletions : /\ loop = d /\ pc'[d] = "done" /\ UNCHANGED id
                          /\ memory' = [memory EXCEPT ![id[d]] = Absent]
                          /\ UNCHANGED <<redis, list>>
                          /\ gone' = [gone EXCEPT ![d] = "memory"]
  \/ \E d \in Deletions : /\ loop = d /\ pc[d] = "unlist" /\ pc'[d] = "done" /\ UNCHANGED id
                          /\ UNCHANGED <<redis, memory>> /\ list' = list \ {id[d]} /\ client'
                          /\ gone' = [gone EXCEPT ![d] = "redis"]

\* A step records a deletion in one of these ways.
LEMMA GoneStep ==
  ASSUME ControlInv, HistoryInv, [Next]_vars
  PROVE  GoneMoves
<1>. USE SessionAssumption DEF GoneMoves, store, process, call, history
<1>1. ASSUME NEW c \in Chats, Send(c) PROVE GoneMoves
  BY <1>1 DEF Send
<1>2. ASSUME NEW c \in Chats, GetSession(c) PROVE GoneMoves
  BY <1>2 DEF GetSession, Uses, Removes, Reach, Hidden, Session
<1>3. ASSUME NEW c \in Chats, CreateSession(c) PROVE GoneMoves
  <2>1. pc[c] = "create" /\ gone' = Recreated(id[c])
    BY <1>3 DEF CreateSession
  <2>2. loop = c
    BY <2>1 DEF ControlInv, Running, Requests
  <2>. QED
    BY <2>1, <2>2 DEF GoneMoves
<1>4. ASSUME NEW c \in Chats, Push(c) PROVE GoneMoves
  BY <1>4 DEF Push, Uses, Removes, Reach, Hidden
<1>5. ASSUME NEW c \in Chats, AddMessage(c) PROVE GoneMoves
  BY <1>5 DEF AddMessage, Uses, Removes, Reach, Hidden, Session, Added
<1>6. ASSUME NEW c \in Chats, UpdateSession(c) PROVE GoneMoves
  BY <1>6 DEF UpdateSession, Uses, Removes, Reach, Hidden, Session, Added
<1>7. ASSUME NEW c \in Chats, WriteSession(c) PROVE GoneMoves
  BY <1>7 DEF WriteSession, Uses, Removes, Reach, Hidden, Added
<1>8. ASSUME NEW c \in Chats, Answer(c) PROVE GoneMoves
  BY <1>8 DEF Answer
<1>9. ASSUME NEW c \in Chats, HarnessRaises(c) PROVE GoneMoves
  BY <1>9 DEF HarnessRaises
<1>10. ASSUME NEW d \in Deletions, StartDeletion(d) PROVE GoneMoves
  BY <1>10 DEF StartDeletion
<1>11. ASSUME NEW d \in Deletions, DeleteSession(d) PROVE GoneMoves
  <2>1. pc[d] = "delete" /\ UNCHANGED id
    BY <1>11 DEF DeleteSession
  <2>2. loop = d
    BY <2>1 DEF ControlInv, Running, Requests
  <2>3. \/ UNCHANGED gone
        \/ /\ memory' = [memory EXCEPT ![id[d]] = Absent] /\ UNCHANGED <<redis, list>>
           /\ gone' = [gone EXCEPT ![d] = "memory"] /\ Leave(d, "done")
    BY <1>11 DEF DeleteSession, store
  <2>4. Leave(d, "done") => pc'[d] = "done"
    BY DEF Leave, Goto, ControlInv, Requests
  <2>. QED
    BY <2>1, <2>2, <2>3, <2>4 DEF GoneMoves
<1>12. ASSUME NEW d \in Deletions, Unlist(d) PROVE GoneMoves
  <2>1. pc[d] = "unlist" /\ UNCHANGED <<redis, memory, id>> /\ list' = list \ {id[d]} /\ client'
    BY <1>12 DEF Unlist, Uses, Removes, Reach
  <2>2. loop = d
    BY <2>1 DEF ControlInv, Running, Requests
  <2>3. UNCHANGED gone \/ (gone' = [gone EXCEPT ![d] = "redis"] /\ Leave(d, "done"))
    BY <1>12 DEF Unlist
  <2>4. Leave(d, "done") => pc'[d] = "done"
    BY DEF Leave, Goto, ControlInv, Requests
  <2>. QED
    BY <2>1, <2>2, <2>3, <2>4 DEF GoneMoves
<1>13. ASSUME NEW r \in Clears, StartClear(r) PROVE GoneMoves
  BY <1>13 DEF StartClear
<1>14. ASSUME NEW r \in Clears, Keys(r) PROVE GoneMoves
  BY <1>14 DEF Keys, Uses, Removes, Reach, Hidden, Come
<1>15. ASSUME NEW r \in Clears, Wipe(r) PROVE GoneMoves
  BY <1>15 DEF Wipe, Removes, Reach, Hidden, Come
<1>16. ASSUME NEW r \in Requests, CommandFails(r) PROVE GoneMoves
  BY <1>16 DEF CommandFails, Reach, Hidden
<1>17. ASSUME NEW i \in Ids, SessionExpires(i) PROVE GoneMoves
  BY <1>17 DEF SessionExpires, Of, Come
<1>18. CASE ListExpires
  BY <1>18 DEF ListExpires
<1>19. CASE RedisGoes
  BY <1>19 DEF RedisGoes
<1>20. CASE RedisComes
  BY <1>20 DEF RedisComes
<1>21. CASE Restart
  BY <1>21 DEF Restart, Come
<1>22. CASE UNCHANGED vars
  BY <1>22 DEF vars
<1>. QED
  BY <1>1, <1>2, <1>3, <1>4, <1>5, <1>6, <1>7, <1>8, <1>9, <1>10, <1>11, <1>12, <1>13,
     <1>14, <1>15, <1>16, <1>17, <1>18, <1>19, <1>20, <1>21, <1>22
     DEF Next, Chat, Deletion, Clear

\* A request that is done, or has ended, stays so, and one that has come keeps its id.
Lasts(r) ==
  /\ pc[r] = "done" => pc'[r] = "done"
  /\ pc[r] \in Ended => pc'[r] \in Ended
  /\ pc[r] # "idle" => pc'[r] # "idle" /\ id'[r] = id[r]

\* A step keeps what a request has come to.
LEMMA Stays ==
  ASSUME ControlInv, [Next]_vars, NEW r \in Requests
  PROVE  Lasts(r)
<1>. USE SessionAssumption DEF ControlInv
<1>1. ASSUME NEW q \in Requests, Moves(q), pc[q] \notin Ended PROVE Lasts(r)
  <2>1. PICK where \in StatesOf(q) \ {"idle"} : pc' = [pc EXCEPT ![q] = where]
    BY <1>1 DEF Moves, Goto
  <2>2. CASE r # q
    <3>1. pc'[r] = pc[r]
      BY <2>1, <2>2
    <3>2. id'[r] = id[r]
      BY <1>1, <2>2 DEF Moves
    <3>. QED
      BY <3>1, <3>2 DEF Lasts
  <2>3. CASE r = q
    <3>1. pc'[r] # "idle" /\ pc[r] \notin Ended /\ pc[r] # "done"
      BY <1>1, <2>1, <2>3 DEF Ended
    <3>2. pc[r] # "idle" => id'[r] = id[r]
      BY <1>1, <2>3 DEF Moves
    <3>. QED
      BY <3>1, <3>2 DEF Lasts
  <2>. QED
    BY <2>2, <2>3
<1>2. ASSUME NEW c \in Chats, Chat(c) PROVE c \in Requests /\ Moves(c) /\ pc[c] \notin Ended
  BY <1>2, ChatMoves DEF Requests, Chat, Send, GetSession, CreateSession, Push, AddMessage,
     UpdateSession,
     WriteSession, Answer, HarnessRaises, Ended
<1>3. ASSUME NEW d \in Deletions, Deletion(d)
      PROVE  d \in Requests /\ Moves(d) /\ pc[d] \notin Ended
  BY <1>3, DeletionMoves DEF Requests, Deletion, StartDeletion, DeleteSession, Unlist, Ended
<1>4. ASSUME NEW q \in Clears, Clear(q) PROVE q \in Requests /\ Moves(q) /\ pc[q] \notin Ended
  BY <1>4, ClearMoves DEF Requests, Clear, StartClear, Keys, Wipe, Ended
<1>5. ASSUME NEW q \in Requests, CommandFails(q) PROVE Lasts(r)
  <2>1. /\ pc' = [pc EXCEPT ![q] = "failed"] /\ UNCHANGED id
        /\ pc[q] \in Running
    BY <1>5 DEF CommandFails, Leave, Goto
  <2>. QED
    BY <2>1 DEF Lasts, Ended, Running
<1>6. CASE Restart
  BY <1>6 DEF Lasts, Restart, Ended
<1>7. ASSUME NEW i \in Ids, SessionExpires(i) PROVE UNCHANGED <<pc, id>>
  BY <1>7 DEF SessionExpires, call
<1>8. ASSUME ListExpires \/ RedisGoes \/ RedisComes \/ UNCHANGED vars PROVE UNCHANGED <<pc, id>>
  BY <1>8 DEF ListExpires, RedisGoes, RedisComes, vars, call
<1>9. CASE UNCHANGED <<pc, id>>
  BY <1>9 DEF Lasts
<1>10. (\E c \in Chats : Chat(c)) \/ (\E d \in Deletions : Deletion(d)) \/ (\E q \in Clears : Clear(q))
         => Lasts(r)
  BY <1>1, <1>2, <1>3, <1>4
<1>. QED
  BY <1>5, <1>6, <1>7, <1>8, <1>9, <1>10 DEF Next

\* A step keeps the history typed.
LEMMA HistoryStep ==
  ASSUME ControlInv, DataInv, HistoryInv, [Next]_vars
  PROVE  HistoryInv'
<1>1. ReachMoves /\ GoneMoves /\ ListMoves
  BY ReachStep, GoneStep, ListStep
<1>2. disturbed' \subseteq Chats /\ unlisted' \subseteq Ids
  BY <1>1 DEF ReachMoves, ListMoves
<1>3. /\ mixed' \subseteq Chats /\ mixed' \subseteq disturbed'
      /\ \A c \in mixed' : pc'[c] # "idle" /\ (pc'[c] \in Ended \/ client')
  <2>1. ASSUME NEW r \in Requests, pc[r] \in Midway PROVE r \in Come
    BY <2>1, SessionAssumption
       DEF Midway, Come, ControlInv, StatesOf, DeleteStates, ClearStates, Ended
  <2>2. Come \subseteq Chats
    BY DEF Come
  <2>3. /\ mixed' \subseteq mixed \cup {c \in Come : client'}
        /\ mixed' \subseteq disturbed'
    BY <1>1, <2>1, <2>2 DEF ReachMoves, HistoryInv, ControlInv
  <2>4. ASSUME NEW c \in Chats, pc[c] # "idle"
        PROVE  pc'[c] # "idle" /\ (pc[c] \in Ended => pc'[c] \in Ended)
    BY <2>4, Stays DEF Requests, Lasts
  <2>5. client => client' \/ \A r \in Requests : pc'[r] \in Ended \cup {"idle"}
    BY <1>1 DEF ReachMoves
  <2>. QED
    BY <2>2, <2>3, <2>4, <2>5 DEF HistoryInv, Come, Requests
<1>4. gone' \in [Deletions -> {"no", "redis", "memory"}]
  BY <1>1 DEF GoneMoves, HistoryInv, Recreated
<1>5. \A d \in Deletions : gone'[d] # "no" => pc'[d] = "done"
  <2>1. ASSUME NEW d \in Deletions, pc[d] = "done" PROVE pc'[d] = "done"
    BY <2>1, Stays DEF Requests, Lasts
  <2>. QED
    BY <1>1, <2>1 DEF GoneMoves, HistoryInv, Recreated
<1>. QED
  BY <1>2, <1>3, <1>4, <1>5 DEF HistoryInv

-----------------------------------------------------------------------------
(***************************************************************************)
(* What a chat goes on with.                                               *)
(***************************************************************************)
\* What runs while a chat is in the midst of an operation: nothing but Redis.
Undisturbed ==
  /\ UNCHANGED <<client, memory, call, mixed, gone>> /\ disturbed \subseteq disturbed'
  /\ list \cup unlisted \subseteq list' \cup unlisted'
  /\ \/ UNCHANGED redis
     \/ \E i \in Ids : redis' = [redis EXCEPT ![i] = Absent]

\* How a chat comes to be in the midst of an operation, and stays there.
LEMMA MidwayStep ==
  ASSUME ControlInv, [Next]_vars, NEW c \in Chats, pc'[c] \in Midway \cup {"push"}
  PROVE  \/ GetSession(c) /\ pc'[c] = "create"
         \/ AddMessage(c) /\ pc'[c] = "update"
         \/ UpdateSession(c) /\ pc'[c] = "write"
         \/ CreateSession(c) /\ pc'[c] = "push"
         \/ Undisturbed
<1>. USE SessionAssumption
<1>1. ASSUME NEW r \in Requests, Moves(r) PROVE r = c
  <2>1. SUFFICES ASSUME r # c PROVE FALSE
    OBVIOUS
  <2>2. pc'[c] = pc[c]
    BY <1>1, <2>1 DEF Moves, Goto, ControlInv
  <2>3. loop = c
    BY <2>2 DEF ControlInv, Requests, Midway, Running
  <2>. QED
    BY <1>1, <2>1, <2>3 DEF Moves, Requests
<1>2. ASSUME NEW d \in Chats, Chat(d)
      PROVE  GetSession(c) \/ AddMessage(c) \/ UpdateSession(c) \/ CreateSession(c)
  <2>1. d = c
    BY <1>1, <1>2, ChatMoves DEF Requests
  <2>2. CASE Send(c)
    BY <2>2 DEF Send, Goto, ControlInv, Requests, Midway
  <2>3. CASE Push(c)
    BY <2>3 DEF Push, Continue, Leave, Goto, ControlInv, Requests, Midway
  <2>4. CASE WriteSession(c)
    BY <2>4 DEF WriteSession, Added, Leave, Goto, ControlInv, Requests, Midway
  <2>5. CASE Answer(c)
    BY <2>5 DEF Answer, Goto, ControlInv, Requests, Midway
  <2>6. CASE HarnessRaises(c)
    BY <2>6 DEF HarnessRaises, Goto, ControlInv, Requests, Midway
  <2>. QED
    BY <1>2, <2>1, <2>2, <2>3, <2>4, <2>5, <2>6 DEF Chat
<1>3. ASSUME GetSession(c) PROVE pc'[c] = "create"
  BY <1>3 DEF GetSession, Continue, Goto, ControlInv, Requests, Midway
<1>4. ASSUME AddMessage(c) PROVE pc'[c] = "update"
  BY <1>4 DEF AddMessage, Added, Continue, Leave, Goto, ControlInv, Requests, Midway
<1>5. ASSUME UpdateSession(c) PROVE pc'[c] = "write"
  BY <1>5 DEF UpdateSession, Added, Continue, Leave, Goto, ControlInv, Requests, Midway
<1>6. ASSUME CreateSession(c) PROVE pc'[c] = "push"
  BY <1>6 DEF CreateSession, Continue, Leave, Goto, ControlInv, Requests, Midway
<1>7. ASSUME NEW d \in Deletions, Deletion(d) PROVE FALSE
  BY <1>1, <1>7, DeletionMoves DEF Requests
<1>8. ASSUME NEW r \in Clears, Clear(r) PROVE FALSE
  BY <1>1, <1>8, ClearMoves DEF Requests
<1>9. ASSUME NEW r \in Requests, CommandFails(r) PROVE FALSE
  <2>1. loop = r /\ pc' = [pc EXCEPT ![r] = "failed"]
    BY <1>9 DEF CommandFails, Leave, Goto
  <2>2. r # c
    BY <2>1 DEF ControlInv, Requests, Midway
  <2>3. pc'[c] = pc[c]
    BY <2>1, <2>2 DEF ControlInv, Requests
  <2>. QED
    BY <2>1, <2>2, <2>3 DEF ControlInv, Requests, Midway, Running
<1>10. CASE Restart
  BY <1>10 DEF Restart, Ended, Midway, ControlInv, Requests
<1>11. ASSUME NEW i \in Ids, SessionExpires(i) PROVE Undisturbed
  BY <1>11 DEF SessionExpires, Undisturbed, process
<1>12. CASE ListExpires
  BY <1>12 DEF ListExpires, Undisturbed, process
<1>13. CASE RedisGoes \/ RedisComes \/ UNCHANGED vars
  BY <1>13 DEF RedisGoes, RedisComes, vars, Undisturbed, store, process, history
<1>. QED
  BY <1>2, <1>3, <1>4, <1>5, <1>6, <1>7, <1>8, <1>9, <1>10, <1>11, <1>12, <1>13 DEF Next

\* The chat has reached Redis in the midst of its operation, and disturbed every chat.
Astray(c) == c \in mixed /\ Come \subseteq disturbed

\* The message it is about to write follows those that are in the session.
Follows(c) ==
  IF client THEN redis[id[c]] = Absent \/ messages[c] = Append(redis[id[c]], <<c, role[c]>>)
            ELSE memory[id[c]] = messages[c]

\* A chat creates a session that is not there, and writes one that has grown by its message.
HeldInv ==
  \A c \in Chats :
    /\ pc[c] = "create" => Astray(c) \/ Session(c, client) = Absent
    /\ pc[c] \in {"update", "write"} => Astray(c) \/ Follows(c)
    /\ pc[c] \in {"update", "write"} =>
         \E s \in Seq(Messages) : messages[c] = Append(s, <<c, role[c]>>)

\* A step keeps what chats go on with.
LEMMA HeldStep ==
  ASSUME ControlInv, DataInv, HistoryInv, HeldInv, [Next]_vars
  PROVE  HeldInv'
<1>. SUFFICES ASSUME NEW c \in Chats, pc'[c] \in Midway
     PROVE  /\ pc'[c] = "create" => Astray(c)' \/ Session(c, client)' = Absent
            /\ pc'[c] \in {"update", "write"} => Astray(c)' \/ Follows(c)'
            /\ pc'[c] \in {"update", "write"} =>
                 \E s \in Seq(Messages) : messages'[c] = Append(s, <<c, role'[c]>>)
  BY DEF HeldInv, Midway
<1>. DEFINE Goal == /\ pc'[c] = "create" => Astray(c)' \/ Session(c, client)' = Absent
                    /\ pc'[c] \in {"update", "write"} => Astray(c)' \/ Follows(c)'
                    /\ pc'[c] \in {"update", "write"} =>
                         \E s \in Seq(Messages) : messages'[c] = Append(s, <<c, role'[c]>>)
<1>0. ~(CreateSession(c) /\ pc'[c] = "push")
  BY DEF Midway
<1>1. id[c] \in Ids \/ ~(AddMessage(c) \/ UpdateSession(c) \/ pc[c] \in Midway)
  BY DEF ControlInv, AddMessage, UpdateSession, Midway
<1>2. ASSUME GetSession(c), pc'[c] = "create" PROVE Goal
  <2>1. PICK inRedis \in BOOLEAN :
          /\ Reach(c, inRedis) /\ UNCHANGED <<redis, memory, id>>
          /\ Goto(c, IF Session(c, inRedis) = Absent THEN "create" ELSE "add")
    BY <1>2 DEF GetSession, Uses, Removes, Continue, store
  <2>2. Session(c, inRedis) = Absent
    BY <1>2, <2>1 DEF Goto, ControlInv, Requests
  <2>3. Session(c, client)' = Session(c, inRedis)
    BY <2>1 DEF Session, Reach
  <2>. QED
    BY <1>2, <2>2, <2>3
<1>3. ASSUME AddMessage(c), pc'[c] = "update" PROVE Goal
  <2>1. PICK inRedis \in BOOLEAN :
          LET session == Session(c, inRedis)
              longer  == Append(session, <<c, role[c]>>)
          IN /\ Reach(c, inRedis) /\ UNCHANGED <<redis, id, role>>
             /\ \/ Added(c)
                \/ /\ session # Absent
                   /\ messages' = [messages EXCEPT ![c] = longer]
                   /\ memory' = IF inRedis THEN memory
                                ELSE [memory EXCEPT ![id[c]] = longer]
    BY <1>3 DEF AddMessage, Uses, Removes, store
  <2>2. ~Added(c)
    BY <1>3 DEF Added, Leave, Goto, ControlInv, Requests
  <2>3. /\ Session(c, inRedis) # Absent
        /\ messages'[c] = Append(Session(c, inRedis), <<c, role[c]>>)
        /\ memory' = IF inRedis THEN memory
                     ELSE [memory EXCEPT ![id[c]] = Append(Session(c, inRedis), <<c, role[c]>>)]
    BY <2>1, <2>2 DEF DataInv
  <2>4. Session(c, inRedis) \in Seq(Messages)
    BY <1>1, <1>3, <2>3 DEF Session, DataInv
  <2>5. CASE inRedis = TRUE
    <3>1. client' = TRUE /\ UNCHANGED <<redis, id, role>>
      BY <2>1, <2>5 DEF Reach
    <3>2. messages'[c] = Append(redis[id[c]], <<c, role[c]>>)
      BY <2>3, <2>5 DEF Session
    <3>. QED
      BY <1>3, <2>3, <2>4, <3>1, <3>2 DEF Follows
  <2>6. CASE inRedis = FALSE
    <3>1. client' = FALSE /\ UNCHANGED <<redis, id, role>>
      BY <2>1, <2>6 DEF Reach
    <3>2. memory'[id[c]] = messages'[c]
      BY <1>1, <1>3, <2>3, <2>6 DEF DataInv
    <3>. QED
      BY <1>3, <2>3, <2>4, <3>1, <3>2 DEF Follows
  <2>. QED
    BY <2>5, <2>6
<1>4. ASSUME UpdateSession(c), pc'[c] = "write" PROVE Goal
  <2>1. PICK inRedis \in BOOLEAN :
          /\ Uses(c, inRedis) /\ UNCHANGED <<redis, memory, id, role, messages>>
    BY <1>4 DEF UpdateSession, store
  <2>2. pc[c] = "update" /\ pc' = [pc EXCEPT ![c] = pc'[c]]
    BY <1>4 DEF UpdateSession, Added, Leave, Continue, Goto, ControlInv, Requests
  <2>3. Come' = Come
    BY <1>4, <2>2 DEF Come, ControlInv, Requests
  <2>4. disturbed \subseteq disturbed' /\ mixed \subseteq mixed'
    BY <2>1 DEF Uses, Removes, Reach
  <2>5. (\E s \in Seq(Messages) : messages[c] = Append(s, <<c, role[c]>>))
    BY <2>2 DEF HeldInv
  <2>6. CASE Astray(c)
    BY <1>4, <2>1, <2>3, <2>4, <2>5, <2>6 DEF Astray
  <2>7. CASE ~Astray(c) /\ inRedis = TRUE /\ ~client
    <3>1. c \in mixed' /\ Come \subseteq disturbed'
      BY <2>1, <2>2, <2>7 DEF Uses, Removes, Reach, Hidden, Midway
    <3>. QED
      BY <1>4, <2>1, <2>3, <2>5, <3>1 DEF Astray
  <2>8. CASE ~Astray(c) /\ (inRedis = FALSE \/ client)
    <3>1. client' <=> client
      BY <2>1, <2>8 DEF Uses, Removes, Reach
    <3>2. Follows(c)
      BY <2>2, <2>8 DEF HeldInv
    <3>3. Follows(c)'
      BY <2>1, <3>1, <3>2 DEF Follows
    <3>. QED
      BY <1>4, <2>1, <2>5, <3>3
  <2>. QED
    BY <2>6, <2>7, <2>8
<1>5. ASSUME Undisturbed PROVE Goal
  <2>1. /\ pc' = pc /\ id' = id /\ role' = role /\ messages' = messages /\ client' = client
        /\ memory' = memory /\ mixed' = mixed /\ disturbed \subseteq disturbed'
    BY <1>5 DEF Undisturbed, call
  <2>2. id[c] \in Ids
    BY <1>1, <2>1
  <2>3. redis'[id[c]] \in {redis[id[c]], Absent}
    BY <1>5, <2>2 DEF Undisturbed, DataInv
  <2>4. Astray(c) => Astray(c)'
    BY <2>1 DEF Astray, Come
  <2>5. Session(c, client) = Absent => Session(c, client)' = Absent
    BY <2>1, <2>3 DEF Session
  <2>6. Follows(c) => Follows(c)'
    BY <2>1, <2>3 DEF Follows
  <2>7. \/ pc[c] = "create" /\ (Astray(c) \/ Session(c, client) = Absent)
        \/ /\ pc[c] \in {"update", "write"} /\ (Astray(c) \/ Follows(c))
           /\ \E s \in Seq(Messages) : messages[c] = Append(s, <<c, role[c]>>)
    BY <2>1 DEF HeldInv, Midway
  <2>. QED
    BY <2>1, <2>4, <2>5, <2>6, <2>7
<1>. QED
  BY <1>0, <1>2, <1>3, <1>4, <1>5, MidwayStep

-----------------------------------------------------------------------------
(***************************************************************************)
(* The list.                                                               *)
(***************************************************************************)
\* How the list grows, and how the ids in it or known to be missing become fewer.
ListedMoves ==
  /\ \/ list' \subseteq list
     \/ \E c \in Chats : /\ pc[c] = "push" /\ UNCHANGED <<gone, id>>
                         /\ list' = list \cup {id[c]}
  /\ \/ list \cup unlisted \subseteq list' \cup unlisted'
     \/ redis' = [i \in Ids |-> Absent]
     \/ \E d \in Deletions : /\ pc[d] = "unlist" /\ UNCHANGED redis
                             /\ (list \cup unlisted) \ {id[d]} \subseteq list' \cup unlisted'

\* A step changes them in one of these ways.
LEMMA ListedStep ==
  ASSUME ControlInv, [Next]_vars
  PROVE  ListedMoves
<1>. USE SessionAssumption DEF ListedMoves, store, process, call, history
<1>1. ASSUME NEW c \in Chats, Send(c) PROVE ListedMoves
  BY <1>1 DEF Send
<1>2. ASSUME NEW c \in Chats, GetSession(c) PROVE ListedMoves
  BY <1>2 DEF GetSession, Uses, Removes, Reach, Hidden, Session
<1>3. ASSUME NEW c \in Chats, CreateSession(c) PROVE ListedMoves
  <2>1. UNCHANGED list /\ unlisted \subseteq unlisted'
    BY <1>3 DEF CreateSession
  <2>. QED
    BY <2>1
<1>4. ASSUME NEW c \in Chats, Push(c) PROVE ListedMoves
  <2>1. /\ pc[c] = "push" /\ UNCHANGED <<gone, id>>
        /\ list' = list \cup {id[c]} /\ unlisted' = unlisted \ {id[c]}
    BY <1>4 DEF Push
  <2>. QED
    BY <2>1
<1>5. ASSUME NEW c \in Chats, AddMessage(c) PROVE ListedMoves
  BY <1>5 DEF AddMessage, Uses, Removes, Reach, Hidden, Session, Added
<1>6. ASSUME NEW c \in Chats, UpdateSession(c) PROVE ListedMoves
  BY <1>6 DEF UpdateSession, Uses, Removes, Reach, Hidden, Session, Added
<1>7. ASSUME NEW c \in Chats, WriteSession(c) PROVE ListedMoves
  <2>1. UNCHANGED list /\ unlisted \subseteq unlisted'
    BY <1>7 DEF WriteSession
  <2>. QED
    BY <2>1
<1>8. ASSUME NEW c \in Chats, Answer(c) PROVE ListedMoves
  BY <1>8 DEF Answer
<1>9. ASSUME NEW c \in Chats, HarnessRaises(c) PROVE ListedMoves
  BY <1>9 DEF HarnessRaises
<1>10. ASSUME NEW d \in Deletions, StartDeletion(d) PROVE ListedMoves
  BY <1>10 DEF StartDeletion
<1>11. ASSUME NEW d \in Deletions, DeleteSession(d) PROVE ListedMoves
  BY <1>11 DEF DeleteSession, Removes, Reach, Hidden, Of, Come
<1>12. ASSUME NEW d \in Deletions, Unlist(d) PROVE ListedMoves
  <2>1. /\ pc[d] = "unlist" /\ UNCHANGED <<redis, unlisted>>
        /\ list' = list \ {id[d]}
    BY <1>12 DEF Unlist
  <2>. QED
    BY <2>1
<1>13. ASSUME NEW r \in Clears, StartClear(r) PROVE ListedMoves
  BY <1>13 DEF StartClear
<1>14. ASSUME NEW r \in Clears, Keys(r) PROVE ListedMoves
  BY <1>14 DEF Keys, Uses, Removes, Reach, Hidden, Come
<1>15. ASSUME NEW r \in Clears, Wipe(r) PROVE ListedMoves
  BY <1>15 DEF Wipe, Removes, Reach, Hidden, Come
<1>16. ASSUME NEW r \in Requests, CommandFails(r) PROVE ListedMoves
  BY <1>16 DEF CommandFails, Reach, Hidden
<1>17. ASSUME NEW i \in Ids, SessionExpires(i) PROVE ListedMoves
  BY <1>17 DEF SessionExpires, Of, Come
<1>18. CASE ListExpires
  BY <1>18 DEF ListExpires
<1>19. CASE RedisGoes
  BY <1>19 DEF RedisGoes
<1>20. CASE RedisComes
  BY <1>20 DEF RedisComes
<1>21. CASE Restart
  BY <1>21 DEF Restart, Come
<1>22. CASE UNCHANGED vars
  BY <1>22 DEF vars
<1>. QED
  BY <1>1, <1>2, <1>3, <1>4, <1>5, <1>6, <1>7, <1>8, <1>9, <1>10, <1>11, <1>12, <1>13,
     <1>14, <1>15, <1>16, <1>17, <1>18, <1>19, <1>20, <1>21, <1>22
     DEF Next, Chat, Deletion, Clear

-----------------------------------------------------------------------------
(***************************************************************************)
(* Deletions.                                                              *)
(***************************************************************************)
\* What a deletion from Redis has removed: the session, its place in the list, and as
\* Redis is in use what the memory holds no longer counts.
GoneFromRedis(d) ==
  /\ redis[id[d]] = Absent /\ id[d] \notin list
  /\ client \/ memory[id[d]] = Absent

\* What is deleted is not there, and no chat is about to write it.
GoneInv ==
  /\ \A d \in Deletions :
       /\ gone[d] = "redis" => GoneFromRedis(d)
       /\ gone[d] = "memory" => memory[id[d]] = Absent
       /\ pc[d] = "unlist" => redis[id[d]] = Absent
  /\ \A c \in Chats, d \in Deletions :
       pc[c] \in {"push", "update", "write"} /\ gone[d] = "redis" => id[c] # id[d]

\* A session that is written to the memory is there.
LEMMA WrittenIsThere ==
  ASSUME ControlInv, DataInv, HistoryInv, HeldInv, NEW c \in Chats, pc[c] = "write", ~client
  PROVE  memory[id[c]] = messages[c] /\ messages[c] # Absent
<1>1. ~Astray(c)
  BY DEF Astray, HistoryInv, Ended
<1>2. Follows(c)
  BY <1>1 DEF HeldInv
<1>3. messages[c] # Absent
  BY SessionThere DEF DataInv
<1>. QED
  BY <1>2, <1>3 DEF Follows

\* A session that comes to be in Redis is created there, or written by a chat.
LEMMA RedisGrows ==
  ASSUME ControlInv, DataInv, [Next]_vars, NEW i \in Ids, redis[i] = Absent, redis'[i] # Absent
  PROVE  \E c \in Chats : id[c] = i /\ client' /\ UNCHANGED memory
           /\ \/ pc[c] = "create" /\ gone' = Recreated(i) /\ i \in unlisted'
              \/ pc[c] = "write" /\ UNCHANGED gone /\ (~client => i \in unlisted')
<1>1. RedisMoves
  BY RedisStep
<1>2. redis \in [Ids -> Seq(Messages) \cup {Absent}]
  BY DEF DataInv
<1>3. ASSUME NEW j, NEW s, redis' = [redis EXCEPT ![j] = s] PROVE j = i /\ s # Absent
  BY <1>2, <1>3
<1>4. redis' # [j \in Ids |-> Absent]
  OBVIOUS
<1>5. ~(UNCHANGED redis) /\ ~(\E j \in Ids : redis' = [redis EXCEPT ![j] = Absent])
  BY <1>3
<1>6. ASSUME NEW c \in Chats, redis' = [redis EXCEPT ![id[c]] = <<>>] PROVE id[c] = i
  BY <1>3, <1>6
<1>7. ASSUME NEW c \in Chats, redis' = [redis EXCEPT ![id[c]] = messages[c]] PROVE id[c] = i
  BY <1>3, <1>7
<1>. QED
  BY <1>1, <1>4, <1>5, <1>6, <1>7 DEF RedisMoves

\* A session that comes to be in the memory is created there.
LEMMA MemoryGrows ==
  ASSUME ControlInv, DataInv, HistoryInv, HeldInv, [Next]_vars,
         NEW i \in Ids, memory[i] = Absent, memory'[i] # Absent
  PROVE  ~client /\ gone' = Recreated(i)
<1>1. MemoryMoves
  BY MemoryStep
<1>2. memory \in [Ids -> Seq(Messages) \cup {Absent}]
  BY DEF DataInv
<1>3. ASSUME NEW j, NEW s, memory' = [memory EXCEPT ![j] = s] PROVE j = i /\ s # Absent
  BY <1>2, <1>3
<1>4. memory' # [j \in Ids |-> Absent]
  OBVIOUS
<1>5. ASSUME NEW c \in Chats, pc[c] = "write", ~client PROVE memory[id[c]] # Absent
  BY <1>5, WrittenIsThere
<1>6. ~(UNCHANGED memory) /\ ~(\E j \in Ids : memory' = [memory EXCEPT ![j] = Absent])
  BY <1>3
<1>7. ASSUME NEW c \in Chats, memory' = [memory EXCEPT ![id[c]] = <<>>] PROVE id[c] = i
  BY <1>3, <1>7
<1>8. ASSUME NEW c \in Chats, NEW s, memory' = [memory EXCEPT ![id[c]] = s]
      PROVE  memory[id[c]] = Absent
  BY <1>3, <1>8
<1>9. ASSUME NEW c \in Chats,
             memory' = [memory EXCEPT ![id[c]] = Append(memory[id[c]], <<c, role[c]>>)]
      PROVE  memory[id[c]] = Absent
  BY <1>8, <1>9
<1>10. ASSUME NEW c \in Chats, memory' = [memory EXCEPT ![id[c]] = messages[c]]
       PROVE  memory[id[c]] = Absent
  BY <1>8, <1>10
<1>. QED
  BY <1>1, <1>4, <1>5, <1>6, <1>7, <1>9, <1>10 DEF MemoryMoves

\* What a step newly records as deleted.
LEMMA NewlyGone ==
  ASSUME ControlInv, DataInv, HistoryInv, [Next]_vars, NEW d \in Deletions, gone'[d] # gone[d]
  PROVE  \/ gone'[d] = "no"
         \/ /\ gone'[d] = "memory" /\ UNCHANGED <<id, redis, list>>
            /\ memory' = [memory EXCEPT ![id[d]] = Absent]
         \/ /\ gone'[d] = "redis" /\ pc[d] = "unlist" /\ UNCHANGED <<id, redis, memory>>
            /\ list' = list \ {id[d]} /\ client'
<1>1. GoneMoves
  BY GoneStep
<1>2. gone \in [Deletions -> {"no", "redis", "memory"}]
  BY DEF HistoryInv
<1>3. ASSUME NEW e \in Deletions, NEW s, gone' = [gone EXCEPT ![e] = s]
      PROVE  e = d /\ gone'[d] = s
  BY <1>2, <1>3
<1>4. ASSUME NEW i, gone' = Recreated(i) PROVE gone'[d] = "no"
  BY <1>4 DEF Recreated
<1>. QED
  BY <1>1, <1>3, <1>4 DEF GoneMoves

\* A deletion goes on to the list when the session is no longer there.
LEMMA UnlistsTheAbsent ==
  ASSUME ControlInv, DataInv, GoneInv, [Next]_vars, NEW d \in Deletions, pc'[d] = "unlist"
  PROVE  redis'[id'[d]] = Absent
<1>. USE SessionAssumption
<1>1. loop' = d /\ id'[d] \in Ids
  BY ControlStep DEF ControlInv, Running, Requests
<1>2. CASE DeleteSession(d)
  <2>1. pc[d] = "delete" /\ UNCHANGED id
    BY <1>2 DEF DeleteSession
  <2>2. \/ redis' = [redis EXCEPT ![id[d]] = Absent]
        \/ Leave(d, "done") \/ Leave(d, "missing")
    BY <1>2 DEF DeleteSession
  <2>3. ~Leave(d, "done") /\ ~Leave(d, "missing")
    BY DEF Leave, Goto, ControlInv, Requests
  <2>. QED
    BY <1>1, <2>1, <2>2, <2>3 DEF DataInv
<1>3. CASE pc[d] = "unlist"
  <2>1. loop = d
    BY <1>3 DEF ControlInv, Running, Requests
  <2>2. redis[id[d]] = Absent /\ id'[d] = id[d]
    BY <1>3, Stays DEF GoneInv, Lasts, Requests
  <2>3. ASSUME NEW c \in Chats PROVE pc[c] \notin {"create", "write"}
    BY <2>1 DEF ControlInv, Running, Requests
  <2>. QED
    BY <1>1, <2>2, <2>3, RedisGrows
<1>4. pc[d] = "unlist" \/ DeleteSession(d)
  <2>. SUFFICES ASSUME pc[d] # "unlist" PROVE DeleteSession(d)
    OBVIOUS
  <2>1. ASSUME NEW r \in Requests, Moves(r) PROVE r = d
    BY <2>1 DEF Moves, Goto, ControlInv
  <2>2. ASSUME NEW c \in Chats, Chat(c) PROVE FALSE
    BY <2>1, <2>2, ChatMoves DEF Requests
  <2>3. ASSUME NEW r \in Clears, Clear(r) PROVE FALSE
    BY <2>1, <2>3, ClearMoves DEF Requests
  <2>4. ASSUME NEW e \in Deletions, Deletion(e) PROVE DeleteSession(d)
    <3>1. e = d
      BY <2>1, <2>4, DeletionMoves DEF Requests
    <3>2. ~StartDeletion(d)
      BY DEF StartDeletion, Goto, ControlInv, Requests
    <3>3. ~Unlist(d)
      BY DEF Unlist
    <3>. QED
      BY <2>4, <3>1, <3>2, <3>3 DEF Deletion
  <2>5. ASSUME NEW r \in Requests, CommandFails(r) PROVE FALSE
    BY <2>5 DEF CommandFails, Leave, Goto, ControlInv, Requests
  <2>6. CASE Restart
    BY <2>6 DEF Restart, Ended, ControlInv, Requests
  <2>7. ASSUME UNCHANGED pc PROVE FALSE
    BY <2>7
  <2>8. ASSUME NEW i \in Ids, SessionExpires(i) PROVE FALSE
    BY <2>7, <2>8 DEF SessionExpires, call
  <2>9. CASE ListExpires \/ RedisGoes \/ RedisComes \/ UNCHANGED vars
    BY <2>7, <2>9 DEF ListExpires, RedisGoes, RedisComes, vars, call
  <2>. QED
    BY <2>2, <2>3, <2>4, <2>5, <2>6, <2>8, <2>9 DEF Next
<1>. QED
  BY <1>2, <1>3, <1>4

\* A chat in the midst of writing was not there to be deleted.
LEMMA WritersStay ==
  ASSUME ControlInv, DataInv, HistoryInv, GoneInv, [Next]_vars,
         NEW c \in Chats, pc'[c] \in {"push", "update", "write"}
  PROVE  \A d \in Deletions : gone'[d] = "redis" => id'[c] # id'[d]
<1>. SUFFICES ASSUME NEW d \in Deletions, gone'[d] = "redis" PROVE id'[c] # id'[d]
  OBVIOUS
<1>1. CASE CreateSession(c)
  BY <1>1 DEF CreateSession, Recreated
<1>2. CASE AddMessage(c) /\ pc'[c] = "update"
  <2>1. PICK inRedis \in BOOLEAN :
          /\ Uses(c, inRedis) /\ UNCHANGED <<id, gone>>
          /\ Session(c, inRedis) # Absent \/ Added(c)
    BY <1>2 DEF AddMessage
  <2>2. ~Added(c)
    BY <1>2 DEF Added, Leave, Goto, ControlInv, Requests
  <2>3. GoneFromRedis(d)
    BY <2>1 DEF GoneInv
  <2>4. redis[id[c]] # Absent \/ (~client /\ memory[id[c]] # Absent)
    BY <2>1, <2>2 DEF Session, Uses, Removes, Reach
  <2>. QED
    BY <2>1, <2>3, <2>4 DEF GoneFromRedis
<1>3. CASE UpdateSession(c)
  BY <1>3 DEF UpdateSession, GoneInv
<1>4. CASE Undisturbed
  BY <1>4 DEF Undisturbed, call, GoneInv
<1>5. ~(GetSession(c) /\ pc'[c] = "create")
  OBVIOUS
<1>. QED
  BY <1>1, <1>2, <1>3, <1>4, <1>5, MidwayStep DEF Midway

\* A step keeps what is deleted deleted.
LEMMA GoneKept ==
  ASSUME ControlInv, DataInv, HistoryInv, HeldInv, GoneInv, [Next]_vars
  PROVE  GoneInv'
<1>. USE SessionAssumption
<1>1. ASSUME NEW d \in Deletions PROVE gone[d] # "no" => id'[d] = id[d] /\ id[d] \in Ids
  BY Stays DEF Lasts, HistoryInv, ControlInv, Requests
<1>2. ASSUME NEW d \in Deletions, gone'[d] = "redis" PROVE GoneFromRedis(d)'
  <2>1. CASE gone[d] = "redis"
    <3>1. GoneFromRedis(d) /\ id'[d] = id[d] /\ id[d] \in Ids
      BY <1>1, <2>1 DEF GoneInv
    <3>2. redis'[id[d]] = Absent
      <4>1. ASSUME NEW c \in Chats, pc[c] = "write" PROVE id[c] # id[d]
        BY <2>1, <4>1 DEF GoneInv
      <4>2. gone' # Recreated(id[d])
        BY <1>2 DEF Recreated
      <4>. QED
        BY <3>1, <4>1, <4>2, RedisGrows DEF GoneFromRedis
    <3>3. id[d] \notin list'
      <4>1. ASSUME NEW c \in Chats, pc[c] = "push" PROVE id[c] # id[d]
        BY <2>1, <4>1 DEF GoneInv
      <4>. QED
        BY <3>1, <4>1, ListedStep DEF ListedMoves, GoneFromRedis
    <3>4. client' \/ memory'[id[d]] = Absent
      <4>1. gone' # Recreated(id[d])
        BY <1>2 DEF Recreated
      <4>2. memory[id[d]] = Absent => memory'[id[d]] = Absent
        BY <3>1, <4>1, MemoryGrows
      <4>3. client => client' \/ memory' = [i \in Ids |-> Absent]
        BY ReachStep DEF ReachMoves
      <4>. QED
        BY <3>1, <4>2, <4>3 DEF GoneFromRedis
    <3>. QED
      BY <3>1, <3>2, <3>3, <3>4 DEF GoneFromRedis
  <2>2. CASE gone[d] # "redis"
    <3>1. /\ pc[d] = "unlist" /\ UNCHANGED <<id, redis, memory>>
          /\ list' = list \ {id[d]} /\ client'
      BY <1>2, <2>2, NewlyGone
    <3>. QED
      BY <3>1 DEF GoneFromRedis, GoneInv
  <2>. QED
    BY <2>1, <2>2
<1>3. ASSUME NEW d \in Deletions, gone'[d] = "memory" PROVE memory'[id'[d]] = Absent
  <2>1. CASE gone[d] = "memory"
    <3>1. memory[id[d]] = Absent /\ id'[d] = id[d] /\ id[d] \in Ids
      BY <1>1, <2>1 DEF GoneInv
    <3>2. gone' # Recreated(id[d])
      BY <1>3 DEF Recreated
    <3>. QED
      BY <3>1, <3>2, MemoryGrows
  <2>2. CASE gone[d] # "memory"
    <3>1. UNCHANGED id /\ memory' = [memory EXCEPT ![id[d]] = Absent]
      BY <1>3, <2>2, NewlyGone
    <3>2. pc'[d] # "idle"
      BY <1>3, HistoryStep DEF HistoryInv
    <3>3. id[d] \in Ids
      BY <3>1, <3>2, ControlStep DEF ControlInv
    <3>. QED
      BY <3>1, <3>3 DEF DataInv
  <2>. QED
    BY <2>1, <2>2
<1>4. ASSUME NEW d \in Deletions, pc'[d] = "unlist" PROVE redis'[id'[d]] = Absent
  BY <1>4, UnlistsTheAbsent
<1>. QED
  BY <1>2, <1>3, <1>4, WritersStay DEF GoneInv

-----------------------------------------------------------------------------
(***************************************************************************)
(* The list, and the messages.                                             *)
(***************************************************************************)
\* A session in Redis is in the list, or known to be missing from it, and so is one that
\* a chat is about to write there.
ListInv ==
  /\ SessionsAreListed
  /\ \A c \in Chats : pc[c] \in {"update", "write"} /\ client => id[c] \in list \cup unlisted

\* A step that does not run a deletion on the list, nor wipes Redis, loses no id.
LEMMA ListedStays ==
  ASSUME ControlInv, GoneInv, ListInv, [Next]_vars, NEW i \in Ids, i \in list \cup unlisted
  PROVE  i \in list' \cup unlisted' \/ redis'[i] = Absent
BY ListedStep DEF ListedMoves, GoneInv

\* A chat writes to a session it has just found, which is in the list.
LEMMA WritersAreListed ==
  ASSUME ControlInv, DataInv, HistoryInv, GoneInv, ListInv, [Next]_vars,
         NEW c \in Chats, pc'[c] \in {"update", "write"}, client'
  PROVE  id'[c] \in list' \cup unlisted'
<1>. USE SessionAssumption
<1>1. id'[c] \in Ids
  BY ControlStep DEF ControlInv
<1>2. CASE AddMessage(c) /\ pc'[c] = "update"
  <2>1. PICK inRedis \in BOOLEAN :
          /\ Uses(c, inRedis) /\ UNCHANGED <<id, redis, list, unlisted>>
          /\ Session(c, inRedis) # Absent \/ Added(c)
    BY <1>2 DEF AddMessage, store
  <2>2. ~Added(c)
    BY <1>2 DEF Added, Leave, Goto, ControlInv, Requests
  <2>3. redis[id[c]] # Absent
    BY <2>1, <2>2 DEF Session, Uses, Removes, Reach
  <2>. QED
    BY <1>1, <2>1, <2>3 DEF ListInv, SessionsAreListed
<1>3. CASE UpdateSession(c) /\ pc'[c] = "write"
  <2>1. PICK inRedis \in BOOLEAN :
          /\ Uses(c, inRedis) /\ UNCHANGED <<id, redis, list, unlisted>>
          /\ Session(c, inRedis) # Absent \/ Added(c)
    BY <1>3 DEF UpdateSession, store
  <2>2. ~Added(c)
    BY <1>3 DEF Added, Leave, Goto, ControlInv, Requests
  <2>3. redis[id[c]] # Absent
    BY <2>1, <2>2 DEF Session, Uses, Removes, Reach
  <2>. QED
    BY <1>1, <2>1, <2>3 DEF ListInv, SessionsAreListed
<1>4. CASE Undisturbed
  BY <1>4 DEF Undisturbed, call, ListInv
<1>. QED
  BY <1>2, <1>3, <1>4, MidwayStep DEF Midway

\* A step keeps the list complete.
LEMMA ListKept ==
  ASSUME ControlInv, DataInv, HistoryInv, GoneInv, ListInv, [Next]_vars
  PROVE  ListInv'
<1>1. ASSUME NEW i \in Ids, redis'[i] # Absent PROVE i \in list' \cup unlisted'
  <2>1. CASE redis[i] # Absent
    BY <1>1, <2>1, ListedStays DEF ListInv, SessionsAreListed
  <2>2. CASE redis[i] = Absent
    <3>1. i \in unlisted' \/ i \in list \cup unlisted
      BY <1>1, <2>2, RedisGrows DEF ListInv
    <3>. QED
      BY <1>1, <3>1, ListedStays
  <2>. QED
    BY <2>1, <2>2
<1>. QED
  BY <1>1, WritersAreListed DEF ListInv, SessionsAreListed

\* The request that runs has reached Redis in the midst of its operation, which has
\* disturbed every chat.
Strays == loop \in mixed' /\ Come \subseteq disturbed'

\* A step keeps a session in Redis, or writes one that has just expired.
LEMMA RedisKept ==
  ASSUME ControlInv, DataInv, HistoryInv, HeldInv, [Next]_vars, NEW i \in Ids
  PROVE  \/ Kept(redis[i], redis'[i]) \/ Strays
         \/ redis[i] = Absent /\ pc[loop] = "write"
<1>. USE SessionAssumption
<1>1. redis \in [Ids -> Seq(Messages) \cup {Absent}]
  BY DEF DataInv
<1>2. ASSUME NEW c \in Chats, pc[c] \in Midway PROVE loop = c
  BY <1>2 DEF ControlInv, Midway, Running, Requests
<1>3. mixed \subseteq mixed' /\ disturbed \subseteq disturbed'
  BY ReachStep DEF ReachMoves
<1>4. ASSUME NEW c \in Chats, pc[c] \in Midway, ~client, client'
      PROVE  c \in mixed' /\ Come \subseteq disturbed'
  BY <1>2, <1>4, ReachStep DEF ReachMoves, HistoryInv
<1>5. RedisMoves
  BY RedisStep
<1>6. CASE UNCHANGED redis \/ redis' = [j \in Ids |-> Absent]
  BY <1>6 DEF Kept
<1>7. ASSUME NEW j \in Ids, redis' = [redis EXCEPT ![j] = Absent]
      PROVE  Kept(redis[i], redis'[i])
  BY <1>1, <1>7 DEF Kept
<1>8. ASSUME NEW c \in Chats, pc[c] = "create", client', redis' = [redis EXCEPT ![id[c]] = <<>>]
      PROVE  Kept(redis[i], redis'[i]) \/ Strays
  <2>1. CASE i = id[c]
    <3>1. Astray(c) \/ Session(c, client) = Absent
      BY <1>8 DEF HeldInv
    <3>2. CASE Astray(c) \/ ~client
      BY <1>2, <1>3, <1>4, <1>8, <3>2 DEF Astray, Midway, Strays
    <3>3. CASE Session(c, client) = Absent /\ client
      BY <1>1, <1>8, <2>1, <3>3 DEF Kept, Session
    <3>. QED
      BY <3>1, <3>2, <3>3
  <2>2. CASE i # id[c]
    BY <1>1, <1>8, <2>2 DEF Kept
  <2>. QED
    BY <2>1, <2>2
<1>9. ASSUME NEW c \in Chats, pc[c] = "write", client',
             redis' = [redis EXCEPT ![id[c]] = messages[c]]
      PROVE  Kept(redis[i], redis'[i]) \/ Strays \/ (redis[i] = Absent /\ pc[loop] = "write")
  <2>1. CASE i = id[c]
    <3>1. Astray(c) \/ Follows(c)
      BY <1>9 DEF HeldInv
    <3>2. CASE Astray(c) \/ ~client
      BY <1>2, <1>3, <1>4, <1>9, <3>2 DEF Astray, Midway, Strays
    <3>3. CASE Follows(c) /\ client
      <4>1. CASE redis[i] = Absent
        BY <1>2, <1>9, <4>1 DEF Midway
      <4>2. CASE redis[i] # Absent
        <5>1. redis'[i] = Append(redis[i], <<c, role[c]>>)
          BY <1>1, <1>9, <2>1, <3>3, <4>2 DEF Follows
        <5>. QED
          BY <4>2, <5>1, MessageTyped DEF Kept
      <4>. QED
        BY <4>1, <4>2
    <3>. QED
      BY <3>1, <3>2, <3>3
  <2>2. CASE i # id[c]
    BY <1>1, <1>9, <2>2 DEF Kept
  <2>. QED
    BY <2>1, <2>2
<1>. QED
  BY <1>5, <1>6, <1>7, <1>8, <1>9 DEF RedisMoves

\* A step keeps a session in the memory.
LEMMA MemoryKept ==
  ASSUME ControlInv, DataInv, HistoryInv, HeldInv, [Next]_vars, NEW i \in Ids
  PROVE  Kept(memory[i], memory'[i])
<1>. USE SessionAssumption
<1>1. memory \in [Ids -> Seq(Messages) \cup {Absent}]
  BY DEF DataInv
<1>2. MemoryMoves
  BY MemoryStep
<1>3. CASE UNCHANGED memory \/ memory' = [j \in Ids |-> Absent]
  BY <1>3 DEF Kept
<1>4. ASSUME NEW j \in Ids, memory' = [memory EXCEPT ![j] = Absent]
      PROVE  Kept(memory[i], memory'[i])
  BY <1>1, <1>4 DEF Kept
<1>5. ASSUME NEW c \in Chats, pc[c] = "create", ~client, memory' = [memory EXCEPT ![id[c]] = <<>>]
      PROVE  Kept(memory[i], memory'[i])
  <2>1. ~Astray(c)
    BY <1>5 DEF Astray, HistoryInv, Ended
  <2>2. memory[id[c]] = Absent
    BY <1>5, <2>1 DEF HeldInv, Session
  <2>. QED
    BY <1>1, <1>5, <2>2 DEF Kept
<1>6. ASSUME NEW c \in Chats, memory[id[c]] # Absent,
             memory' = [memory EXCEPT ![id[c]] = Append(memory[id[c]], <<c, role[c]>>)]
      PROVE  Kept(memory[i], memory'[i])
  BY <1>1, <1>6, MessageTyped DEF Kept
<1>7. ASSUME NEW c \in Chats, pc[c] = "write", ~client,
             memory' = [memory EXCEPT ![id[c]] = messages[c]]
      PROVE  Kept(memory[i], memory'[i])
  <2>1. memory[id[c]] = messages[c]
    BY <1>7, WrittenIsThere
  <2>. QED
    BY <1>1, <1>7, <2>1 DEF Kept
<1>. QED
  BY <1>2, <1>3, <1>4, <1>5, <1>6, <1>7 DEF MemoryMoves

\* A step keeps the messages of every session, but for the two exceptions.
LEMMA OneMessage ==
  ASSUME ControlInv, DataInv, HistoryInv, HeldInv, [Next]_vars
  PROVE  \A i \in Ids : Appends(i)
BY RedisKept, MemoryKept DEF Appends, Strays

-----------------------------------------------------------------------------
(***************************************************************************)
(* The answer.                                                             *)
(***************************************************************************)
\* Whoever loses a session, or the use of Redis, is disturbed.
Disturbs ==
  /\ \A i \in Ids : redis[i] # Absent => redis'[i] # Absent \/ Of(i) \subseteq disturbed'
  /\ \A i \in Ids : memory[i] # Absent => memory'[i] # Absent \/ Of(i) \subseteq disturbed'
  /\ client => client' \/ Come \subseteq disturbed'

\* A step disturbs the chats whose sessions it removes, or hides by a restart.
LEMMA DisturbsStep ==
  ASSUME ControlInv, DataInv, [Next]_vars
  PROVE  Disturbs
<1>. USE SessionAssumption DEF Disturbs, store, process, call, history
<1>1. ASSUME NEW c \in Chats, Send(c) PROVE Disturbs
  BY <1>1 DEF Send
<1>2. ASSUME NEW c \in Chats, GetSession(c) PROVE Disturbs
  <2>1. PICK inRedis \in BOOLEAN : Uses(c, inRedis) /\ UNCHANGED <<redis, memory>>
    BY <1>2 DEF GetSession, store
  <2>. QED
    BY <2>1 DEF Uses, Removes, Reach, DataInv
<1>3. ASSUME NEW c \in Chats, CreateSession(c) PROVE Disturbs
  <2>1. /\ \/ redis' = [redis EXCEPT ![id[c]] = <<>>] /\ client' /\ UNCHANGED memory
           \/ memory' = [memory EXCEPT ![id[c]] = <<>>] /\ UNCHANGED <<redis, client>>
    BY <1>3 DEF CreateSession, Uses, Removes, Reach, DataInv
  <2>2. \A i \in Ids : redis'[i] = redis[i] \/ redis'[i] = <<>>
    BY <2>1 DEF DataInv
  <2>3. \A i \in Ids : memory'[i] = memory[i] \/ memory'[i] = <<>>
    BY <2>1 DEF DataInv
  <2>4. <<>> # Absent
    <3>1. <<>> \in Seq(Messages)
      OBVIOUS
    <3>. QED
      BY <3>1, SessionThere
  <2>. QED
    BY <2>1, <2>2, <2>3, <2>4
<1>4. ASSUME NEW c \in Chats, Push(c) PROVE Disturbs
  <2>1. PICK inRedis \in BOOLEAN : Uses(c, inRedis) /\ UNCHANGED <<redis, memory>>
    BY <1>4 DEF Push
  <2>. QED
    BY <2>1 DEF Uses, Removes, Reach, DataInv
<1>5. ASSUME NEW c \in Chats, AddMessage(c) PROVE Disturbs
  <2>1. PICK inRedis \in BOOLEAN :
          LET session == Session(c, inRedis)
              longer  == Append(session, <<c, role[c]>>)
          IN /\ Reach(c, inRedis) /\ UNCHANGED redis
             /\ \/ UNCHANGED memory
                \/ session # Absent /\ memory' = IF inRedis THEN memory
                                                 ELSE [memory EXCEPT ![id[c]] = longer]
    BY <1>5 DEF AddMessage, Uses, Removes, store
  <2>2. id[c] \in Ids
    BY <1>5 DEF AddMessage, ControlInv
  <2>3. client => client'
    BY <2>1 DEF Reach, DataInv
  <2>4. ASSUME memory[id[c]] # Absent
        PROVE  Append(memory[id[c]], <<c, role[c]>>) # Absent
    <3>1. memory[id[c]] \in Seq(Messages)
      BY <2>2, <2>4 DEF DataInv
    <3>2. Append(memory[id[c]], <<c, role[c]>>) \in Seq(Messages)
      BY <3>1, MessageTyped
    <3>. QED
      BY <3>2, SessionThere
  <2>5. \A i \in Ids : memory[i] # Absent => memory'[i] # Absent
    BY <2>1, <2>2, <2>4 DEF DataInv, Session
  <2>. QED
    BY <2>1, <2>3, <2>5
<1>6. ASSUME NEW c \in Chats, UpdateSession(c) PROVE Disturbs
  <2>1. PICK inRedis \in BOOLEAN : Uses(c, inRedis) /\ UNCHANGED <<redis, memory>>
    BY <1>6 DEF UpdateSession, store
  <2>. QED
    BY <2>1 DEF Uses, Removes, Reach, DataInv
<1>7. ASSUME NEW c \in Chats, WriteSession(c) PROVE Disturbs
  <2>1. /\ \/ redis' = [redis EXCEPT ![id[c]] = messages[c]] /\ client' /\ UNCHANGED memory
           \/ memory' = [memory EXCEPT ![id[c]] = messages[c]] /\ UNCHANGED <<redis, client>>
    BY <1>7 DEF WriteSession, Uses, Removes, Reach, DataInv
  <2>2. \A i \in Ids : /\ redis'[i] \in {redis[i], messages[c]}
                       /\ memory'[i] \in {memory[i], messages[c]}
    BY <2>1 DEF DataInv
  <2>3. messages[c] # Absent
    BY SessionThere DEF DataInv
  <2>. QED
    BY <2>1, <2>2, <2>3
<1>8. ASSUME NEW c \in Chats, Answer(c) PROVE Disturbs
  BY <1>8 DEF Answer
<1>9. ASSUME NEW c \in Chats, HarnessRaises(c) PROVE Disturbs
  BY <1>9 DEF HarnessRaises
<1>10. ASSUME NEW d \in Deletions, StartDeletion(d) PROVE Disturbs
  BY <1>10 DEF StartDeletion
<1>11. ASSUME NEW d \in Deletions, DeleteSession(d) PROVE Disturbs
  <2>1. /\ Of(id[d]) \subseteq disturbed' /\ (client => client')
        /\ \/ redis' = [redis EXCEPT ![id[d]] = Absent] /\ UNCHANGED memory
           \/ memory' = [memory EXCEPT ![id[d]] = Absent] /\ UNCHANGED redis
    BY <1>11 DEF DeleteSession, Removes, Reach, DataInv
  <2>2. \A i \in Ids : i # id[d] => redis'[i] = redis[i] /\ memory'[i] = memory[i]
    BY <2>1 DEF DataInv
  <2>. QED
    BY <2>1, <2>2
<1>12. ASSUME NEW d \in Deletions, Unlist(d) PROVE Disturbs
  <2>1. PICK inRedis \in BOOLEAN : Uses(d, inRedis) /\ UNCHANGED <<redis, memory>>
    BY <1>12 DEF Unlist
  <2>. QED
    BY <2>1 DEF Uses, Removes, Reach, DataInv
<1>13. ASSUME NEW r \in Clears, StartClear(r) PROVE Disturbs
  BY <1>13 DEF StartClear
<1>14. ASSUME NEW r \in Clears, Keys(r) PROVE Disturbs
  <2>1. /\ client => client'
        /\ UNCHANGED redis /\ (UNCHANGED memory \/ Come \subseteq disturbed')
    BY <1>14 DEF Keys, Uses, Removes, Reach, store, DataInv
  <2>. QED
    BY <2>1 DEF Of
<1>15. ASSUME NEW r \in Clears, Wipe(r) PROVE Disturbs
  <2>1. (client => client') /\ Come \subseteq disturbed'
    BY <1>15 DEF Wipe, Removes, Reach, DataInv
  <2>. QED
    BY <2>1 DEF Of
<1>16. ASSUME NEW r \in Requests, CommandFails(r) PROVE Disturbs
  <2>1. UNCHANGED <<redis, memory>> /\ client' = TRUE
    BY <1>16 DEF CommandFails, Reach, store
  <2>. QED
    BY <2>1
<1>17. ASSUME NEW i \in Ids, SessionExpires(i) PROVE Disturbs
  <2>1. /\ redis' = [redis EXCEPT ![i] = Absent] /\ UNCHANGED <<client, memory>>
        /\ Of(i) \subseteq disturbed'
    BY <1>17 DEF SessionExpires
  <2>2. \A j \in Ids : j # i => redis'[j] = redis[j]
    BY <2>1 DEF DataInv
  <2>. QED
    BY <2>1, <2>2
<1>18. CASE ListExpires
  BY <1>18 DEF ListExpires
<1>19. CASE RedisGoes
  BY <1>19 DEF RedisGoes
<1>20. CASE RedisComes
  BY <1>20 DEF RedisComes
<1>21. CASE Restart
  <2>1. Come \subseteq disturbed'
    BY <1>21 DEF Restart
  <2>. QED
    BY <2>1 DEF Of
<1>22. CASE UNCHANGED vars
  BY <1>22 DEF vars
<1>. QED
  BY <1>1, <1>2, <1>3, <1>4, <1>5, <1>6, <1>7, <1>8, <1>9, <1>10, <1>11, <1>12, <1>13,
     <1>14, <1>15, <1>16, <1>17, <1>18, <1>19, <1>20, <1>21, <1>22
     DEF Next, Chat, Deletion, Clear

Asked(session, c) == \E i \in DOMAIN session : session[i] = <<c, "user">>

Answered(session, c) ==
  \E i, j \in DOMAIN session :
    i < j /\ session[i] = <<c, "user">> /\ session[j] = <<c, "assistant">>

\* A message more keeps what was asked and answered.
LEMMA AppendKeeps ==
  ASSUME NEW s \in Seq(Messages), NEW m \in Messages, NEW c \in Chats
  PROVE  /\ Append(s, m) \in Seq(Messages)
         /\ Asked(s, c) => Asked(Append(s, m), c)
         /\ Answered(s, c) => Answered(Append(s, m), c)
         /\ m = <<c, "user">> => Asked(Append(s, m), c)
         /\ Asked(s, c) /\ m = <<c, "assistant">> => Answered(Append(s, m), c)
<1>1. /\ Len(s) \in Nat /\ DOMAIN s = 1..Len(s)
      /\ Append(s, m) \in Seq(Messages) /\ DOMAIN Append(s, m) = 1..(Len(s) + 1)
      /\ \A i \in DOMAIN s : Append(s, m)[i] = s[i]
      /\ Append(s, m)[Len(s) + 1] = m
  OBVIOUS
<1>2. \A i \in DOMAIN s : i \in DOMAIN Append(s, m) /\ i < Len(s) + 1
  BY <1>1
<1>3. Len(s) + 1 \in DOMAIN Append(s, m)
  BY <1>1
<1>4. Asked(s, c) => Asked(Append(s, m), c)
  BY <1>1, <1>2 DEF Asked
<1>5. Answered(s, c) => Answered(Append(s, m), c)
  BY <1>1, <1>2 DEF Answered
<1>6. m = <<c, "user">> => Asked(Append(s, m), c)
  BY <1>1, <1>3 DEF Asked
<1>7. Asked(s, c) /\ m = <<c, "assistant">> => Answered(Append(s, m), c)
  BY <1>1, <1>2, <1>3 DEF Asked, Answered
<1>. QED
  BY <1>1, <1>4, <1>5, <1>6, <1>7

\* What a question has been asked in holds the question before another message is added.
LEMMA AskedBefore ==
  ASSUME NEW s \in Seq(Messages), NEW c \in Chats, Asked(Append(s, <<c, "assistant">>), c)
  PROVE  Asked(s, c)
<1>1. PICK i \in DOMAIN Append(s, <<c, "assistant">>) :
        Append(s, <<c, "assistant">>)[i] = <<c, "user">>
  BY DEF Asked
<1>2. /\ Len(s) \in Nat /\ DOMAIN s = 1..Len(s)
      /\ DOMAIN Append(s, <<c, "assistant">>) = 1..(Len(s) + 1)
      /\ \A j \in DOMAIN s : Append(s, <<c, "assistant">>)[j] = s[j]
      /\ Append(s, <<c, "assistant">>)[Len(s) + 1] = <<c, "assistant">>
  OBVIOUS
<1>3. <<c, "assistant">> # <<c, "user">>
  OBVIOUS
<1>4. i \in DOMAIN s
  BY <1>1, <1>2, <1>3
<1>. QED
  BY <1>1, <1>2, <1>4 DEF Asked

\* The session of an undisturbed chat stays where it is, and only grows.
LEMMA VisibleKept ==
  ASSUME ControlInv, DataInv, HistoryInv, HeldInv, [Next]_vars,
         NEW c \in Chats, c \notin disturbed', pc[c] # "idle", Visible[id[c]] # Absent
  PROVE  /\ client' = client /\ Visible'[id[c]] # Absent
         /\ Asked(Visible[id[c]], c) => Asked(Visible'[id[c]], c)
         /\ Answered(Visible[id[c]], c) => Answered(Visible'[id[c]], c)
<1>1. id[c] \in Ids /\ c \in Come /\ c \in Of(id[c])
  BY DEF ControlInv, Come, Of
<1>2. Disturbs /\ ReachMoves
  BY DisturbsStep, ReachStep
<1>3. client' = client
  <2>1. client => client'
    BY <1>1, <1>2 DEF Disturbs
  <2>2. client' => client
    BY <1>1, <1>2 DEF ReachMoves
  <2>3. client \in BOOLEAN /\ client' \in BOOLEAN
    BY DataStep DEF DataInv
  <2>. QED
    BY <2>1, <2>2, <2>3
<1>4. Visible'[id[c]] # Absent
  BY <1>1, <1>2, <1>3 DEF Disturbs, Visible
<1>5. Kept(Visible[id[c]], Visible'[id[c]])
  <2>1. CASE client
    <3>1. ~Strays
      BY <1>1 DEF Strays
    <3>2. redis[id[c]] # Absent
      BY <2>1 DEF Visible
    <3>3. Kept(redis[id[c]], redis'[id[c]])
      BY <1>1, <3>1, <3>2, RedisKept
    <3>. QED
      BY <1>3, <2>1, <3>3 DEF Visible
  <2>2. CASE ~client
    BY <1>1, <1>3, <2>2, MemoryKept DEF Visible
  <2>. QED
    BY <2>1, <2>2
<1>6. Visible[id[c]] \in Seq(Messages)
  BY <1>1 DEF Visible, DataInv
<1>7. CASE Visible'[id[c]] = Visible[id[c]]
  BY <1>3, <1>4, <1>7
<1>8. ASSUME NEW m \in Messages, Visible'[id[c]] = Append(Visible[id[c]], m)
      PROVE  /\ Asked(Visible[id[c]], c) => Asked(Visible'[id[c]], c)
             /\ Answered(Visible[id[c]], c) => Answered(Visible'[id[c]], c)
  BY <1>6, <1>8, AppendKeeps
<1>. QED
  BY <1>3, <1>4, <1>5, <1>7, <1>8 DEF Kept

\* What a step leaves of a chat it does not run.
Rests(c) == /\ pc'[c] = pc[c] \/ pc'[c] \in {"failed", "lost"}
            /\ pc[c] # "idle" => id'[c] = id[c]
            /\ role'[c] = role[c]

\* A step runs the chat, or lets it be, or ends it without an answer.
LEMMA RunsOrRests ==
  ASSUME ControlInv, DataInv, [Next]_vars, NEW c \in Chats
  PROVE  Chat(c) \/ Rests(c)
<1>. USE SessionAssumption
<1>0. pc[c] # "idle" => id'[c] = id[c]
  BY Stays DEF Lasts, Requests
<1>1. ASSUME NEW r \in Requests, r # c, Moves(r) PROVE pc'[c] = pc[c]
  BY <1>1 DEF Moves, Goto, ControlInv, Requests
<1>2. ASSUME NEW d \in Chats, d # c, Chat(d) PROVE role'[c] = role[c]
  <2>1. CASE Send(d) \/ GetSession(d) \/ CreateSession(d) \/ Push(d) \/ HarnessRaises(d)
    BY <2>1 DEF Send, GetSession, CreateSession, Push, HarnessRaises
  <2>2. CASE AddMessage(d) \/ UpdateSession(d) \/ WriteSession(d)
    BY <2>2 DEF AddMessage, UpdateSession, WriteSession
  <2>3. CASE Answer(d)
    BY <1>2, <2>3 DEF Answer, DataInv
  <2>. QED
    BY <1>2, <2>1, <2>2, <2>3 DEF Chat
<1>3. ASSUME NEW d \in Chats, d # c, Chat(d) PROVE Rests(c)
  BY <1>0, <1>1, <1>2, <1>3, ChatMoves DEF Rests, Requests
<1>4. ASSUME NEW d \in Deletions, Deletion(d) PROVE Rests(c)
  <2>1. d \in Requests /\ d # c
    BY DEF Requests
  <2>2. UNCHANGED role
    BY <1>4 DEF Deletion, StartDeletion, DeleteSession, Unlist
  <2>. QED
    BY <1>0, <1>1, <1>4, <2>1, <2>2, DeletionMoves DEF Rests
<1>5. ASSUME NEW r \in Clears, Clear(r) PROVE Rests(c)
  <2>1. r \in Requests /\ r # c
    BY DEF Requests
  <2>2. UNCHANGED role
    BY <1>5 DEF Clear, StartClear, Keys, Wipe
  <2>. QED
    BY <1>0, <1>1, <1>5, <2>1, <2>2, ClearMoves DEF Rests
<1>6. ASSUME NEW r \in Requests, CommandFails(r) PROVE Rests(c)
  <2>1. pc' = [pc EXCEPT ![r] = "failed"] /\ UNCHANGED role
    BY <1>6 DEF CommandFails, Leave, Goto
  <2>. QED
    BY <1>0, <2>1 DEF Rests, ControlInv, Requests
<1>7. CASE Restart
  BY <1>0, <1>7 DEF Restart, Rests, Requests
<1>8. ASSUME UNCHANGED <<pc, role>> PROVE Rests(c)
  BY <1>0, <1>8 DEF Rests
<1>9. ASSUME NEW i \in Ids, SessionExpires(i) PROVE Rests(c)
  BY <1>8, <1>9 DEF SessionExpires, call
<1>10. CASE ListExpires \/ RedisGoes \/ RedisComes \/ UNCHANGED vars
  BY <1>8, <1>10 DEF ListExpires, RedisGoes, RedisComes, vars, call
<1>. QED
  BY <1>3, <1>4, <1>5, <1>6, <1>7, <1>9, <1>10 DEF Next

\* Where the session of an undisturbed chat is there.
Finds == {"push", "add", "update", "write", "harness", "done"}

\* What an undisturbed chat sees of its session.
Sees(c) ==
  /\ pc[c] \in Finds => Visible[id[c]] # Absent
  /\ pc[c] = "harness" \/ (pc[c] \in {"add", "update", "write"} /\ role[c] = "assistant")
       => Asked(Visible[id[c]], c)
  /\ pc[c] = "done" => Answered(Visible[id[c]], c)

\* A chat asks before the harness runs, and answers after it.
AnswerInv ==
  \A c \in Chats :
    /\ pc[c] \in {"idle", "find", "create", "push", "harness"} => role[c] = "user"
    /\ pc[c] = "done" => role[c] = "assistant"
    /\ c \notin disturbed => Sees(c)

\* An undisturbed chat that rests sees its session.
LEMMA RestsSees ==
  ASSUME ControlInv, DataInv, HistoryInv, HeldInv, AnswerInv, [Next]_vars,
         NEW c \in Chats, c \notin disturbed', Rests(c)
  PROVE  Sees(c)'
<1>1. c \notin disturbed
  BY ReachStep DEF ReachMoves
<1>2. Sees(c)
  BY <1>1 DEF AnswerInv
<1>3. CASE pc'[c] \notin Finds
  BY <1>3 DEF Sees, Finds
<1>4. CASE pc'[c] \in Finds
  <2>1. pc'[c] = pc[c] /\ id'[c] = id[c] /\ role'[c] = role[c]
    BY <1>4 DEF Rests, Finds
  <2>2. Visible[id[c]] # Absent /\ pc[c] # "idle"
    BY <1>2, <1>4, <2>1 DEF Sees, Finds
  <2>. QED
    BY <1>2, <2>1, <2>2, VisibleKept DEF Sees
<1>. QED
  BY <1>3, <1>4

\* The role changes when the harness has answered; a chat is done when it has added the
\* answer.
LEMMA RoleStep ==
  ASSUME ControlInv, DataInv, AnswerInv, [Next]_vars, NEW c \in Chats
  PROVE  /\ pc'[c] \in {"idle", "find", "create", "push", "harness"} => role'[c] = "user"
         /\ pc'[c] = "done" => role'[c] = "assistant"
<1>. USE SessionAssumption
<1>0. /\ pc[c] \in {"idle", "find", "create", "push", "harness"} => role[c] = "user"
      /\ pc[c] = "done" => role[c] = "assistant"
  BY DEF AnswerInv
<1>1. CASE Rests(c)
  BY <1>0, <1>1 DEF Rests
<1>2. CASE Chat(c)
  <2>. USE DEF Goto, Continue, Leave, ControlInv, Requests
  <2>1. CASE Send(c)
    BY <1>0, <2>1 DEF Send
  <2>2. CASE GetSession(c)
    BY <1>0, <2>2 DEF GetSession
  <2>3. CASE CreateSession(c)
    BY <1>0, <2>3 DEF CreateSession
  <2>4. CASE Push(c)
    BY <1>0, <2>4 DEF Push
  <2>5. CASE AddMessage(c)
    <3>1. /\ UNCHANGED role
          /\ pc'[c] \in {"update", IF role[c] = "user" THEN "harness" ELSE "done"}
      BY <2>5 DEF AddMessage, Added
    <3>. QED
      BY <3>1 DEF DataInv
  <2>6. CASE UpdateSession(c)
    <3>1. /\ UNCHANGED role
          /\ pc'[c] \in {"write", IF role[c] = "user" THEN "harness" ELSE "done"}
      BY <2>6 DEF UpdateSession, Added
    <3>. QED
      BY <3>1 DEF DataInv
  <2>7. CASE WriteSession(c)
    <3>1. /\ UNCHANGED role
          /\ pc'[c] \in {"failed", IF role[c] = "user" THEN "harness" ELSE "done"}
      BY <2>7 DEF WriteSession, Added
    <3>. QED
      BY <3>1 DEF DataInv
  <2>8. CASE Answer(c)
    BY <2>8 DEF Answer
  <2>9. CASE HarnessRaises(c)
    BY <2>9 DEF HarnessRaises
  <2>. QED
    BY <1>2, <2>1, <2>2, <2>3, <2>4, <2>5, <2>6, <2>7, <2>8, <2>9 DEF Chat
<1>. QED
  BY <1>1, <1>2, RunsOrRests

\* A write of an undisturbed chat adds its message to the session it sees.
LEMMA WriteSees ==
  ASSUME ControlInv, DataInv, HistoryInv, HeldInv, AnswerInv, [Next]_vars,
         NEW c \in Chats, c \notin disturbed', WriteSession(c)
  PROVE  Sees(c)'
<1>. USE SessionAssumption
<1>1. /\ pc[c] = "write" /\ id[c] \in Ids /\ UNCHANGED <<id, role>>
      /\ pc'[c] \in {"failed", IF role[c] = "user" THEN "harness" ELSE "done"}
  BY DEF WriteSession, Added, Leave, Goto, ControlInv, Requests
<1>2. c \notin disturbed /\ c \in Come /\ Sees(c)
  BY <1>1, ReachStep DEF ReachMoves, Come, AnswerInv
<1>3. Visible[id[c]] # Absent /\ (role[c] = "assistant" => Asked(Visible[id[c]], c))
  BY <1>1, <1>2 DEF Sees, Finds
<1>4. client' = client
  BY <1>1, <1>2, <1>3, VisibleKept
<1>5. Follows(c)
  BY <1>1, <1>2 DEF HeldInv, Astray
<1>6. PICK s \in Seq(Messages) : messages[c] = Append(s, <<c, role[c]>>)
  BY <1>1 DEF HeldInv
<1>7. Visible'[id[c]] = messages[c]
  <2>1. CASE client
    <3>1. redis' = [redis EXCEPT ![id[c]] = messages[c]]
      BY <1>4, <2>1 DEF WriteSession, Uses, Removes, Reach
    <3>. QED
      BY <1>1, <1>4, <2>1, <3>1 DEF Visible, DataInv
  <2>2. CASE ~client
    <3>1. memory' = [memory EXCEPT ![id[c]] = messages[c]]
      BY <1>4, <2>2 DEF WriteSession, Uses, Removes, Reach
    <3>. QED
      BY <1>1, <1>4, <2>2, <3>1 DEF Visible, DataInv
  <2>. QED
    BY <2>1, <2>2
<1>8. messages[c] # Absent
  BY SessionThere DEF DataInv
<1>9. role[c] = "user" => Asked(messages[c], c)
  BY <1>6, AppendKeeps, MessageTyped
<1>10. role[c] = "assistant" => Answered(messages[c], c)
  <2>. SUFFICES ASSUME role[c] = "assistant" PROVE Answered(messages[c], c)
    OBVIOUS
  <2>1. <<c, "assistant">> \in Messages
    BY DEF Messages
  <2>2. CASE client
    <3>1. messages[c] = Append(redis[id[c]], <<c, "assistant">>)
      BY <1>3, <1>5, <2>2 DEF Follows, Visible
    <3>2. redis[id[c]] \in Seq(Messages) /\ Asked(redis[id[c]], c)
      BY <1>1, <1>3, <2>2 DEF Visible, DataInv
    <3>. QED
      BY <2>1, <3>1, <3>2, AppendKeeps
  <2>3. CASE ~client
    <3>1. Asked(Append(s, <<c, "assistant">>), c)
      BY <1>3, <1>5, <1>6, <2>3 DEF Follows, Visible
    <3>. QED
      BY <1>6, <2>1, <3>1, AskedBefore, AppendKeeps
  <2>. QED
    BY <2>2, <2>3
<1>. QED
  BY <1>1, <1>7, <1>8, <1>9, <1>10 DEF Sees, DataInv

\* A chat that looks for its session finds it where it is seen.
LEMMA LooksWhereItSees ==
  ASSUME DataInv, HistoryInv, NEW c \in Chats, c \in Come, c \notin disturbed',
         NEW inRedis \in BOOLEAN, Uses(c, inRedis), UNCHANGED <<redis, memory>>
  PROVE  client' = client /\ Session(c, inRedis) = Visible[id[c]]
<1>1. Reach(c, inRedis) /\ c \notin Hidden(inRedis)
  BY DEF Uses, Removes
<1>2. inRedis = client /\ client' = client
  <2>1. CASE inRedis = TRUE
    BY <1>1, <2>1 DEF Reach, Hidden, DataInv
  <2>2. CASE inRedis = FALSE
    BY <1>1, <2>2 DEF Reach, DataInv
  <2>. QED
    BY <2>1, <2>2
<1>. QED
  BY <1>2 DEF Session, Visible

\* An undisturbed chat that runs sees its session.
LEMMA RunsSees ==
  ASSUME ControlInv, DataInv, HistoryInv, HeldInv, AnswerInv, [Next]_vars,
         NEW c \in Chats, c \notin disturbed', Chat(c)
  PROVE  Sees(c)'
<1>. USE SessionAssumption
<1>1. /\ c \notin disturbed /\ Sees(c)
      /\ pc[c] \in {"idle", "find", "create", "push", "harness"} => role[c] = "user"
  BY ReachStep DEF ReachMoves, AnswerInv
<1>2. pc[c] # "idle" => c \in Come /\ id[c] \in Ids
  BY DEF Come, ControlInv, Requests
<1>3. ASSUME pc[c] \in Finds, UNCHANGED <<id, role>>,
             role[c] = "assistant" => pc[c] \in {"add", "update", "write"},
             pc'[c] \notin {"done", "harness"}
      PROVE  Sees(c)'
  <2>1. Visible[id[c]] # Absent /\ pc[c] # "idle"
    BY <1>1, <1>3 DEF Sees, Finds
  <2>. QED
    BY <1>1, <1>3, <2>1, VisibleKept DEF Sees
<1>4. CASE Send(c)
  BY <1>4 DEF Send, Goto, ControlInv, Requests, Sees, Finds
<1>5. CASE GetSession(c)
  <2>1. PICK inRedis \in BOOLEAN :
          /\ Uses(c, inRedis) /\ UNCHANGED <<redis, memory, id, role>>
          /\ Goto(c, IF Session(c, inRedis) = Absent THEN "create" ELSE "add")
    BY <1>5 DEF GetSession, Continue, store
  <2>2. pc[c] = "find" /\ pc'[c] = (IF Session(c, inRedis) = Absent THEN "create" ELSE "add")
    BY <1>5, <2>1 DEF GetSession, Goto, ControlInv, Requests
  <2>3. client' = client /\ Session(c, inRedis) = Visible[id[c]]
    BY <1>2, <2>1, <2>2, LooksWhereItSees
  <2>4. Visible'[id'[c]] = Visible[id[c]]
    BY <2>1, <2>3 DEF Visible
  <2>. QED
    BY <1>1, <2>1, <2>2, <2>3, <2>4 DEF Sees, Finds
<1>6. CASE CreateSession(c)
  <2>1. /\ pc[c] = "create" /\ UNCHANGED <<id, role>>
        /\ pc'[c] \in {"push", "add", "failed"}
    BY <1>6 DEF CreateSession, Continue, Leave, Goto, ControlInv, Requests
  <2>2. Visible'[id[c]] = <<>>
    <3>1. CASE Uses(c, TRUE) /\ redis' = [redis EXCEPT ![id[c]] = <<>>]
      BY <1>2, <2>1, <3>1 DEF Uses, Removes, Reach, Visible, DataInv
    <3>2. CASE Uses(c, FALSE) /\ memory' = [memory EXCEPT ![id[c]] = <<>>]
      BY <1>2, <2>1, <3>2 DEF Uses, Removes, Reach, Visible, DataInv
    <3>. QED
      BY <1>6, <3>1, <3>2 DEF CreateSession
  <2>3. <<>> # Absent
    <3>1. <<>> \in Seq(Messages)
      OBVIOUS
    <3>. QED
      BY <3>1, SessionThere
  <2>. QED
    BY <1>1, <2>1, <2>2, <2>3 DEF Sees
<1>7. CASE Push(c)
  <2>1. pc[c] = "push" /\ UNCHANGED <<id, role>> /\ pc'[c] \in {"add", "failed"}
    BY <1>7 DEF Push, Continue, Leave, Goto, ControlInv, Requests
  <2>. QED
    BY <1>1, <1>3, <2>1 DEF Finds
<1>8. CASE AddMessage(c)
  <2>1. pc[c] = "add" /\ UNCHANGED <<id, role>>
    BY <1>8 DEF AddMessage
  <2>2. PICK inRedis \in BOOLEAN :
          /\ Uses(c, inRedis) /\ UNCHANGED redis
          /\ \/ Session(c, inRedis) = Absent /\ UNCHANGED memory
             \/ Continue(c, "update")
    BY <1>8 DEF AddMessage, store
  <2>3. ~(Session(c, inRedis) = Absent /\ UNCHANGED memory)
    <3>1. Visible[id[c]] # Absent
      BY <1>1, <2>1 DEF Sees, Finds
    <3>. QED
      BY <1>2, <2>1, <2>2, <3>1, LooksWhereItSees
  <2>4. pc'[c] = "update"
    BY <2>2, <2>3 DEF Continue, Goto, ControlInv, Requests
  <2>. QED
    BY <1>3, <2>1, <2>4 DEF Finds
<1>9. CASE UpdateSession(c)
  <2>1. pc[c] = "update" /\ UNCHANGED <<id, role, redis, memory>>
    BY <1>9 DEF UpdateSession, store
  <2>2. PICK inRedis \in BOOLEAN :
          /\ Uses(c, inRedis)
          /\ Session(c, inRedis) = Absent \/ Continue(c, "write")
    BY <1>9 DEF UpdateSession
  <2>3. Session(c, inRedis) # Absent
    <3>1. Visible[id[c]] # Absent
      BY <1>1, <2>1 DEF Sees, Finds
    <3>. QED
      BY <1>2, <2>1, <2>2, <3>1, LooksWhereItSees
  <2>4. pc'[c] = "write"
    BY <2>2, <2>3 DEF Continue, Goto, ControlInv, Requests
  <2>. QED
    BY <1>3, <2>1, <2>4 DEF Finds
<1>10. CASE WriteSession(c)
  BY <1>10, WriteSees
<1>11. CASE Answer(c)
  <2>1. pc[c] = "harness" /\ pc'[c] = "add" /\ UNCHANGED id
    BY <1>11 DEF Answer, Goto, ControlInv, Requests
  <2>2. Visible[id[c]] # Absent /\ Asked(Visible[id[c]], c)
    BY <1>1, <2>1 DEF Sees, Finds
  <2>3. Visible'[id[c]] # Absent /\ Asked(Visible'[id[c]], c)
    BY <2>1, <2>2, VisibleKept
  <2>. QED
    BY <2>1, <2>3 DEF Sees
<1>12. CASE HarnessRaises(c)
  BY <1>12 DEF HarnessRaises, Goto, ControlInv, Requests, Sees, Finds
<1>. QED
  BY <1>4, <1>5, <1>6, <1>7, <1>8, <1>9, <1>10, <1>11, <1>12 DEF Chat

\* A step keeps what chats ask and answer.
LEMMA AnswerStep ==
  ASSUME ControlInv, DataInv, HistoryInv, HeldInv, AnswerInv, [Next]_vars
  PROVE  AnswerInv'
BY RoleStep, RunsOrRests, RestsSees, RunsSees DEF AnswerInv

-----------------------------------------------------------------------------
(***************************************************************************)
(* The theorems.                                                           *)
(***************************************************************************)
IInv == TypeInv /\ HeldInv /\ GoneInv /\ ListInv /\ AnswerInv

\* At the start nothing is stored, no request has come and nothing was deleted.
LEMMA InitInv == Init => IInv
<1>. SUFFICES ASSUME Init PROVE IInv
  OBVIOUS
<1>. USE SessionAssumption
<1>1. ControlInv
  <2>1. /\ loop = Absent /\ Absent \notin Requests
        /\ pc = [r \in Requests |-> "idle"] /\ id = [r \in Requests |-> Absent]
    BY DEF Init
  <2>2. \A r \in Requests : pc[r] = "idle" /\ id[r] = Absent
    BY <2>1
  <2>3. \A r \in Requests : "idle" \in StatesOf(r)
    BY DEF StatesOf, ChatStates, DeleteStates, ClearStates
  <2>4. \A r \in Chats \cup Deletions : r \in Requests
    BY DEF Requests
  <2>5. "idle" \notin Running
    BY DEF Running
  <2>6. \A r \in Requests : loop # r
    BY <2>1
  <2>7. /\ pc \in [Requests -> {"idle", "harness"} \cup Running \cup Ended]
        /\ id \in [Requests -> Ids \cup {Absent}]
    BY <2>1
  <2>8. \A r \in Requests : pc[r] \in StatesOf(r)
    BY <2>2, <2>3
  <2>9. \A r \in Requests : pc[r] \in Running <=> loop = r
    BY <2>2, <2>5, <2>6
  <2>10. \A r \in Chats \cup Deletions : pc[r] # "idle" => id[r] \in Ids
    BY <2>2, <2>4
  <2>. QED
    BY <2>1, <2>7, <2>8, <2>9, <2>10 DEF ControlInv
<1>2. DataInv
  <2>1. outages \in 0..MaxOutages
    BY DEF Init
  <2>2. <<>> \in Seq(Messages)
    OBVIOUS
  <2>3. up \in BOOLEAN /\ client \in BOOLEAN
    BY DEF Init
  <2>4. /\ redis \in [Ids -> Seq(Messages) \cup {Absent}]
        /\ memory \in [Ids -> Seq(Messages) \cup {Absent}]
        /\ role \in [Chats -> {"user", "assistant"}]
        /\ messages \in [Chats -> Seq(Messages)]
        /\ list \subseteq Ids
    BY <2>2 DEF Init
  <2>. QED
    BY <2>1, <2>3, <2>4 DEF DataInv
<1>3. HistoryInv
  BY DEF Init, HistoryInv
<1>4. HeldInv
  BY DEF Init, HeldInv, Requests
<1>5. GoneInv
  BY DEF Init, GoneInv, Requests
<1>6. ListInv
  BY DEF Init, ListInv, SessionsAreListed, Requests
<1>7. AnswerInv
  BY DEF Init, AnswerInv, Sees, Finds, Requests
<1>. QED
  BY <1>1, <1>2, <1>3, <1>4, <1>5, <1>6, <1>7 DEF IInv, TypeInv

\* Every step keeps the invariant.
LEMMA StepInv == IInv /\ [Next]_vars => IInv'
BY ControlStep, DataStep, HistoryStep, HeldStep, GoneKept, ListKept, AnswerStep DEF IInv, TypeInv

\* The invariant holds throughout.
LEMMA AlwaysInv == Spec => []IInv
BY InitInv, StepInv, PTL DEF Spec

\* The event loop runs the one request that is between two awaits, and every session is a
\* sequence of messages of chats, in both stores.
THEOREM TypeCorrect == Spec => []TypeOK
<1>1. IInv => TypeOK
  BY TypesAreTyped DEF IInv
<1>. QED
  BY <1>1, AlwaysInv, PTL

\* A session that was deleted is not there again before a chat creates it anew
\* (delete_session, add_message, update_session).
THEOREM DeletionsLast == Spec => []DeletedStaysDeleted
<1>1. IInv => DeletedStaysDeleted
  BY DEF IInv, GoneInv, GoneFromRedis, DeletedStaysDeleted
<1>. QED
  BY <1>1, AlwaysInv, PTL

\* A session in Redis can be found by list_sessions, unless its creation stopped before
\* the list, or the list expired before it.
THEOREM ListIsComplete == Spec => []SessionsAreListed
<1>1. IInv => SessionsAreListed
  BY DEF IInv, ListInv
<1>. QED
  BY <1>1, AlwaysInv, PTL

\* When a chat has been answered and nothing removed or hid its session since it came, the
\* session holds its question and, later, its answer.
THEOREM AnswersAreKept == Spec => []AnswerIsKept
<1>1. IInv => AnswerIsKept
  BY DEF IInv, AnswerInv, Sees, Finds, Answered, AnswerIsKept
<1>. QED
  BY <1>1, AlwaysInv, PTL

\* Messages are only ever appended, one at a time, to a session that is there, and a
\* session begins empty, but for the two exceptions of Appends.
THEOREM MessagesAreKept == Spec => OnlyAppends
<1>1. IInv /\ [Next]_vars => [\A i \in Ids : Appends(i)]_vars
  BY OneMessage DEF IInv, TypeInv
<1>. QED
  BY <1>1, AlwaysInv, PTL DEF Spec, OnlyAppends

=============================================================================
