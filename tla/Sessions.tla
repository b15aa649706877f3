------------------------------ MODULE Sessions ------------------------------
(***************************************************************************)
(* The sessions of the chat API (session/service.py) and the endpoints     *)
(* that change them (api/router/chat.py).                                  *)
(*                                                                         *)
(* A session is a JSON text in Redis, read whole and written back whole,   *)
(* and its id is in a list of all of them; as long as Redis has not been   *)
(* reached sessions are kept in the memory of the process.  One process    *)
(* serves all requests on one event loop, which the synchronous Redis      *)
(* client blocks: requests take turns only where a chat awaits the         *)
(* harness.  Between two commands Redis may lose a key whose time is up,   *)
(* go away or come back.  A command that raises may have been executed.    *)
(*                                                                         *)
(* Of a session its messages are kept; of the list which ids are in it,    *)
(* for lrem removes all entries of an id and nothing else looks at their   *)
(* order.  Time is the choice of when a key expires.                       *)
(***************************************************************************)
EXTENDS Integers, Sequences

CONSTANTS
  Chats,      \* calls of POST /send
  Deletions,  \* calls of DELETE /sessions/{session_id}
  Clears,     \* calls of DELETE /sessions
  Ids,        \* ids of sessions
  Absent,     \* no session, no request
  MaxOutages  \* bound: times Redis goes away or the process restarts

Requests == Chats \cup Deletions \cup Clears

Messages == Chats \X {"user", "assistant"}

ASSUME SessionAssumption ==
  /\ Chats \cap Deletions = {} /\ Chats \cap Clears = {} /\ Deletions \cap Clears = {}
  /\ Absent \notin Seq(Messages) /\ Absent \notin Requests /\ Absent \notin Ids
  /\ MaxOutages \in Nat

VARIABLES
  up,        \* Redis answers
  redis,     \* the messages of each session in Redis
  list,      \* the ids in session:list
  client,    \* _redis is a client
  memory,    \* _memory_store
  loop,      \* the request the event loop runs
  pc,        \* where each request is, or how it ended
  id,        \* its session
  role,      \* whose message a chat adds
  messages,  \* the messages add_message goes on with
  outages    \* how often Redis went away and the process restarted
VARIABLES
  disturbed, \* history: chats whose session was removed or hidden since they came
  mixed,     \* history: chats that reached Redis in the midst of an operation
  unlisted,  \* history: sessions not yet listed, or whose list expired
  gone       \* history: the store a session was deleted from, and not created since

store   == <<redis, list>>
process == <<client, memory>>
call    == <<loop, pc, id, role, messages>>
history == <<disturbed, mixed, unlisted, gone>>
vars    == <<up, store, process, call, outages, history>>

Init ==
  /\ up \in BOOLEAN
  /\ redis = [i \in Ids |-> Absent]
  /\ list = {}
  /\ client = FALSE
  /\ memory = [i \in Ids |-> Absent]
  /\ loop = Absent
  /\ pc = [r \in Requests |-> "idle"]
  /\ id = [r \in Requests |-> Absent]
  /\ role = [c \in Chats |-> "user"]
  /\ messages = [c \in Chats |-> <<>>]
  /\ outages = 0
  /\ disturbed = {} /\ mixed = {} /\ unlisted = {}
  /\ gone = [d \in Deletions |-> "no"]

-----------------------------------------------------------------------------
Goto(r, where) == pc' = [pc EXCEPT ![r] = where]

\* the request runs on, or gives the loop back
Continue(r, where) == Goto(r, where) /\ UNCHANGED loop
Leave(r, where)    == Goto(r, where) /\ loop' = Absent

Come == {c \in Chats : pc[c] # "idle"}
Of(i) == {c \in Come : id[c] = i}

\* steps whose operation looked for the session in an earlier one
Midway == {"create", "update", "write"}

\* _get_redis: a client that has been pinged is kept; without one every call of
\* the service pings, and uses the memory when that fails
Reach(r, inRedis) ==
  /\ IF inRedis THEN client \/ up ELSE ~client
  /\ client' = inRedis
  /\ mixed' = IF inRedis /\ ~client /\ pc[r] \in Midway THEN mixed \cup {r} ELSE mixed

\* the chats whose sessions are hidden by the first use of Redis
Hidden(inRedis) == IF inRedis /\ ~client THEN Come ELSE {}

\* a command that is answered, which removes the session of some chats
Removes(r, inRedis, chats) ==
  /\ Reach(r, inRedis) /\ (inRedis => up)
  /\ disturbed' = disturbed \cup Hidden(inRedis) \cup chats

Uses(r, inRedis) == Removes(r, inRedis, {})

Session(r, inRedis) == IF inRedis THEN redis[id[r]] ELSE memory[id[r]]

\* a Redis command raises and has not been executed
CommandFails(r) ==
  /\ loop = r
  /\ Reach(r, TRUE)
  /\ disturbed' = disturbed \cup Hidden(TRUE)
  /\ Leave(r, "failed")
  /\ UNCHANGED <<up, store, memory, id, role, messages, outages, unlisted, gone>>

-----------------------------------------------------------------------------
(***************************************************************************)
(* POST /send.                                                             *)
(***************************************************************************)
Send(c) ==
  /\ loop = Absent /\ pc[c] = "idle"
  /\ \E i \in Ids : id' = [id EXCEPT ![c] = i]
  /\ loop' = c /\ Goto(c, "find")
  /\ UNCHANGED <<up, store, process, role, messages, outages, history>>

GetSession(c) ==
  /\ pc[c] = "find"
  /\ \E inRedis \in BOOLEAN :
       /\ Uses(c, inRedis)
       /\ Continue(c, IF Session(c, inRedis) = Absent THEN "create" ELSE "add")
  /\ UNCHANGED <<up, store, memory, id, role, messages, outages, unlisted, gone>>

Recreated(i) == [d \in Deletions |-> IF id[d] = i THEN "no" ELSE gone[d]]

CreateSession(c) ==
  /\ pc[c] = "create"
  /\ \/ /\ Uses(c, TRUE)
        /\ redis' = [redis EXCEPT ![id[c]] = <<>>]
        /\ unlisted' = unlisted \cup {id[c]}
        /\ Continue(c, "push") \/ Leave(c, "failed")
        /\ UNCHANGED memory
     \/ /\ Uses(c, FALSE)
        /\ memory' = [memory EXCEPT ![id[c]] = <<>>]
        /\ Continue(c, "add")
        /\ UNCHANGED <<redis, unlisted>>
  /\ gone' = Recreated(id[c])
  /\ UNCHANGED <<up, list, id, role, messages, outages>>

\* lpush, and expire of the list
Push(c) ==
  /\ pc[c] = "push"
  /\ Uses(c, TRUE)
  /\ list' = list \cup {id[c]}
  /\ unlisted' = unlisted \ {id[c]}
  /\ Continue(c, "add") \/ Leave(c, "failed")
  /\ UNCHANGED <<up, redis, memory, id, role, messages, outages, gone>>

\* after add_message: the harness is awaited, or the chat answered
Added(c) == Leave(c, IF role[c] = "user" THEN "harness" ELSE "done")

\* mutant: the answer is added to the session as it was before the harness
AddMessage_Stale(c) ==
  /\ pc[c] = "add"
  /\ \E inRedis \in BOOLEAN :
       LET session == Session(c, inRedis)
           longer  == Append(IF role[c] = "user" THEN session ELSE messages[c],
                             <<c, role[c]>>)
       IN /\ Uses(c, inRedis)
          /\ \/ session = Absent /\ Added(c) /\ UNCHANGED <<memory, messages>>
             \/ /\ session # Absent
                /\ messages' = [messages EXCEPT ![c] = longer]
                /\ memory' = IF inRedis THEN memory
                             ELSE [memory EXCEPT ![id[c]] = longer]
                /\ Continue(c, "update")
  /\ UNCHANGED <<up, store, id, role, outages, unlisted, gone>>

\* mutant: a session that is gone is written as it was
AddMessage_Upserts(c) ==
  /\ pc[c] = "add"
  /\ \E inRedis \in BOOLEAN :
       LET session == Session(c, inRedis)
       IN /\ Uses(c, inRedis)
          /\ messages' = [messages EXCEPT ![c] =
               Append(IF session = Absent THEN messages[c] ELSE session, <<c, role[c]>>)]
  /\ Continue(c, "write")
  /\ UNCHANGED <<up, store, memory, id, role, outages, unlisted, gone>>

\* add_message: without a session it returns None, which nobody looks at; the
\* session of the memory is changed in place
AddMessage(c) ==
  /\ pc[c] = "add"
  /\ \E inRedis \in BOOLEAN :
       LET session == Session(c, inRedis)
           longer  == Append(session, <<c, role[c]>>)
       IN /\ Uses(c, inRedis)
          /\ \/ session = Absent /\ Added(c) /\ UNCHANGED <<memory, messages>>
             \/ /\ session # Absent
                /\ messages' = [messages EXCEPT ![c] = longer]
                /\ memory' = IF inRedis THEN memory
                             ELSE [memory EXCEPT ![id[c]] = longer]
                /\ Continue(c, "update")
  /\ UNCHANGED <<up, store, id, role, outages, unlisted, gone>>

\* update_session: the session is looked for again
UpdateSession(c) ==
  /\ pc[c] = "update"
  /\ \E inRedis \in BOOLEAN :
       /\ Uses(c, inRedis)
       /\ \/ Session(c, inRedis) = Absent /\ Added(c)
          \/ Session(c, inRedis) # Absent /\ Continue(c, "write")
  /\ UNCHANGED <<up, store, memory, id, role, messages, outages, unlisted, gone>>

WriteSession(c) ==
  /\ pc[c] = "write"
  /\ \/ /\ Uses(c, TRUE)
        /\ redis' = [redis EXCEPT ![id[c]] = messages[c]]
        /\ unlisted' = IF client THEN unlisted ELSE unlisted \cup {id[c]}
        /\ Added(c) \/ Leave(c, "failed")
        /\ UNCHANGED memory
     \/ /\ Uses(c, FALSE)
        /\ memory' = [memory EXCEPT ![id[c]] = messages[c]]
        /\ Added(c)
        /\ UNCHANGED <<redis, unlisted>>
  /\ UNCHANGED <<up, list, id, role, messages, outages, gone>>

\* the harness has answered
Answer(c) ==
  /\ loop = Absent /\ pc[c] = "harness"
  /\ loop' = c /\ Goto(c, "add")
  /\ role' = [role EXCEPT ![c] = "assistant"]
  /\ UNCHANGED <<up, store, process, id, messages, outages, history>>

\* the checkpointer cannot be set up, which execute does not catch
HarnessRaises(c) ==
  /\ loop = Absent /\ pc[c] = "harness"
  /\ Goto(c, "failed")
  /\ UNCHANGED <<up, store, process, loop, id, role, messages, outages, history>>

-----------------------------------------------------------------------------
(***************************************************************************)
(* DELETE /sessions/{session_id} and DELETE /sessions.                     *)
(***************************************************************************)
StartDeletion(d) ==
  /\ loop = Absent /\ pc[d] = "idle"
  /\ \E i \in Ids : id' = [id EXCEPT ![d] = i]
  /\ loop' = d /\ Goto(d, "delete")
  /\ UNCHANGED <<up, store, process, role, messages, outages, history>>

\* mutant: the list first
DeleteSession_ListFirst(d) ==
  /\ pc[d] = "delete"
  /\ \/ /\ Removes(d, TRUE, {})
        /\ list' = list \ {id[d]}
        /\ Continue(d, "unlist") \/ Leave(d, "failed")
        /\ UNCHANGED <<redis, memory, gone>>
     \/ /\ Removes(d, FALSE, Of(id[d]))
        /\ memory' = [memory EXCEPT ![id[d]] = Absent]
        /\ \/ /\ memory[id[d]] # Absent
              /\ gone' = [gone EXCEPT ![d] = "memory"]
              /\ Leave(d, "done")
           \/ memory[id[d]] = Absent /\ Leave(d, "missing") /\ UNCHANGED gone
        /\ UNCHANGED store
  /\ UNCHANGED <<up, id, role, messages, outages, unlisted>>

DeleteSession(d) ==
  /\ pc[d] = "delete"
  /\ \/ /\ Removes(d, TRUE, Of(id[d]))
        /\ redis' = [redis EXCEPT ![id[d]] = Absent]
        /\ Continue(d, "unlist") \/ Leave(d, "failed")
        /\ UNCHANGED <<memory, gone>>
     \/ /\ Removes(d, FALSE, Of(id[d]))
        /\ memory' = [memory EXCEPT ![id[d]] = Absent]
        /\ \/ /\ memory[id[d]] # Absent
              /\ gone' = [gone EXCEPT ![d] = "memory"]
              /\ Leave(d, "done")
           \/ memory[id[d]] = Absent /\ Leave(d, "missing") /\ UNCHANGED gone
        /\ UNCHANGED redis
  /\ UNCHANGED <<up, list, id, role, messages, outages, unlisted>>

Unlist(d) ==
  /\ pc[d] = "unlist"
  /\ Uses(d, TRUE)
  /\ list' = list \ {id[d]}
  /\ \/ Leave(d, "done") /\ gone' = [gone EXCEPT ![d] = "redis"]
     \/ Leave(d, "failed") /\ UNCHANGED gone
  /\ UNCHANGED <<up, redis, memory, id, role, messages, outages, unlisted>>

StartClear(r) ==
  /\ loop = Absent /\ pc[r] = "idle"
  /\ loop' = r /\ Goto(r, "keys")
  /\ UNCHANGED <<up, store, process, id, role, messages, outages, history>>

Keys(r) ==
  /\ pc[r] = "keys"
  /\ \/ /\ Uses(r, TRUE)
        /\ IF list = {} /\ \A i \in Ids : redis[i] = Absent
           THEN Leave(r, "done") ELSE Continue(r, "wipe")
        /\ UNCHANGED memory
     \/ /\ Removes(r, FALSE, Come)
        /\ memory' = [i \in Ids |-> Absent]
        /\ Leave(r, "done")
  /\ UNCHANGED <<up, store, id, role, messages, outages, unlisted, gone>>

\* what KEYS has found is all there is: nobody else adds a key meanwhile
Wipe(r) ==
  /\ pc[r] = "wipe"
  /\ Removes(r, TRUE, Come)
  /\ redis' = [i \in Ids |-> Absent] /\ list' = {}
  /\ Leave(r, "done") \/ Leave(r, "failed")
  /\ UNCHANGED <<up, memory, id, role, messages, outages, unlisted, gone>>

-----------------------------------------------------------------------------
(***************************************************************************)
(* Redis and the process.                                                  *)
(***************************************************************************)
SessionExpires(i) ==
  /\ up /\ redis[i] # Absent
  /\ redis' = [redis EXCEPT ![i] = Absent]
  /\ disturbed' = disturbed \cup Of(i)
  /\ UNCHANGED <<up, list, process, call, outages, mixed, unlisted, gone>>

ListExpires ==
  /\ up /\ list # {}
  /\ list' = {}
  /\ unlisted' = unlisted \cup list
  /\ UNCHANGED <<up, redis, process, call, outages, disturbed, mixed, gone>>

RedisGoes ==
  /\ up /\ outages < MaxOutages
  /\ up' = FALSE /\ outages' = outages + 1
  /\ UNCHANGED <<store, process, call, history>>

RedisComes ==
  /\ ~up /\ up' = TRUE
  /\ UNCHANGED <<store, process, call, outages, history>>

Ended == {"done", "failed", "missing", "lost"}

Restart ==
  /\ outages < MaxOutages /\ outages' = outages + 1
  /\ client' = FALSE /\ memory' = [i \in Ids |-> Absent] /\ loop' = Absent
  /\ pc' = [r \in Requests |-> IF pc[r] \in Ended \cup {"idle"} THEN pc[r] ELSE "lost"]
  /\ disturbed' = disturbed \cup Come
  /\ UNCHANGED <<up, store, id, role, messages, mixed, unlisted, gone>>

-----------------------------------------------------------------------------
Chat(c) ==
  \/ Send(c) \/ GetSession(c) \/ CreateSession(c) \/ Push(c) \/ AddMessage(c)
  \/ UpdateSession(c) \/ WriteSession(c) \/ Answer(c) \/ HarnessRaises(c)

Deletion(d) == StartDeletion(d) \/ DeleteSession(d) \/ Unlist(d)

Clear(r) == StartClear(r) \/ Keys(r) \/ Wipe(r)

Next ==
  \/ \E c \in Chats : Chat(c)
  \/ \E d \in Deletions : Deletion(d)
  \/ \E r \in Clears : Clear(r)
  \/ \E r \in Requests : CommandFails(r)
  \/ \E i \in Ids : SessionExpires(i)
  \/ ListExpires \/ RedisGoes \/ RedisComes \/ Restart

Spec == Init /\ [][Next]_vars

-----------------------------------------------------------------------------
(***************************************************************************)
(* Properties.                                                             *)
(***************************************************************************)
Running == {"find", "create", "push", "add", "update", "write",
            "delete", "unlist", "keys", "wipe"}

\* The event loop runs the one request that is between two awaits, and every
\* session is a sequence of messages of chats, in both stores.
TypeOK ==
  /\ up \in BOOLEAN /\ client \in BOOLEAN
  /\ redis \in [Ids -> Seq(Messages) \cup {Absent}]
  /\ memory \in [Ids -> Seq(Messages) \cup {Absent}]
  /\ list \subseteq Ids
  /\ loop \in Requests \cup {Absent}
  /\ pc \in [Requests -> {"idle", "harness"} \cup Running \cup Ended]
  /\ \A r \in Requests : pc[r] \in Running <=> loop = r
  /\ id \in [Requests -> Ids \cup {Absent}]
  /\ role \in [Chats -> {"user", "assistant"}]
  /\ messages \in [Chats -> Seq(Messages)]
  /\ outages \in 0..MaxOutages
  /\ disturbed \subseteq Chats /\ mixed \subseteq Chats /\ unlisted \subseteq Ids
  /\ gone \in [Deletions -> {"no", "redis", "memory"}]

Visible == IF client THEN redis ELSE memory

\* When a chat has been answered and its session neither expired, was deleted nor
\* changed stores since it came, the session holds its question and, later, its
\* answer: no chat or deletion that ran while the harness did has lost either.
AnswerIsKept ==
  \A c \in Chats \ disturbed : pc[c] = "done" =>
    LET session == Visible[id[c]]
    IN /\ session # Absent
       /\ \E i, j \in DOMAIN session :
            i < j /\ session[i] = <<c, "user">> /\ session[j] = <<c, "assistant">>

\* what a step may do to a session
Kept(before, after) ==
  \/ after = before \/ after = Absent
  \/ before = Absent /\ after = <<>>
  \/ before # Absent /\ \E m \in Messages : after = Append(before, m)

\* an exception is a key that expires between update_session's get and its setex, another
\* a chat that reaches Redis in the midst of an operation
Appends(i) ==
  \/ Kept(redis[i], redis'[i]) /\ Kept(memory[i], memory'[i])
  \/ loop \in mixed'
  \/ redis[i] = Absent /\ pc[loop] = "write"

\* Messages are only ever appended, one at a time, to a session that is there, and a
\* session begins empty, but for the two exceptions above (add_message, update_session).
OnlyAppends == [][\A i \in Ids : Appends(i)]_vars

\* A session that was deleted is not there again before a chat creates it anew: not by
\* the answer of a chat whose harness ran while it was deleted, not by a list that
\* still names it.
DeletedStaysDeleted ==
  \A d \in Deletions :
    /\ gone[d] = "redis" => redis[id[d]] = Absent /\ id[d] \notin list
    /\ gone[d] = "memory" => memory[id[d]] = Absent

\* A session in Redis can be found by list_sessions, unless its creation stopped before
\* the list, or the list, which only a creation renews, expired before it.
SessionsAreListed ==
  \A i \in Ids : redis[i] # Absent => i \in list \cup unlisted

=============================================================================
