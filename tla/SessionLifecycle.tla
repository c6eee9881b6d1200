-------------------------- MODULE SessionLifecycle --------------------------
(***************************************************************************)
(* The life of a chat session in apps/cruse/backend: SessionManager and    *)
(* CruseSession (session_manager.py), SessionTimeoutManager                *)
(* (session_store.py) and the endpoints of main.py that drive them.        *)
(*                                                                         *)
(* The endpoints, the WebSocket loop and the cleanup loop are coroutines   *)
(* of one event loop: what they do between two awaits is one step.  The    *)
(* eager initialization of a session and every CruseSession.chat run in    *)
(* threads of their own and meet the event loop, and each other, at the    *)
(* fields of CruseSession and at its _init_lock.                           *)
(*                                                                         *)
(* A thread is named by what started it: the eager-init thread of session  *)
(* s by s, the chat thread of connection k by k (a connection awaits one   *)
(* chat before it reads the next message).                                 *)
(***************************************************************************)
EXTENDS Naturals, FiniteSets

CONSTANTS Sessions,     \* the ids uuid4 gives, each to one session
          Sockets,      \* WebSocket connections, each made once
          NoThread,     \* _init_lock is free
          NoSession,    \* a connection not made yet
          Untracked,    \* no entry in _last_activity
          Timeout,      \* ticks of inactivity a session survives
          MaxMessages   \* bound: messages read from one connection

ASSUME ThreadsAssumption == /\ Sessions \cap Sockets = {}
                            /\ NoThread \notin Sessions \cup Sockets
                            /\ NoSession \notin Sessions
                            /\ Untracked \notin Nat
ASSUME BoundsAssumption  == Timeout \in Nat /\ MaxMessages \in Nat

VARIABLES
    up,            \* the event loop runs
    created,       \* ids handed out by create_session
    sessions,      \* SessionManager._sessions
    lastActivity,  \* SessionTimeoutManager._last_activity, as the ticks since
    initialized,   \* CruseSession._initialized
    initError,     \* CruseSession._init_error is set
    initLock,      \* the thread that holds CruseSession._init_lock
    made,          \* agent sessions created for s; self.session is set iff > 0
    torn,          \* tear_down calls on the agent session of s
    messageCount,  \* CruseSession.message_count
    pc,            \* where each thread is
    conn,          \* the state of each WebSocket connection
    sock,          \* the CruseSession the connection's handler holds
    received       \* messages read from each connection

fields == <<initialized, initError, initLock, made, torn, messageCount>>
vars   == <<up, created, sessions, lastActivity, fields, pc, conn, sock, received>>

Threads == Sessions \cup Sockets

\* An entry counts ticks up to Timeout + 1, the first value that has expired.
Idle == 0 .. (Timeout + 1)

\* The CruseSession a thread works on.
Target(t) == IF t \in Sessions THEN t ELSE sock[t]

TypeOK ==
    /\ up \in BOOLEAN
    /\ created \in SUBSET Sessions
    /\ sessions \in SUBSET created
    /\ lastActivity \in [Sessions -> Idle \cup {Untracked}]
    /\ initialized \in [Sessions -> BOOLEAN]
    /\ initError \in [Sessions -> BOOLEAN]
    /\ initLock \in [Sessions -> Threads \cup {NoThread}]
    /\ made \in [Sessions -> Nat]
    /\ torn \in [Sessions -> Nat]
    /\ messageCount \in [Sessions -> Nat]
    /\ pc \in [Threads -> {"idle", "admit", "check", "lock", "build", "publish", "run"}]
    /\ conn \in [Sockets -> {"new", "open", "closed"}]
    /\ sock \in [Sockets -> Sessions \cup {NoSession}]
    /\ received \in [Sockets -> Nat]

Init ==
    /\ up = TRUE
    /\ created = {}
    /\ sessions = {}
    /\ lastActivity = [s \in Sessions |-> Untracked]
    /\ initialized = [s \in Sessions |-> FALSE]
    /\ initError = [s \in Sessions |-> FALSE]
    /\ initLock = [s \in Sessions |-> NoThread]
    /\ made = [s \in Sessions |-> 0]
    /\ torn = [s \in Sessions |-> 0]
    /\ messageCount = [s \in Sessions |-> 0]
    /\ pc = [t \in Threads |-> "idle"]
    /\ conn = [k \in Sockets |-> "new"]
    /\ sock = [k \in Sockets |-> NoSession]
    /\ received = [k \in Sockets |-> 0]

-----------------------------------------------------------------------------
(* The endpoints, on the event loop.                                       *)

\* Mutant of Create: the endpoint forgets to touch the new session.
CreateUntouched(s) ==
    /\ up
    /\ s \notin created
    /\ created' = created \cup {s}
    /\ sessions' = sessions \cup {s}
    /\ pc' = [pc EXCEPT ![s] = "lock"]
    /\ UNCHANGED <<up, lastActivity, fields, conn, sock, received>>

\* POST /api/session: register the session, start its eager-init thread, touch.
Create(s) ==
    /\ up
    /\ s \notin created
    /\ created' = created \cup {s}
    /\ sessions' = sessions \cup {s}
    /\ lastActivity' = [lastActivity EXCEPT ![s] = 0]
    /\ pc' = [pc EXCEPT ![s] = "lock"]
    /\ UNCHANGED <<up, fields, conn, sock, received>>

\* CruseSession.close on every session of S: it tears down what self.session
\* holds now, and does not take _init_lock.
Close(S) ==
    torn' = [s \in Sessions |-> IF s \in S /\ made[s] > 0 THEN torn[s] + 1 ELSE torn[s]]

\* Mutant of DestroyAll: the popped value is not checked for None.
DestroyUnchecked(S) ==
    /\ sessions' = sessions \ S
    /\ Close(S)

\* destroy_session: pop the entry, close what was popped.  A second call finds
\* nothing to pop.
DestroyAll(S) ==
    /\ sessions' = sessions \ S
    /\ Close(S \cap sessions)

\* DELETE /api/session/{id}, by its owner or an admin, and the admin endpoint.
Destroy(s) ==
    /\ up
    /\ s \in sessions
    /\ DestroyAll({s})
    /\ lastActivity' = [lastActivity EXCEPT ![s] = Untracked]
    /\ UNCHANGED <<up, created, initialized, initError, initLock, made, messageCount,
                   pc, conn, sock, received>>

\* Time passes for every tracked session.
Tick ==
    /\ up
    /\ \E s \in Sessions : lastActivity[s] \in 0 .. Timeout
    /\ lastActivity' = [s \in Sessions |-> IF lastActivity[s] \in 0 .. Timeout
                                           THEN lastActivity[s] + 1
                                           ELSE lastActivity[s]]
    /\ UNCHANGED <<up, created, sessions, fields, pc, conn, sock, received>>

Expired == {s \in Sessions : lastActivity[s] = Timeout + 1}

\* Mutant of Sweep: only sessions whose agent is up are worth destroying.
SweepInitialized ==
    /\ up
    /\ Expired # {}
    /\ DestroyAll({s \in Expired : initialized[s]})
    /\ lastActivity' = [s \in Sessions |-> IF s \in Expired THEN Untracked
                                                           ELSE lastActivity[s]]
    /\ UNCHANGED <<up, created, initialized, initError, initLock, made, messageCount,
                   pc, conn, sock, received>>

\* Mutant of Sweep: the entry goes only if there was a session to destroy.
SweepRegistered ==
    /\ up
    /\ Expired # {}
    /\ DestroyAll(Expired)
    /\ lastActivity' = [s \in Sessions |-> IF s \in Expired \cap sessions
                                           THEN Untracked ELSE lastActivity[s]]
    /\ UNCHANGED <<up, created, initialized, initError, initLock, made, messageCount,
                   pc, conn, sock, received>>

\* One round of _cleanup_loop: no await between the scan and the last pop.  An
\* entry may belong to a session destroyed before; then only the entry goes.
Sweep ==
    /\ up
    /\ Expired # {}
    /\ DestroyAll(Expired)
    /\ lastActivity' = [s \in Sessions |-> IF s \in Expired THEN Untracked
                                                           ELSE lastActivity[s]]
    /\ UNCHANGED <<up, created, initialized, initError, initLock, made, messageCount,
                   pc, conn, sock, received>>

-----------------------------------------------------------------------------
(* The WebSocket handler, on the event loop.                               *)

\* websocket_chat up to accept(): the handler keeps the session object, which
\* outlives the registry's entry.
Connect(k, s) ==
    /\ up
    /\ conn[k] = "new"
    /\ s \in sessions
    /\ conn' = [conn EXCEPT ![k] = "open"]
    /\ sock' = [sock EXCEPT ![k] = s]
    /\ UNCHANGED <<up, created, sessions, lastActivity, fields, pc, received>>

\* receive_json and touch: the entry is written whether or not the session is
\* still registered.
Receive(k) ==
    /\ up
    /\ conn[k] = "open"
    /\ pc[k] = "idle"
    /\ received[k] < MaxMessages
    /\ received' = [received EXCEPT ![k] = @ + 1]
    /\ lastActivity' = [lastActivity EXCEPT ![sock[k]] = 0]
    /\ pc' = [pc EXCEPT ![k] = "admit"]
    /\ UNCHANGED <<up, created, sessions, fields, conn, sock>>

\* The message goes no further: the rate limiter refuses it (RATE_LIMIT, DONE,
\* next message), or a send finds that the client is gone and ends the handler.
Refuse(k) ==
    /\ pc[k] = "admit"
    /\ pc' = [pc EXCEPT ![k] = "idle"]
    /\ UNCHANGED <<up, created, sessions, lastActivity, fields, conn, sock, received>>

\* process_chat_message hands CruseSession.chat to a worker thread.
Dispatch(k) ==
    /\ up
    /\ pc[k] = "admit"
    /\ conn[k] = "open"
    /\ pc' = [pc EXCEPT ![k] = "check"]
    /\ UNCHANGED <<up, created, sessions, lastActivity, fields, conn, sock, received>>

\* The client goes away.  A chat already dispatched is not cancelled: its
\* thread runs on with nobody to read the answer.
Disconnect(k) ==
    /\ up
    /\ conn[k] = "open"
    /\ conn' = [conn EXCEPT ![k] = "closed"]
    /\ UNCHANGED <<up, created, sessions, lastActivity, fields, pc, sock, received>>

\* The server stops: its connections are closed, the cleanup loop is cancelled,
\* every registered session is destroyed.  The threads are left to themselves.
Shutdown ==
    /\ up
    /\ up' = FALSE
    /\ conn' = [k \in Sockets |-> IF conn[k] = "open" THEN "closed" ELSE conn[k]]
    /\ DestroyAll(sessions)
    /\ UNCHANGED <<created, lastActivity, initialized, initError, initLock, made,
                   messageCount, pc, sock, received>>

-----------------------------------------------------------------------------
(* The threads: _do_init, _ensure_initialized and chat.                    *)

\* Mutant of FastPath: a settled initialization is taken for a successful one.
FastPathSettled(k) ==
    /\ pc[k] = "check"
    /\ pc' = [pc EXCEPT ![k] = IF initialized[sock[k]] \/ initError[sock[k]]
                              THEN "run" ELSE "lock"]
    /\ UNCHANGED <<up, created, sessions, lastActivity, fields, conn, sock, received>>

\* _ensure_initialized reads _initialized before it asks for the lock.
FastPath(k) ==
    /\ pc[k] = "check"
    /\ pc' = [pc EXCEPT ![k] = IF initialized[sock[k]] THEN "run" ELSE "lock"]
    /\ UNCHANGED <<up, created, sessions, lastActivity, fields, conn, sock, received>>

\* Under the lock the thread finds the session initialized: _do_init is done,
\* chat goes on.  The lock is taken and released in one step.
FindReady(t) ==
    /\ pc[t] = "lock"
    /\ initLock[Target(t)] = NoThread
    /\ initialized[Target(t)]
    /\ pc' = [pc EXCEPT ![t] = IF t \in Sessions THEN "idle" ELSE "run"]
    /\ UNCHANGED <<up, created, sessions, lastActivity, fields, conn, sock, received>>

\* Under the lock a chat finds that the eager initialization failed: it raises.
\* _do_init does not look at _init_error.
FindBroken(k) ==
    /\ pc[k] = "lock"
    /\ initLock[sock[k]] = NoThread
    /\ ~initialized[sock[k]]
    /\ initError[sock[k]]
    /\ pc' = [pc EXCEPT ![k] = "idle"]
    /\ UNCHANGED <<up, created, sessions, lastActivity, fields, conn, sock, received>>

\* Mutant of StartBuild: no second look at _initialized under the lock.
StartBuildUnchecked(t) ==
    /\ pc[t] = "lock"
    /\ initLock[Target(t)] = NoThread
    /\ t \in Sockets => ~initError[Target(t)]
    /\ initLock' = [initLock EXCEPT ![Target(t)] = t]
    /\ pc' = [pc EXCEPT ![t] = "build"]
    /\ UNCHANGED <<up, created, sessions, lastActivity, initialized, initError, made, torn,
                   messageCount, conn, sock, received>>

\* Mutant of StartBuild: _initialized is set before the agent session exists.
StartBuildAnnounced(t) ==
    /\ pc[t] = "lock"
    /\ initLock[Target(t)] = NoThread
    /\ ~initialized[Target(t)]
    /\ t \in Sockets => ~initError[Target(t)]
    /\ initLock' = [initLock EXCEPT ![Target(t)] = t]
    /\ initialized' = [initialized EXCEPT ![Target(t)] = TRUE]
    /\ pc' = [pc EXCEPT ![t] = "build"]
    /\ UNCHANGED <<up, created, sessions, lastActivity, initError, made, torn,
                   messageCount, conn, sock, received>>

\* Mutant of StartBuild: the fallback does not look at _init_error.
StartBuildRetry(t) ==
    /\ pc[t] = "lock"
    /\ initLock[Target(t)] = NoThread
    /\ ~initialized[Target(t)]
    /\ initLock' = [initLock EXCEPT ![Target(t)] = t]
    /\ pc' = [pc EXCEPT ![t] = "build"]
    /\ UNCHANGED <<up, created, sessions, lastActivity, initialized, initError, made, torn,
                   messageCount, conn, sock, received>>

\* Under the lock the thread finds nothing and begins _create_cruse_session.
StartBuild(t) ==
    /\ pc[t] = "lock"
    /\ initLock[Target(t)] = NoThread
    /\ ~initialized[Target(t)]
    /\ t \in Sockets => ~initError[Target(t)]
    /\ initLock' = [initLock EXCEPT ![Target(t)] = t]
    /\ pc' = [pc EXCEPT ![t] = "build"]
    /\ UNCHANGED <<up, created, sessions, lastActivity, initialized, initError, made, torn,
                   messageCount, conn, sock, received>>

\* _create_cruse_session returns: self.session and self.state_info are assigned.
Build(t) ==
    /\ pc[t] = "build"
    /\ made' = [made EXCEPT ![Target(t)] = @ + 1]
    /\ pc' = [pc EXCEPT ![t] = "publish"]
    /\ UNCHANGED <<up, created, sessions, lastActivity, initialized, initError, initLock, torn,
                   messageCount, conn, sock, received>>

\* Mutant of BuildFails: the lock is not released on the error path.
BuildFailsLocked(t) ==
    /\ pc[t] = "build"
    /\ initError' = [initError EXCEPT ![Target(t)] = IF t \in Sessions THEN TRUE ELSE @]
    /\ pc' = [pc EXCEPT ![t] = "idle"]
    /\ UNCHANGED <<up, created, sessions, lastActivity, initialized, initLock, made, torn,
                   messageCount, conn, sock, received>>

\* It raises.  _do_init remembers the error; the fallback in a chat does not,
\* and the chat fails.  Either way the lock is released.
BuildFails(t) ==
    /\ pc[t] = "build"
    /\ initError' = [initError EXCEPT ![Target(t)] = IF t \in Sessions THEN TRUE ELSE @]
    /\ initLock' = [initLock EXCEPT ![Target(t)] = NoThread]
    /\ pc' = [pc EXCEPT ![t] = "idle"]
    /\ UNCHANGED <<up, created, sessions, lastActivity, initialized, made, torn, messageCount,
                   conn, sock, received>>

\* _initialized is set after the session it announces, and the lock released.
Publish(t) ==
    /\ pc[t] = "publish"
    /\ initialized' = [initialized EXCEPT ![Target(t)] = TRUE]
    /\ initLock' = [initLock EXCEPT ![Target(t)] = NoThread]
    /\ pc' = [pc EXCEPT ![t] = IF t \in Sessions THEN "idle" ELSE "run"]
    /\ UNCHANGED <<up, created, sessions, lastActivity, initError, made, torn, messageCount,
                   conn, sock, received>>

\* _cruse_chat returns; message_count is incremented; the handler, if it is
\* still there, reads the next message.
Answer(k) ==
    /\ pc[k] = "run"
    /\ messageCount' = [messageCount EXCEPT ![sock[k]] = @ + 1]
    /\ pc' = [pc EXCEPT ![k] = "idle"]
    /\ UNCHANGED <<up, created, sessions, lastActivity, initialized, initError, initLock, made,
                   torn, conn, sock, received>>

\* _cruse_chat raises: the message is not counted.
ChatFails(k) ==
    /\ pc[k] = "run"
    /\ pc' = [pc EXCEPT ![k] = "idle"]
    /\ UNCHANGED <<up, created, sessions, lastActivity, fields, conn, sock, received>>

-----------------------------------------------------------------------------
\* The steps of one thread once it is started.
InitStep(t) == FindReady(t) \/ StartBuild(t) \/ Build(t) \/ BuildFails(t) \/ Publish(t)
ChatStep(k) == FastPath(k) \/ FindBroken(k) \/ Answer(k) \/ ChatFails(k)

Next ==
    \/ \E s \in Sessions : Create(s) \/ Destroy(s)
    \/ Tick
    \/ Sweep
    \/ Shutdown
    \/ \E k \in Sockets : \E s \in Sessions : Connect(k, s)
    \/ \E k \in Sockets : Receive(k) \/ Refuse(k) \/ Dispatch(k) \/ Disconnect(k)
    \/ \E t \in Threads : InitStep(t)
    \/ \E k \in Sockets : ChatStep(k)

Spec == Init /\ [][Next]_vars

(***************************************************************************)
(* Threads are scheduled, so each goes on when it can; the lock is held    *)
(* for a bounded time because creating an agent session and a chat turn    *)
(* are assumed to return or raise (they are calls of the agent library).   *)
(* The cleanup loop wakes up every minute.  Clients owe nothing.           *)
(***************************************************************************)
Fairness ==
    /\ \A t \in Threads : WF_vars(InitStep(t))
    /\ \A k \in Sockets : WF_vars(ChatStep(k)) /\ WF_vars(Refuse(k) \/ Dispatch(k))
    /\ WF_vars(Tick)
    /\ WF_vars(Sweep)

FairSpec == Spec /\ Fairness

-----------------------------------------------------------------------------
(* Safety                                                                  *)

\* Eager init, the fallback in chat and the unlocked fast path never create two
\* agent sessions for one chat session: the second would be lost to close().
AtMostOneAgent == \A s \in Sessions : made[s] <= 1

\* _cruse_chat never runs on self.session = None: whichever way a chat got past
\* _ensure_initialized, the agent session was assigned before.
ChatHasAgent == \A k \in Sockets : pc[k] = "run" => made[sock[k]] = 1

\* An eager initialization that failed is final: no chat of that session ever
\* builds an agent behind its back or gets an answer.
FailedInitIsFinal ==
    \A s \in Sessions : initError[s] => /\ ~initialized[s]
                                        /\ made[s] = 0
                                        /\ messageCount[s] = 0

\* However user, admin, cleanup loop and shutdown race to destroy a session, its
\* agent session is torn down once at most, after it left the registry.
TornDownOnce ==
    \A s \in Sessions : /\ torn[s] <= made[s]
                        /\ torn[s] <= 1
                        /\ torn[s] = 1 => s \notin sessions

\* Every registered session has an activity entry: without one the cleanup loop
\* would never look at it again.
Reapable == \A s \in sessions : lastActivity[s] # Untracked

\* Liveness: a message that was read is disposed of, answered or not.
CallEnds == \A k \in Sockets : pc[k] # "idle" ~> pc[k] = "idle"

\* Liveness: an abandoned session leaves the registry, whatever became of its
\* initialization (clients send finitely many messages here).
IdleReaped == \A s \in Sessions : s \in sessions ~> s \notin sessions

\* Liveness: the entry that a late message writes for a session already
\* destroyed does not stay in _last_activity for ever.
DeadEntryDropped ==
    \A s \in Sessions : lastActivity[s] # Untracked ~> lastActivity[s] = Untracked \/ ~up

\* Both: whatever still arrives, a session is forgotten once nobody uses it.
RegistryDrains == IdleReaped /\ DeadEntryDropped

-----------------------------------------------------------------------------
(* The inductive invariant behind the safety properties.                   *)

\* A connection made to a session keeps it; a chat has a connection.
SockInv == \A k \in Sockets : /\ conn[k] # "new" => sock[k] \in created
                              /\ conn[k] = "new" => sock[k] = NoSession
                              /\ pc[k] # "idle" => conn[k] # "new"

\* Eager-init threads follow _do_init only, in sessions that were created.
EagerInv == \A s \in Sessions : /\ pc[s] \in {"idle", "lock", "build", "publish"}
                                /\ pc[s] # "idle" => s \in created

\* The lock's holder is the one thread inside _create_cruse_session.
LockInv == \A s \in Sessions : \A t \in Threads :
               initLock[s] = t <=> pc[t] \in {"build", "publish"} /\ Target(t) = s

\* self.session is set from the moment Build returns, and _initialized follows.
MadeInv == \A s \in Sessions :
               /\ made[s] <= 1
               /\ made[s] = 1 <=> \/ initialized[s]
                                  \/ /\ initLock[s] # NoThread
                                     /\ pc[initLock[s]] = "publish"
               /\ made[s] = 1 => s \in created
               /\ initialized[s] => initLock[s] = NoThread

\* Only the eager thread sets _init_error, as the last thing it does, and no
\* thread takes the lock to build after that.
ErrorInv == \A s \in Sessions : initError[s] => /\ ~initialized[s]
                                                /\ initLock[s] = NoThread
                                                /\ pc[s] = "idle"
                                                /\ s \in created

RunInv   == \A k \in Sockets : pc[k] = "run" => initialized[sock[k]]
CountInv == \A s \in Sessions : messageCount[s] > 0 => initialized[s]

SessionInv == /\ TypeOK /\ SockInv /\ EagerInv /\ LockInv /\ MadeInv
              /\ ErrorInv /\ RunInv /\ CountInv /\ TornDownOnce /\ Reapable

-----------------------------------------------------------------------------
(* Refinement: the session of AgentService.                                *)

agentState ==
    [s \in Sessions |-> IF made[s] = 0 THEN IF initError[s] THEN "broken" ELSE "none"
                       ELSE IF torn[s] = 0 THEN "up" ELSE "down"]

callState ==
    [k \in Sockets |->
        IF pc[k] \in {"idle", "admit"} THEN [at |-> "idle"]
        ELSE [at |-> IF pc[k] = "run" THEN "running" ELSE "waiting", on |-> sock[k]]]

Service == INSTANCE AgentService WITH Calls <- Sockets, agent <- agentState, call <- callState

\* Threads, lock, cleanup loop and endpoints together behave as AgentService.
ImplementsService == Service!SSpec

-----------------------------------------------------------------------------
(* What the comments of the code claim and the code does not do.           *)

\* "Destroy a session and clean up resources" (session_manager.py:373): once a
\* session is destroyed and none of its threads is left, its agent is torn down.
\* A destroy that comes before the eager init is over finds self.session None.
Settled(s) == /\ s \in created \ sessions
              /\ pc[s] = "idle"
              /\ \A k \in Sockets : sock[k] = s => pc[k] = "idle" /\ conn[k] = "closed"
NoAgentLeak == \A s \in Sessions : Settled(s) => torn[s] = made[s]

\* The cleanup loop destroys sessions "that have been idle too long"
\* (session_store.py:28): never one in the middle of a chat.
SweepsIdleOnly == [][Sweep => \A k \in Sockets : sock[k] \in Expired \cap sessions
                                                   => pc[k] # "run"]_vars
=============================================================================
