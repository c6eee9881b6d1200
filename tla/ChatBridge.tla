----------------------------- MODULE ChatBridge -----------------------------
(***************************************************************************)
(* The WebSocket loop of apps/cruse/backend/main.py (websocket_chat) and   *)
(* the bridge of streaming_bridge.py that runs one chat in a worker thread *)
(* and streams what happens, for the connections of one chat session.      *)
(*                                                                         *)
(* Every await is a point where the other connections, the chat threads    *)
(* and the clients go on: there is one step from one await to the next.    *)
(* The n-th message of connection k is <<k, n>>.  Trace entries are known  *)
(* by the message whose chat produced them.                                *)
(***************************************************************************)
EXTENDS Naturals

CONSTANTS Sockets,      \* connections to the session
          MaxMessages,  \* bound: messages read from one connection
          NoTitle       \* the conversation has no title yet

ASSUME BridgeAssumption == MaxMessages \in Nat

VARIABLES
    conn,        \* "open"; "gone": the client left; "closed": a send noticed it
    pc,          \* where the connection's handler is
    received,    \* messages read from the connection
    cycle,       \* outcomes the client was told since its last message
    dones,       \* DONE events the client got
    chat,        \* the worker thread of the current message
    trace,       \* trace_entries of process_chat_message
    traceQ,      \* the session's DebugMessageProcessor queue
    messageCount,  \* CruseSession.message_count
    wantsTitle,  \* the handler saw message_count = 0 when it saved the message
    title,       \* the message the conversation's title is taken from
    saved,       \* user messages in the database
    answers,     \* messages with an assistant message in the database
    requestLog,  \* rows of the request log
    drained,     \* history: messages whose final drain is over
    before       \* history: what was counted and drained when the current
                 \* message of a connection was read

wire == <<conn, cycle, dones>>
db   == <<title, saved, answers, requestLog>>
vars == <<wire, pc, received, chat, trace, traceQ, messageCount, wantsTitle, db, drained, before>>

Msgs       == Sockets \X (1 .. MaxMessages)
current(k) == <<k, received[k]>>

HandlerStates == {"recv", "admit", "save", "title", "start", "poll", "drain",
                  "noreply", "persist", "emit", "widget", "error", "logerror", "done", "end"}

\* The events that tell the client what became of its message.
Outcomes == {"chat_complete", "error"}

TypeOK ==
    /\ conn \in [Sockets -> {"open", "gone", "closed"}]
    /\ pc \in [Sockets -> HandlerStates]
    /\ received \in [Sockets -> 0 .. MaxMessages]
    /\ cycle \in [Sockets -> SUBSET Outcomes]
    /\ dones \in [Sockets -> Nat]
    /\ chat \in [Sockets -> {"none", "running", "answered", "empty", "raised"}]
    /\ trace \in [Sockets -> SUBSET Msgs]
    /\ traceQ \in SUBSET Msgs
    /\ messageCount \in Nat
    /\ wantsTitle \in [Sockets -> BOOLEAN]
    /\ title \in Msgs \cup {NoTitle}
    /\ saved \in SUBSET Msgs
    /\ answers \in SUBSET Msgs
    /\ requestLog \in SUBSET [msg : Msgs, isError : BOOLEAN]
    /\ drained \in SUBSET Msgs
    /\ before \in [Sockets -> [count : Nat, drained : SUBSET Msgs]]

Init ==
    /\ conn = [k \in Sockets |-> "open"]
    /\ pc = [k \in Sockets |-> "recv"]
    /\ received = [k \in Sockets |-> 0]
    /\ cycle = [k \in Sockets |-> {}]
    /\ dones = [k \in Sockets |-> 0]
    /\ chat = [k \in Sockets |-> "none"]
    /\ trace = [k \in Sockets |-> {}]
    /\ traceQ = {}
    /\ messageCount = 0
    /\ wantsTitle = [k \in Sockets |-> FALSE]
    /\ title = NoTitle
    /\ saved = {} /\ answers = {} /\ requestLog = {}
    /\ drained = {}
    /\ before = [k \in Sockets |-> [count |-> 0, drained |-> {}]]

-----------------------------------------------------------------------------
(* send_event: the client gets the event; or it has left and the event is  *)
(* lost without a sign; or the send raises, and so does every later one.   *)

Sends(k, kind) ==
    /\ conn[k] \in {"open", "gone"}
    /\ cycle' = [cycle EXCEPT ![k] = IF conn[k] = "open" THEN @ \cup ({kind} \cap Outcomes)
                                                       ELSE @]
    /\ UNCHANGED <<conn, dones>>

SendRaises(k) ==
    /\ conn[k] \in {"gone", "closed"}
    /\ conn' = [conn EXCEPT ![k] = "closed"]
    /\ UNCHANGED <<cycle, dones>>

goto(k, label) == pc' = [pc EXCEPT ![k] = label]

\* Sends an event and goes on; if the send raises, goes where it is caught.
SendThen(k, kind, next, caught) ==
    \/ Sends(k, kind) /\ goto(k, next)
    \/ SendRaises(k) /\ goto(k, caught)

\* The handler is over: websocket_chat tells the client "Connection error", best
\* effort, and the server closes the connection.
EndHandler(k) ==
    /\ goto(k, "end")
    /\ conn' = [conn EXCEPT ![k] = "closed"]
    /\ \/ conn[k] = "open" /\ cycle' = [cycle EXCEPT ![k] = @ \cup {"error"}]
       \/ conn[k] # "open" /\ UNCHANGED cycle
    /\ UNCHANGED dones

\* The client closes the page, or the network drops it.
Disconnect(k) ==
    /\ conn[k] = "open"
    /\ conn' = [conn EXCEPT ![k] = "gone"]
    /\ UNCHANGED <<pc, received, cycle, dones, chat, trace, traceQ, messageCount, wantsTitle, db,
                   drained, before>>

-----------------------------------------------------------------------------
(* websocket_chat                                                          *)

\* The message may be one the client sent just before it left.
Receive(k) ==
    /\ pc[k] = "recv"
    /\ conn[k] # "closed"
    /\ received[k] < MaxMessages
    /\ received' = [received EXCEPT ![k] = @ + 1]
    /\ cycle' = [cycle EXCEPT ![k] = {}]
    /\ chat' = [chat EXCEPT ![k] = "none"]
    /\ before' = [before EXCEPT ![k] = [count |-> messageCount, drained |-> drained]]
    /\ goto(k, "admit")
    /\ UNCHANGED <<conn, dones, trace, traceQ, messageCount, wantsTitle, db, drained>>

\* receive_json raises: the client left, or sent what is not a ChatMessage.
ReceiveRaises(k) ==
    /\ pc[k] = "recv"
    /\ EndHandler(k)
    /\ UNCHANGED <<received, chat, trace, traceQ, messageCount, wantsTitle, db, drained, before>>

\* The transaction around the rate limiter raises.  Nothing around it catches.
AdmitRaises(k) ==
    /\ pc[k] = "admit"
    /\ EndHandler(k)
    /\ UNCHANGED <<received, chat, trace, traceQ, messageCount, wantsTitle, db, drained, before>>

\* Mutant of Refuse: the handler goes on after RATE_LIMIT and DONE.
RefuseFallsThrough(k) ==
    /\ pc[k] = "admit"
    /\ \/ /\ conn[k] \in {"open", "gone"}
          /\ dones' = [dones EXCEPT ![k] = IF conn[k] = "open" THEN @ + 1 ELSE @]
          /\ goto(k, "save")
          /\ UNCHANGED <<conn, cycle>>
       \/ SendRaises(k) /\ goto(k, "end")
    /\ UNCHANGED <<received, chat, trace, traceQ, messageCount, wantsTitle, db, drained, before>>

\* Not allowed: RATE_LIMIT, then DONE.
Refuse(k) ==
    /\ pc[k] = "admit"
    /\ SendThen(k, "rate_limit", "done", "end")
    /\ UNCHANGED <<received, chat, trace, traceQ, messageCount, wantsTitle, db, drained, before>>

\* Allowed; a user with a quota is told what remains of it.
Admit(k) ==
    /\ pc[k] = "admit"
    /\ \/ SendThen(k, "rate_limit", "save", "end")
       \/ goto(k, "save") /\ UNCHANGED wire
    /\ UNCHANGED <<received, chat, trace, traceQ, messageCount, wantsTitle, db, drained, before>>

\* Mutant of SaveUser: every message retitles the conversation.
SaveUserRetitles(k) ==
    /\ pc[k] = "save"
    /\ wantsTitle' = [wantsTitle EXCEPT ![k] = TRUE]
    /\ goto(k, "title")
    /\ UNCHANGED <<wire, received, chat, trace, traceQ, messageCount, db, drained, before>>

\* The user message is appended, then message_count decides about the title.
SaveUser(k) ==
    /\ pc[k] = "save"
    /\ wantsTitle' = [wantsTitle EXCEPT ![k] = messageCount = 0]
    /\ goto(k, "title")
    /\ UNCHANGED <<wire, received, chat, trace, traceQ, messageCount, db, drained, before>>

\* Message and title are committed together, or the error is logged and ignored.
CommitUser(k) ==
    /\ pc[k] = "title"
    /\ \/ /\ saved' = saved \cup {current(k)}
          /\ title' = IF wantsTitle[k] THEN current(k) ELSE title
       \/ UNCHANGED <<saved, title>>
    /\ wantsTitle' = [wantsTitle EXCEPT ![k] = FALSE]
    /\ goto(k, "start")
    /\ UNCHANGED <<wire, received, chat, trace, traceQ, messageCount, answers, requestLog,
                   drained, before>>

-----------------------------------------------------------------------------
(* process_chat_message                                                    *)

\* The first send is outside the try.  After it the chat goes to its thread.
Start(k) ==
    /\ pc[k] = "start"
    /\ \/ /\ Sends(k, "agent_activity")
          /\ chat' = [chat EXCEPT ![k] = "running"]
          /\ goto(k, "poll")
       \/ SendRaises(k) /\ goto(k, "end") /\ UNCHANGED chat
    /\ UNCHANGED <<received, trace, traceQ, messageCount, wantsTitle, db, drained, before>>

\* _drain_debug_events: the queue is emptied before the first send.
TakeTraces(k) ==
    /\ trace' = [trace EXCEPT ![k] = @ \cup traceQ]
    /\ traceQ' = {}

Poll(k) ==
    /\ pc[k] = "poll"
    /\ chat[k] = "running"
    /\ TakeTraces(k)
    /\ SendThen(k, "agent_activity", "poll", "error")
    /\ UNCHANGED <<received, chat, messageCount, wantsTitle, db, drained, before>>

\* Mutant of PollEnds: the loop waits for an answer, not for the end of the task.
PollAwaitsAnswer(k) ==
    /\ pc[k] = "poll"
    /\ chat[k] \in {"answered", "empty"}
    /\ goto(k, "drain")
    /\ UNCHANGED <<wire, received, chat, trace, traceQ, messageCount, wantsTitle, db, drained,
                   before>>

\* chat_task is done: result() raises what the chat raised.
PollEnds(k) ==
    /\ pc[k] = "poll"
    /\ chat[k] # "running"
    /\ goto(k, IF chat[k] = "raised" THEN "error" ELSE "drain")
    /\ UNCHANGED <<wire, received, chat, trace, traceQ, messageCount, wantsTitle, db, drained,
                   before>>

\* Mutant of FinalDrain: what the agents said since the last poll stays behind.
FinalDrainSkipped(k) ==
    /\ pc[k] = "drain"
    /\ drained' = drained \cup {current(k)}
    /\ goto(k, IF chat[k] = "empty" THEN "noreply" ELSE "persist")
    /\ UNCHANGED <<wire, received, chat, trace, traceQ, messageCount, wantsTitle, db, before>>

\* The drain sends only what it finds: nothing is sent if the queue is empty.
FinalDrain(k) ==
    /\ pc[k] = "drain"
    /\ TakeTraces(k)
    /\ drained' = drained \cup {current(k)}
    /\ LET next == IF chat[k] = "empty" THEN "noreply" ELSE "persist" IN
       \/ goto(k, next) /\ UNCHANGED wire
       \/ traceQ # {} /\ SendRaises(k) /\ goto(k, "error")
    /\ UNCHANGED <<received, chat, messageCount, wantsTitle, db, before>>

\* No response: ERROR and DONE, and the call returns before the second DONE.
NoReply(k) ==
    /\ pc[k] = "noreply"
    /\ SendThen(k, "error", "done", "error")
    /\ UNCHANGED <<received, chat, trace, traceQ, messageCount, wantsTitle, db, drained, before>>

\* _persist_response: message and log row in one transaction, best effort.
Persist(k) ==
    /\ pc[k] = "persist"
    /\ \/ /\ answers' = answers \cup {current(k)}
          /\ requestLog' = requestLog \cup {[msg |-> current(k), isError |-> FALSE]}
       \/ UNCHANGED <<answers, requestLog>>
    /\ goto(k, "emit")
    /\ UNCHANGED <<wire, received, chat, trace, traceQ, messageCount, wantsTitle, title, saved,
                   drained, before>>

\* Mutant of Emit: a malformed gui block raises after the say blocks are sent.
EmitParsesLate(k) ==
    /\ pc[k] = "emit"
    /\ \E next \in {"widget", "done", "error"} : SendThen(k, "chat_complete", next, "error")
    /\ UNCHANGED <<received, chat, trace, traceQ, messageCount, wantsTitle, db, drained, before>>

\* The say blocks of the response, and the gui blocks if it has any.
Emit(k) ==
    /\ pc[k] = "emit"
    /\ \/ SendThen(k, "chat_complete", "widget", "error")
       \/ SendThen(k, "chat_complete", "done", "error")
    /\ UNCHANGED <<received, chat, trace, traceQ, messageCount, wantsTitle, db, drained, before>>

EmitWidget(k) ==
    /\ pc[k] = "widget"
    /\ SendThen(k, "widget_schema", "done", "error")
    /\ UNCHANGED <<received, chat, trace, traceQ, messageCount, wantsTitle, db, drained, before>>

\* Mutant of ReportError: a send that raises does not keep the error from the log.
ReportErrorGuarded(k) ==
    /\ pc[k] = "error"
    /\ SendThen(k, "error", "logerror", "logerror")
    /\ UNCHANGED <<received, chat, trace, traceQ, messageCount, wantsTitle, db, drained, before>>

\* The except clause.  Its own send is not guarded: if the exception came from a
\* send, this one raises too and ends the handler.
ReportError(k) ==
    /\ pc[k] = "error"
    /\ SendThen(k, "error", "logerror", "end")
    /\ UNCHANGED <<received, chat, trace, traceQ, messageCount, wantsTitle, db, drained, before>>

\* _persist_error, best effort.
LogError(k) ==
    /\ pc[k] = "logerror"
    /\ \/ requestLog' = requestLog \cup {[msg |-> current(k), isError |-> TRUE]}
       \/ UNCHANGED requestLog
    /\ goto(k, "done")
    /\ UNCHANGED <<wire, received, chat, trace, traceQ, messageCount, wantsTitle, title, saved,
                   answers, drained, before>>

\* DONE, and back to receive_json; trace_entries was a local variable.
Done(k) ==
    /\ pc[k] = "done"
    /\ \/ /\ conn[k] \in {"open", "gone"}
          /\ dones' = [dones EXCEPT ![k] = IF conn[k] = "open" THEN @ + 1 ELSE @]
          /\ goto(k, "recv")
          /\ UNCHANGED <<conn, cycle>>
       \/ SendRaises(k) /\ goto(k, "end")
    /\ trace' = [trace EXCEPT ![k] = {}]
    /\ UNCHANGED <<received, chat, traceQ, messageCount, wantsTitle, db, drained, before>>

-----------------------------------------------------------------------------
(* The worker thread: CruseSession.chat.  It does not stop when its handler *)
(* does.                                                                    *)

\* An agent's message passes through DebugMessageProcessor.process_message.
AgentSpeaks(k) ==
    /\ chat[k] = "running"
    /\ traceQ' = traceQ \cup {current(k)}
    /\ UNCHANGED <<wire, pc, received, chat, trace, messageCount, wantsTitle, db, drained, before>>

\* chat counts the message whether or not the agent had anything to say.
ChatReturns(k) ==
    /\ chat[k] = "running"
    /\ \E answer \in {"answered", "empty"} : chat' = [chat EXCEPT ![k] = answer]
    /\ messageCount' = messageCount + 1
    /\ UNCHANGED <<wire, pc, received, trace, traceQ, wantsTitle, db, drained, before>>

ChatRaises(k) ==
    /\ chat[k] = "running"
    /\ chat' = [chat EXCEPT ![k] = "raised"]
    /\ UNCHANGED <<wire, pc, received, trace, traceQ, messageCount, wantsTitle, db, drained, before>>

-----------------------------------------------------------------------------
Handler(k) ==
    \/ AdmitRaises(k) \/ Refuse(k) \/ Admit(k) \/ SaveUser(k) \/ CommitUser(k)
    \/ Start(k) \/ PollEnds(k) \/ FinalDrain(k) \/ NoReply(k) \/ Persist(k)
    \/ Emit(k) \/ EmitWidget(k) \/ ReportError(k) \/ LogError(k) \/ Done(k)

Next == \E k \in Sockets :
    \/ Receive(k) \/ ReceiveRaises(k) \/ Disconnect(k)
    \/ Handler(k) \/ Poll(k)
    \/ AgentSpeaks(k) \/ ChatReturns(k) \/ ChatRaises(k)

Spec == Init /\ [][Next]_vars

\* The event loop serves every handler; a chat returns or raises in the end
\* (the agent library is assumed to do that).  Clients owe nothing.
Fairness == \A k \in Sockets : /\ WF_vars(Handler(k))
                               /\ WF_vars(ChatReturns(k) \/ ChatRaises(k))

FairSpec == Spec /\ Fairness

-----------------------------------------------------------------------------
(* Correctness                                                             *)

\* A client that was shown the answer to a message is not told afterwards that
\* the same message failed (as long as its handler lives).
ErrorExcludesAnswer ==
    \A k \in Sockets : pc[k] # "end" => ~({"chat_complete", "error"} \subseteq cycle[k])

\* A message the request log counts as failed has no answer in the database and
\* no second log row that says it succeeded, although a late exception runs the
\* except clause after _persist_response has committed.
FailureLoggedAlone ==
    \A m \in Msgs : [msg |-> m, isError |-> TRUE] \in requestLog =>
        m \notin answers /\ [msg |-> m, isError |-> FALSE] \notin requestLog

\* Both: client, database and log are not told different things of a message.
OutcomeAgrees == ErrorExcludesAnswer /\ FailureLoggedAlone

\* The queue of traces is shared by the messages and connections of a session.
\* What is stored with an answer never contains traces of a message that had
\* been drained to the end before the answered one was read.
TraceNotStale == \A k \in Sockets : trace[k] \cap before[k].drained = {}

\* A conversation that has had an answer is not renamed by a later message, and
\* its title is that of a message it contains.
TitleNotLate ==
    /\ title # NoTitle => title \in saved
    /\ \A k \in Sockets : wantsTitle[k] => before[k].count = 0

\* Every message is closed, and once.  The client can pair answers with questions: a
\* handler that waits for the next message has sent one DONE for every message before
\* it, on whichever of its paths each was processed, and never more.  And the handler
\* comes back for the next message or ends, whatever the agent, the client and the
\* database do (websocket_chat and process_chat_message).
EachMessageClosed ==
    /\ [](\A k \in Sockets : /\ dones[k] <= received[k]
                             /\ pc[k] = "recv" /\ conn[k] = "open" => dones[k] = received[k])
    /\ \A k \in Sockets : pc[k] # "recv" ~> pc[k] \in {"recv", "end"}
-----------------------------------------------------------------------------
(* What the safety properties rest on: an invariant that every step keeps. *)

\* From receive_json to the first event that tells the client an outcome.
Unanswered == {"admit", "save", "title", "start", "poll", "drain", "noreply", "persist", "emit"}

\* The client is told nothing of a message before its answer or its failure, and a
\* failure after the answer was begun is one of a send: nothing is sent after it.
CycleInv ==
    \A k \in Sockets :
        /\ pc[k] \in Unanswered => cycle[k] = {}
        /\ pc[k] = "widget" => "error" \notin cycle[k]
        /\ pc[k] = "error" => conn[k] = "closed" \/ cycle[k] = {}

Succeeded(m) == m \in answers \/ [msg |-> m, isError |-> FALSE] \in requestLog
Failed(m)    == [msg |-> m, isError |-> TRUE] \in requestLog

\* A message has no answer and no row in the log before _persist_response; one that
\* has an answer or a row of success is not on its way to _persist_error, unless the
\* connection is closed and the way ends at the next send.
LogInv ==
    \A k \in Sockets :
        /\ \A n \in 1 .. MaxMessages : n > received[k] => ~Succeeded(<<k, n>>) /\ ~Failed(<<k, n>>)
        /\ pc[k] \in Unanswered \ {"emit"} => ~Succeeded(current(k)) /\ ~Failed(current(k))
        /\ pc[k] \in {"emit", "widget", "error"} => ~Failed(current(k))
        /\ pc[k] = "error" => conn[k] = "closed" \/ ~Succeeded(current(k))
        /\ pc[k] = "logerror" => ~Succeeded(current(k))

\* A chat that still runs is waited for, or its handler has met a closed connection.
RunningInv ==
    \A k \in Sockets :
        /\ pc[k] \in {"admit", "save", "title", "start"} => chat[k] = "none"
        /\ chat[k] = "running" =>
               /\ received[k] > 0
               /\ pc[k] = "poll" \/ (pc[k] \in {"error", "end"} /\ conn[k] = "closed")

\* What was drained to the end is gone from the queue, and nobody puts it back.
DrainInv ==
    /\ traceQ \cap drained = {}
    /\ \A k \in Sockets :
           /\ before[k].drained \subseteq drained
           /\ pc[k] = "recv" => trace[k] = {}
           /\ pc[k] \in {"admit", "save", "title", "start", "poll", "drain"}
                  \/ chat[k] = "running" => current(k) \notin drained
           /\ \A n \in 1 .. MaxMessages : <<k, n>> \in drained => n <= received[k]

\* wantsTitle is a local variable of the handler; message_count only grows.
CountInv ==
    \A k \in Sockets : /\ wantsTitle[k] => pc[k] = "title"
                       /\ before[k].count <= messageCount

\* One DONE is owed while a message is processed, if the client is still there.
DoneInv ==
    \A k \in Sockets :
        /\ pc[k] \notin {"recv", "end"} =>
               dones[k] < received[k] /\ (conn[k] = "open" => dones[k] = received[k] - 1)
        /\ dones[k] <= received[k]
        /\ pc[k] = "recv" /\ conn[k] = "open" => dones[k] = received[k]

BridgeInv == /\ TypeOK /\ CycleInv /\ LogInv /\ RunningInv /\ DrainInv /\ CountInv /\ DoneInv
             /\ OutcomeAgrees /\ TraceNotStale /\ TitleNotLate
=============================================================================
