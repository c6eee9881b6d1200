----------------------------- MODULE FlaskAssistant -----------------------------
(***************************************************************************)
(* interface_flask.py and its assistant, in the two applications that have  *)
(* them: cruse, where a new chat may replace the agent session, and         *)
(* conscious_assistant, which goes on thinking when nobody speaks.  One     *)
(* loop, started by the first client, talks to the agent; the handlers of   *)
(* clients run in threads beside it and share its globals.                  *)
(***************************************************************************)
EXTENDS Naturals, Sequences, FiniteSets

CONSTANTS Clients,
          MaxInputs, MaxSessions   \* bounds: messages and agent sessions

VARIABLES app,               \* "cruse" or "conscious"
          started, client,   \* thread_started; per client, its connection or new chat
          loop,              \* the background tasks: one for each client that started one
          inputs, asked,     \* user_input_queue, and how many were put into it
          context,           \* whether gui_context_queue has an entry
          session, state,    \* the globals; a state is named by the session it was made for
          made, closed,      \* agent sessions set up, and torn down
          raced, crossed, overlapped,
          over               \* whether the server was shut down

flaskVars == <<app, started, client, loop, inputs, asked, context, session, state, made, closed,
               raced, crossed, overlapped, over>>
globals   == <<session, state, made, closed, crossed, overlapped>>
queues    == <<inputs, asked, context>>

Off     == [pc |-> "off", input |-> "none", state |-> 0]
Calling == {l \in Clients : loop[l].pc = "call"}
Resets  == {k \in Clients : client[k] = "reset"}
Alive(l) == loop[l].pc \in {"wait", "call", "take"}

Init == /\ app \in {"cruse", "conscious"}
        /\ started = FALSE /\ client = [k \in Clients |-> "away"]
        /\ loop = [l \in Clients |-> Off]
        /\ inputs = <<>> /\ asked = 0 /\ context = FALSE
        /\ session = 1 /\ state = 1 /\ made = 1 /\ closed = {}
        /\ raced = FALSE /\ crossed = FALSE /\ overlapped = FALSE /\ over = FALSE

\* on_connect tests thread_started ...
Connect(k) ==
    /\ client[k] = "away"
    /\ client' = [client EXCEPT ![k] = IF started THEN "here" ELSE "starting"]
    /\ raced' = (raced \/ (~started /\ \E j \in Clients : client[j] = "starting"))
    /\ UNCHANGED <<app, started, loop, queues, globals, over>>

\* ... and sets it, in a thread of its own.
StartTask(k) ==
    /\ client[k] = "starting"
    /\ started' = TRUE
    /\ client' = [client EXCEPT ![k] = "here"]
    /\ loop' = [loop EXCEPT ![k].pc = "wait"]
    /\ UNCHANGED <<app, queues, globals, raced, over>>

UserInput(k) ==
    /\ client[k] = "here" /\ asked < MaxInputs
    /\ asked' = asked + 1
    /\ \E text \in {"text", "exit"} : inputs' = Append(inputs, text)
    /\ UNCHANGED <<app, started, client, loop, context, globals, raced, over>>

GuiContext(k) ==
    /\ app = "cruse" /\ client[k] = "here" /\ ~context
    /\ context' = TRUE
    /\ UNCHANGED <<app, started, client, loop, inputs, asked, globals, raced, over>>

\* The loop after its pause; a call takes the state of now.
Wake(l) ==
    /\ loop[l].pc = "wait"
    /\ LET speaks == loop[l].input # "none" \/ context \/ app = "conscious"
       IN  /\ loop' = [loop EXCEPT ![l] = [@ EXCEPT !.pc = IF speaks THEN "call" ELSE "take",
                                                    !.state = IF speaks THEN state ELSE 0]]
           /\ crossed' = (crossed \/ (speaks /\ Resets # {}))
    /\ context' = FALSE
    /\ UNCHANGED <<app, started, client, inputs, asked, session, state, made, closed, overlapped,
                   raced, over>>

\* The answer's blocks are emitted, and the state the call was given becomes the global one.
CallReturns(l) ==
    /\ loop[l].pc = "call"
    /\ state' = loop[l].state
    /\ loop' = [loop EXCEPT ![l] = [@ EXCEPT !.pc = "take", !.state = 0]]
    /\ UNCHANGED <<app, started, client, queues, session, made, closed, crossed, overlapped,
                   raced, over>>

\* The call raises, as on a session that was closed, or returns no text: nothing catches
\* the exception, the task ends.
CallRaises(l) ==
    /\ loop[l].pc = "call"
    /\ state' \in {state, loop[l].state}
    /\ loop' = [loop EXCEPT ![l] = [Off EXCEPT !.pc = "dead"]]
    /\ UNCHANGED <<app, started, client, queues, session, made, closed, crossed, overlapped,
                   raced, over>>

\* The next message; "exit" ends the task for all clients.
TakeInput(l) ==
    /\ loop[l].pc = "take"
    /\ IF inputs = <<>>
         THEN loop' = [loop EXCEPT ![l] = [@ EXCEPT !.pc = "wait", !.input = "none"]] /\ UNCHANGED inputs
         ELSE /\ inputs' = Tail(inputs)
              /\ loop' = [loop EXCEPT ![l] =
                            IF Head(inputs) = "exit" THEN [Off EXCEPT !.pc = "dead"]
                            ELSE [@ EXCEPT !.pc = "wait", !.input = Head(inputs)]]
    /\ UNCHANGED <<app, started, client, asked, context, globals, raced, over>>

\* handle_new_chat tears the session down, unless no system is available ...
NewChat(k) ==
    /\ app = "cruse" /\ client[k] = "here" /\ made + Cardinality(Resets) < MaxSessions
    /\ client' = [client EXCEPT ![k] = "reset"]
    /\ closed' = closed \cup {session}
    /\ crossed' = (crossed \/ Calling # {})
    /\ overlapped' = (overlapped \/ Resets # {})
    /\ UNCHANGED <<app, started, loop, queues, session, state, made, raced, over>>

\* Mutant of SetUp: the conversation's state is kept.
SetUpKeepsState(k) ==
    /\ client[k] = "reset"
    /\ client' = [client EXCEPT ![k] = "here"]
    /\ made' = made + 1 /\ session' = made + 1
    /\ crossed' = (Calling # {} \/ Resets # {k})
    /\ UNCHANGED <<app, started, loop, queues, state, closed, overlapped, raced, over>>

\* ... and sets up another, with a state for it.
SetUp(k) ==
    /\ client[k] = "reset"
    /\ client' = [client EXCEPT ![k] = "here"]
    /\ made' = made + 1 /\ session' = made + 1 /\ state' = made + 1
    /\ crossed' = (Calling # {} \/ Resets # {k})
    /\ UNCHANGED <<app, started, loop, queues, closed, overlapped, raced, over>>

\* The set up raises: the session that was torn down stays.
SetUpFails(k) ==
    /\ client[k] = "reset"
    /\ client' = [client EXCEPT ![k] = "here"]
    /\ UNCHANGED <<app, started, loop, queues, globals, raced, over>>

\* /shutdown: cleanup, once more at exit.
Shutdown ==
    /\ over' = TRUE
    /\ closed' = closed \cup {session}
    /\ UNCHANGED <<app, started, client, loop, queues, session, state, made, crossed, overlapped,
                   raced>>

Task(l) == ~over /\ (Wake(l) \/ CallReturns(l) \/ CallRaises(l) \/ TakeInput(l))

Next == \/ \E k \in Clients : \/ Task(k)
                              \/ ~over /\ \/ Connect(k) \/ StartTask(k) \/ UserInput(k)
                                          \/ GuiContext(k) \/ NewChat(k) \/ SetUp(k) \/ SetUpFails(k)
        \/ ~over /\ Shutdown

Spec == Init /\ [][Next]_flaskVars /\ \A l \in Clients : WF_flaskVars(Task(l))

-----------------------------------------------------------------------------
\* Types; a task that does not call holds no state, and one that does a state of a
\* session that has been made; a client that has started none has none.
FlagsOK ==
    /\ app \in {"cruse", "conscious"} /\ started \in BOOLEAN /\ context \in BOOLEAN
    /\ raced \in BOOLEAN /\ crossed \in BOOLEAN /\ overlapped \in BOOLEAN /\ over \in BOOLEAN

TasksOK ==
    /\ loop \in [Clients -> [pc : {"off", "wait", "call", "take", "dead"},
                             input : {"none", "text"}, state : Nat]]
    /\ \A l \in Clients : /\ loop[l].pc = "call" <=> loop[l].state # 0
                          /\ loop[l].state <= made
                          /\ client[l] \in {"away", "starting"} => loop[l].pc = "off"

InputsOK ==
    /\ inputs \in Seq({"text", "exit"}) /\ asked \in Nat
    /\ Len(inputs) <= asked /\ asked <= MaxInputs

SessionsOK ==
    /\ client \in [Clients -> {"away", "starting", "here", "reset"}]
    /\ made \in Nat /\ made + Cardinality(Resets) <= MaxSessions
    /\ session \in 1..made /\ state \in 1..made /\ closed \subseteq 1..made

TypeOK == FlagsOK /\ TasksOK /\ InputsOK /\ SessionsOK

\* The state the agent is given belongs to the session it is given to, unless a chat
\* was begun while a message was being answered; no agent session but the current one
\* is left open, unless two chats were begun at the same time; and one task talks to
\* the agent, unless two clients connected first at the same time.
ConversationKept ==
    /\ state # session => crossed
    /\ Resets = {} /\ ~overlapped => (1..made) \ closed \subseteq {session}
    /\ Cardinality({l \in Clients : loop[l].pc # "off"}) > 1 => raced

\* Liveness: what is said is taken by a task, unless "exit" or an exception has ended
\* the tasks or the server is shut down.
InputTaken == inputs # <<>> ~> inputs = <<>> \/ over \/ ~\E l \in Clients : Alive(l)

-----------------------------------------------------------------------------
(* What ConversationKept rests on: an invariant that every step keeps.      *)

\* Nobody resets the session while a call is under way, and calls and globals are of one
\* session.
NotCrossed == ~crossed =>
    /\ Calling = {} \/ Resets = {}
    /\ state = session
    /\ \A l \in Calling : loop[l].state = session

\* One chat is reset at a time, and until its session is set up none is open.
NotOverlapped == ~overlapped =>
    /\ \A j, k \in Resets : j = k
    /\ (1..made) \ closed \subseteq {session}
    /\ Resets # {} => 1..made \subseteq closed

\* One client is about to start the task, and then no other will.
NotRaced == ~raced =>
    /\ \A j, k \in Clients : client[j] = "starting" /\ client[k] = "starting" => j = k
    /\ \A k \in Clients : client[k] = "starting" => ~started
    /\ \A l, m \in Clients : loop[l].pc # "off" /\ loop[m].pc # "off" => l = m
    /\ \A l \in Clients : loop[l].pc # "off" => started

FlaskInv == TypeOK /\ NotCrossed /\ NotOverlapped /\ NotRaced
=============================================================================
