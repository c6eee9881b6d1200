----------------------------- MODULE SlackThreads -----------------------------
(***************************************************************************)
(* The Slack app (apps/slack): each event is handled by a worker thread;    *)
(* networks, sly_data and chat contexts of the Slack threads are kept in    *)
(* three dictionaries that the workers share without a lock                 *)
(* (conversation_manager.py).  The first message of a Slack thread names    *)
(* the network the thread talks to, and may give it sly_data.               *)
(*                                                                          *)
(* A worker is interrupted only between its accesses to the dictionaries    *)
(* and its calls of the agent server, which is external.  Slack may deliver *)
(* an event again; in a group DM a mention also arrives as a message.       *)
(***************************************************************************)
EXTENDS Naturals, Sequences, FiniteSetsExt

CONSTANTS Workers, Threads, Networks,
          NoNetwork,      \* no network set
          Commands,       \* first messages, see Command
          MaxEvents       \* bound: events delivered

VARIABLES
    networks,    \* network of each Slack thread
    sly_data,    \* the message that gave each thread its sly_data; 0: none
    contexts,    \* chat context of each thread and network: the messages in it;
                 \* no entry: none stored
    worker,      \* what each worker does
    sent,        \* messages: their thread, and what they say if taken for a command
    answered,    \* messages a network answered, with the network
    clashed      \* threads two of whose messages were handled at once

slackVars == <<networks, sly_data, contexts, worker, sent, answered, clashed>>

Message == 1..MaxEvents

\* A network, if it starts with one, and whether a prompt and sly_data follow.
Command == [word : Networks \cup {NoNetwork}, prompt : BOOLEAN, data : BOOLEAN]

Idle    == [at |-> "idle"]
Busy    == [at : {"lookup", "setup", "data", "connect", "clear", "read", "payload", "call"},
            msg : Message, net : Networks \cup {NoNetwork}, context : SUBSET Message,
            sly_data : Message \cup {0}]

TypeOK ==
    /\ networks \in [Threads -> Networks \cup {NoNetwork}]
    /\ sly_data \in [Threads -> Message \cup {0}]
    /\ DOMAIN contexts \subseteq Threads \X Networks
    /\ \A k \in DOMAIN contexts : contexts[k] \subseteq Message
    /\ worker \in [Workers -> {Idle} \cup Busy]
    /\ sent \in Seq([thread : Threads, command : Command]) /\ Len(sent) <= MaxEvents
    /\ answered \subseteq Message \X Networks /\ clashed \subseteq Threads

Init ==
    /\ networks = [t \in Threads |-> NoNetwork]
    /\ sly_data = [t \in Threads |-> 0]
    /\ contexts = <<>>
    /\ worker = [w \in Workers |-> Idle]
    /\ sent = <<>> /\ answered = {} /\ clashed = {}

-----------------------------------------------------------------------------
thread(w) == sent[worker[w].msg].thread
key(w)    == <<thread(w), worker[w].net>>
Done(w)   == worker' = [worker EXCEPT ![w] = Idle]
Becomes(w, at, net, context, data) ==
    worker' = [worker EXCEPT ![w] = [at |-> at, msg |-> worker[w].msg, net |-> net,
                                     context |-> context, sly_data |-> data]]
Goto(w, at) == Becomes(w, at, worker[w].net, worker[w].context, worker[w].sly_data)

Take(w, m, t) ==
    /\ worker' = [worker EXCEPT ![w] = [at |-> "lookup", msg |-> m, net |-> NoNetwork,
                                        context |-> {}, sly_data |-> 0]]
    /\ clashed' = IF \E v \in Workers : worker[v] # Idle /\ thread(v) = t
                  THEN clashed \cup {t} ELSE clashed
    /\ UNCHANGED <<networks, sly_data, contexts, answered>>

\* A message or a mention; its first word is taken for a network if one is needed.  In a
\* thread that has one, all of the message is the prompt.
Event(w, t, command) ==
    /\ worker[w] = Idle /\ Len(sent) < MaxEvents
    /\ networks[t] # NoNetwork => command.word = NoNetwork
    /\ LET m == Len(sent) + 1 IN
       /\ sent' = Append(sent, [thread |-> t, command |-> command])
       /\ Take(w, m, t)

Again(w, m) ==
    /\ worker[w] = Idle /\ m \in DOMAIN sent
    /\ \E v \in Workers : worker[v] # Idle /\ worker[v].msg = m
    /\ Take(w, m, sent[m].thread) /\ UNCHANGED sent

\* handle_message, handle_app_mention
Lookup(w) ==
    /\ worker[w].at = "lookup"
    /\ LET word == sent[worker[w].msg].command.word IN
       IF networks[thread(w)] # NoNetwork
       THEN Becomes(w, "clear", networks[thread(w)], {}, 0)
       ELSE IF word # NoNetwork THEN Becomes(w, "setup", word, {}, 0)
       ELSE Done(w)                                  \* "Please provide a network name"
    /\ UNCHANGED <<networks, sly_data, contexts, sent, answered, clashed>>

AfterSetup(w) == IF sent[worker[w].msg].command.prompt THEN "clear" ELSE "connect"

\* setup_new_network: the network is kept for the thread whether it exists or not.
SetNetwork(w) ==
    /\ worker[w].at = "setup"
    /\ networks' = [networks EXCEPT ![thread(w)] = worker[w].net]
    /\ Goto(w, IF sent[worker[w].msg].command.data THEN "data" ELSE AfterSetup(w))
    /\ UNCHANGED <<sly_data, contexts, sent, answered, clashed>>

SetSlyData(w) ==
    /\ worker[w].at = "data"
    /\ sly_data' = [sly_data EXCEPT ![thread(w)] = worker[w].msg]
    /\ Goto(w, AfterSetup(w))
    /\ UNCHANGED <<networks, contexts, sent, answered, clashed>>

\* _acknowledge_connection: the answer says whether the network is valid.
Acknowledge(w) ==
    /\ worker[w].at = "connect"
    /\ Done(w)
    /\ UNCHANGED <<networks, sly_data, contexts, sent, answered, clashed>>

\* Mutant of ClearOld: every context but the one in use is forgotten.
ClearOthers(w) ==
    /\ worker[w].at = "clear"
    /\ contexts' = [k \in {k \in DOMAIN contexts : k = key(w)} |-> contexts[k]]
    /\ Goto(w, "read")
    /\ UNCHANGED <<networks, sly_data, sent, answered, clashed>>

\* clear_old_contexts: what the thread said to another network is forgotten.
ClearOld(w) ==
    /\ worker[w].at = "clear"
    /\ contexts' = [k \in {k \in DOMAIN contexts : k[1] = thread(w) => k = key(w)} |-> contexts[k]]
    /\ Goto(w, "read")
    /\ UNCHANGED <<networks, sly_data, sent, answered, clashed>>

Stored(k) == IF k \in DOMAIN contexts THEN contexts[k] ELSE {}

GetContext(w) ==
    /\ worker[w].at = "read"
    /\ Becomes(w, "payload", worker[w].net, Stored(key(w)), worker[w].sly_data)
    /\ UNCHANGED <<networks, sly_data, contexts, sent, answered, clashed>>

GetSlyData(w) ==
    /\ worker[w].at = "payload"
    /\ Becomes(w, "call", worker[w].net, worker[w].context, sly_data[thread(w)])
    /\ UNCHANGED <<networks, sly_data, contexts, sent, answered, clashed>>

\* The network answers with the context it was sent and this exchange, which is stored.
StoreContext(w) ==
    /\ worker[w].at = "call"
    /\ contexts' = [k \in DOMAIN contexts \cup {key(w)} |->
                       IF k = key(w) THEN worker[w].context \cup {worker[w].msg} ELSE contexts[k]]
    /\ answered' = answered \cup {<<worker[w].msg, worker[w].net>>}
    /\ Done(w)
    /\ UNCHANGED <<networks, sly_data, sent, clashed>>

\* The call fails, or another worker changes the dictionary while this one goes
\* through it: the handler reports the error and ends.  A response without a chat
\* context has no answer either, and nothing of it is stored.
Fails(w) ==
    /\ \/ worker[w].at \in {"connect", "call"}
       \/ worker[w].at = "clear" /\ \E v \in Workers \ {w} : worker[v].at \in {"clear", "call"}
    /\ Done(w)
    /\ UNCHANGED <<networks, sly_data, contexts, sent, answered, clashed>>

Step(w) == Lookup(w) \/ SetNetwork(w) \/ SetSlyData(w) \/ Acknowledge(w) \/ ClearOld(w)
           \/ GetContext(w) \/ GetSlyData(w) \/ StoreContext(w) \/ Fails(w)

Next == \E w \in Workers :
            \/ \E t \in Threads, command \in Commands : Event(w, t, command)
            \/ \E m \in Message : Again(w, m)
            \/ Step(w)

Spec == Init /\ [][Next]_slackVars

-----------------------------------------------------------------------------
\* A context has messages of its own thread only, and every one of them that its
\* network answered, unless two messages of the thread were handled at once.
TurnsKept ==
    /\ \A k \in DOMAIN contexts : \A m \in contexts[k] : sent[m].thread = k[1]
    /\ \A a \in answered :
           LET t == sent[a[1]].thread IN
           t \notin clashed => <<t, a[2]>> \in DOMAIN contexts /\ a[1] \in contexts[<<t, a[2]>>]

\* A thread talks to one network for good, unless its first messages were handled at once.
NetworkFixed ==
    [][\A t \in Threads : networks[t] # NoNetwork /\ t \notin clashed
                              => networks'[t] = networks[t]]_slackVars

\* A network is called with the sly_data of the message that named it, or with none if
\* that had none, unless two messages of the thread were handled at once.
Opening(t) == Min({m \in DOMAIN sent : sent[m].thread = t /\ sent[m].command.word # NoNetwork})
SlyDataSent ==
    \A w \in Workers :
        worker[w].at = "call" /\ thread(w) \notin clashed =>
            LET m == Opening(thread(w)) IN worker[w].sly_data = IF sent[m].command.data THEN m ELSE 0

\* All: a Slack thread is one conversation with one network.
ThreadKept == [](TurnsKept /\ SlyDataSent) /\ NetworkFixed

-----------------------------------------------------------------------------
\* The inductive invariant behind it.  Two workers at a thread have clashed there, and
\* everything that is known of a thread belongs to it.
IsBusy(w)      == worker[w] # Idle
Open(t)        == t \notin clashed
OfThread(m, t) == m \in DOMAIN sent /\ sent[m].thread = t
Openings(t)    == {m \in DOMAIN sent : sent[m].thread = t /\ sent[m].command.word # NoNetwork}
DataOf(m)      == IF sent[m].command.data THEN m ELSE 0

ClashInv ==
    /\ \A v, w \in Workers : IsBusy(v) /\ IsBusy(w) /\ v # w /\ thread(v) = thread(w)
                                => thread(v) \in clashed
    /\ \A k \in DOMAIN contexts : \A m \in contexts[k] : OfThread(m, k[1])
    /\ \A a \in answered : a[1] \in DOMAIN sent

\* Without a clash, a thread has no network while a worker sets one up for the message
\* that opens it; after that the worker's network, context and sly_data are the thread's.
WorkerOK(w) ==
    LET k == worker[w]  t == thread(w) IN
    /\ k.msg \in DOMAIN sent
    /\ \A m \in k.context : OfThread(m, t)
    /\ k.at # "lookup" => k.net \in Networks
    /\ Open(t) =>
          /\ k.at = "setup" => networks[t] = NoNetwork
          /\ k.at \notin {"lookup", "setup"} => networks[t] = k.net
          /\ k.at \in {"setup", "data"} => k.msg \in Openings(t)
          /\ k.at = "data" => DataOf(k.msg) = k.msg
          /\ k.at \in {"payload", "call"} => k.context = Stored(key(w))
          /\ k.at = "call" => k.sly_data = sly_data[t]

\* Without a clash, a thread with a network has been opened by one message, whose
\* sly_data it has, or will have before its worker goes on; each message that opens
\* one without is still at that.  Its answers are its network's, and in its context.
ThreadOK(t) ==
    Open(t) =>
        /\ networks[t] = NoNetwork =>
               /\ sly_data[t] = 0
               /\ \A m \in Openings(t) : \E w \in Workers :
                      IsBusy(w) /\ worker[w].msg = m /\ worker[w].at \in {"lookup", "setup"}
        /\ networks[t] # NoNetwork => \E o \in Message :
               /\ Openings(t) = {o}
               /\ \/ sly_data[t] = DataOf(o)
                  \/ \E w \in Workers : IsBusy(w) /\ worker[w].msg = o /\ worker[w].at = "data"
        /\ \A a \in answered : sent[a[1]].thread = t =>
               networks[t] = a[2] /\ a[1] \in Stored(<<t, a[2]>>)

SlackInv == /\ TypeOK /\ ClashInv
            /\ \A w \in Workers : IsBusy(w) => WorkerOK(w)
            /\ \A t \in Threads : ThreadOK(t)
=============================================================================
