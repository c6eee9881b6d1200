------------------------------ MODULE RemoteAgents ------------------------------
(***************************************************************************)
(* The tools of a conversation that talk to agents elsewhere and keep their *)
(* place in its sly_data: ServiceNow's (nowagent_api_send_message.py,       *)
(* nowagent_api_retrieve_message.py) and Agentforce's (agentforce_api.py,   *)
(* agentforce_adapter.py).  The calls block: a conversation makes one at a  *)
(* time, while the services go on.  Inquiries are numbered; the tools are   *)
(* configured (without credentials Agentforce's gives canned answers).      *)
(***************************************************************************)
EXTENDS Naturals, Sequences, FiniteSets

CONSTANTS MaxAttempts,   \* max_attempts: polls of a retrieval
          MaxInquiries   \* bound: inquiries made with either tool

VARIABLES sly,       \* sly_data: session_path and session_id, 0 if missing
          now,       \* external: the inquiries of ServiceNow's sessions and their answers
          force,     \* external: the inquiries posted to each of Agentforce's sessions
          poll,      \* the retrieval that is under way
          asked,     \* inquiries so far
          told,      \* history: per tool, what the conversation was told
          sent       \* history: the last inquiry that the tool said was sent

remoteVars == <<sly, now, force, poll, asked, told, sent>>

NoPoll == [attempt |-> 0, path |-> 0]

Init == /\ sly = [session_path |-> 0, session_id |-> 0] /\ now = <<>> /\ force = <<>>
        /\ poll = NoPoll /\ asked = 0 /\ told = [now |-> {}, force |-> <<>>] /\ sent = 0

Asks == poll = NoPoll /\ asked < MaxInquiries /\ asked' = asked + 1

-----------------------------------------------------------------------------
\* NowAgentSendMessage: every inquiry opens a session.
NewSession == now' = Append(now, [inquiry |-> asked + 1, answered |-> FALSE])

\* Mutant of Path: the session that the conversation has is kept.
PathKept == IF sly.session_path = 0 THEN Len(now) + 1 ELSE sly.session_path

\* The session that the answer names.
Path == Len(now) + 1

Send == /\ Asks /\ NewSession
        /\ sly' = [sly EXCEPT !.session_path = Path] /\ sent' = asked + 1
        /\ UNCHANGED <<force, poll, told>>

\* Another status than 200, or an exception, before or after the session was opened:
\* the conversation keeps the path of an earlier inquiry.
SendFails == /\ Asks /\ (NewSession \/ UNCHANGED now)
             /\ UNCHANGED <<sly, force, poll, told, sent>>

\* ServiceNow's agent answers, in its own time.
NowAnswers == /\ \E s \in DOMAIN now : /\ ~now[s].answered
                                       /\ now' = [now EXCEPT ![s].answered = TRUE]
              /\ UNCHANGED <<sly, force, poll, asked, told, sent>>

\* NowAgentRetrieveMessage; without a path it raises a KeyError.
Retrieve == /\ poll = NoPoll /\ sly.session_path # 0
            /\ poll' = [attempt |-> 1, path |-> sly.session_path]
            /\ UNCHANGED <<sly, now, force, asked, told, sent>>

Tells(answer) == /\ poll' = NoPoll /\ told' = [told EXCEPT !.now = answer]
                 /\ UNCHANGED <<sly, now, force, asked, sent>>

Finds == poll # NoPoll /\ now[poll.path].answered
            /\ Tells({[inquiry |-> now[poll.path].inquiry, expected |-> sent]})

\* No answer yet: wait five seconds, or give up with the empty result.
PollsAgain ==
    /\ poll # NoPoll /\ ~now[poll.path].answered
    /\ IF poll.attempt < MaxAttempts
         THEN /\ poll' = [poll EXCEPT !.attempt = @ + 1]
              /\ UNCHANGED <<sly, now, force, asked, told, sent>>
         ELSE Tells({})

PollFails == poll # NoPoll /\ Tells({})

-----------------------------------------------------------------------------
\* AgentforceAPI.invoke: post_message opens a session if the conversation has none.
OnForce(s) == IF s <= Len(force) THEN [force EXCEPT ![s] = Append(@, asked + 1)]
                                 ELSE Append(force, <<asked + 1>>)
\* Mutant of SessionFor: every message opens a session.
SessionAnew == Len(force) + 1

SessionFor == IF sly.session_id = 0 THEN Len(force) + 1 ELSE sly.session_id

\* Agentforce answers; the session is kept even if its answer holds no message.
Post == /\ Asks
        /\ force' = OnForce(SessionFor)
        /\ sly' = [sly EXCEPT !.session_id = SessionFor]
        /\ \/ told' = [told EXCEPT !.force = Append(@, asked + 1)]
           \/ UNCHANGED told
        /\ UNCHANGED <<now, poll, sent>>

\* No token, no session, a timeout, or an answer that is not JSON: the session may have
\* been opened and the message may have been taken; nothing is kept, nobody closes it.
PostFails == /\ Asks
             /\ \/ UNCHANGED force
                \/ force' = OnForce(SessionFor)
                \/ sly.session_id = 0 /\ force' = Append(force, <<>>)
             /\ UNCHANGED <<sly, now, poll, told, sent>>

Next == \/ Send \/ SendFails \/ NowAnswers \/ Retrieve \/ Finds \/ PollsAgain \/ PollFails
        \/ Post \/ PostFails

Spec == Init /\ [][Next]_remoteVars

-----------------------------------------------------------------------------
\* A session of ServiceNow: what was asked there, and whether it has been answered.
Session == [inquiry : Nat, answered : BOOLEAN]

TypeOK ==
    /\ sly \in [session_path : Nat, session_id : Nat]
    /\ now \in Seq(Session) /\ force \in Seq(Seq(Nat))
    /\ sly.session_path <= Len(now) /\ sly.session_id <= Len(force)
    /\ poll \in [attempt : 0 .. MaxAttempts, path : 0 .. Len(now)]
    /\ asked \in 0 .. MaxInquiries /\ sent \in 0 .. asked
    /\ told \in [now : SUBSET [inquiry : Nat, expected : Nat], force : Seq(Nat)]

\* What a retrieval finds answers the last inquiry that was reported as sent.
AnswersOwn == \A answer \in told.now : answer.inquiry = answer.expected

\* The answers that the conversation was told by Agentforce come from one session, which
\* sly_data names and which holds them in the order in which they were asked.
ContextKept ==
    told.force # <<>> =>
        /\ sly.session_id # 0
        /\ \A i \in DOMAIN told.force :
               \E j \in DOMAIN force[sly.session_id] : force[sly.session_id][j] = told.force[i]
        /\ \A i, j \in DOMAIN force[sly.session_id] :
               i < j => force[sly.session_id][i] < force[sly.session_id][j]

RemoteSound == AnswersOwn /\ ContextKept

-----------------------------------------------------------------------------
(* What RemoteSound rests on: an invariant that every step keeps.           *)

\* sly_data names the session of the last inquiry that was reported as sent, and the
\* retrieval under way, during which no inquiry is made, polls that session.
PathInv ==
    /\ sly.session_path # 0 => now[sly.session_path].inquiry = sent
    /\ poll # NoPoll => poll.path = sly.session_path /\ poll.path # 0

\* Every session holds its inquiries in the order in which they were made.
OrderInv ==
    \A s \in DOMAIN force :
        /\ \A i \in DOMAIN force[s] : force[s][i] <= asked
        /\ \A i, j \in DOMAIN force[s] : i < j => force[s][i] < force[s][j]

RemoteInv == TypeOK /\ PathInv /\ OrderInv /\ RemoteSound
=============================================================================
