-------------------------------- MODULE Running --------------------------------
(***************************************************************************)
(* Components whose liveness is checked: messages one after the other on a  *)
(* connection, the transactions of a first login, the launcher, the solver, *)
(* the crawl of a web site, the Flask assistants, and the tools for remote  *)
(* agents.  They share no state: a behaviour is one of one of them, the     *)
(* others stay where they began.                                            *)
(***************************************************************************)
EXTENDS Naturals, Sequences, FiniteSets

CONSTANTS Sockets, MaxMessages, NoTitle,                       \* ChatBridge
          Users, ClerkOrgs, Requests, NoOrg,                   \* TenantStore
          MaxSignals,                                          \* Launcher
          MaxDepth, WinningVotes, NumberOfVotes, Candidates,   \* Solver
          Urls, StartUrl, MaxAgents, Links, Limits, MaxPasses, \* SiteNetwork
          Clients, MaxInputs, MaxSessions,                     \* FlaskAssistant
          MaxAttempts, MaxInquiries                            \* RemoteAgents

\* The bounds are numbers, and there is a session to begin with.
ASSUME BoundsAssumption ==
    /\ {MaxMessages, MaxSignals, MaxDepth, WinningVotes, NumberOfVotes, Candidates, MaxAgents,
        MaxPasses, MaxInputs, MaxInquiries} \subseteq Nat
    /\ {MaxSessions, MaxAttempts} \subseteq Nat \ {0}
    /\ IsFiniteSet(Clients)

\* The marker of a user without a default organization is not an organization.
ASSUME TenantAssumption == NoOrg \notin ClerkOrgs \cup Users

\* The start page is one of finitely many urls, none of which is the program's mark for
\* an agent without a hash or for a page nobody linked to; an agent may have children.
ASSUME SiteAssumption ==
    /\ IsFiniteSet(Urls) /\ StartUrl \in Urls /\ {"", "no parent"} \cap Urls = {}
    /\ Links \subseteq Nat /\ Limits \subseteq Nat \ {0}

VARIABLES
    part,                                                      \* the component at work
    conn, pc, received, cycle, dones, chat, trace, traceQ,
    messageCount, wantsTitle, title, saved, answers, requestLog,
    drained, before,                                           \* ChatBridge
    users, orgs, members, default, records, txn, locks,         \* TenantStore
    args, taken, at, next, child, known, stopping, signals,     \* Launcher
    node, ballot,                                               \* Solver
    maxChildren, toVisit, visited, count, agents, phase, passes,  \* SiteNetwork
    app, started, client, loop, inputs, asked, context,         \* FlaskAssistant
    session, state, made, closed, raced, crossed, overlapped, over,
    sly, now, force, poll, posed, told, sent                    \* RemoteAgents

Chat   == INSTANCE ChatBridge
Tenant == INSTANCE TenantStore
Launch == INSTANCE Launcher
Solve  == INSTANCE Solver
Site   == INSTANCE SiteNetwork
Flask  == INSTANCE FlaskAssistant
Remote == INSTANCE RemoteAgents WITH asked <- posed

chatVars     == <<conn, pc, received, cycle, dones, chat, trace, traceQ, messageCount, wantsTitle,
                  title, saved, answers, requestLog, drained, before>>
tenantVars   == <<users, orgs, members, default, records, txn, locks>>
launcherVars == <<args, taken, at, next, child, known, stopping, signals>>
solverVars   == <<node, ballot>>
siteVars     == <<maxChildren, toVisit, visited, count, agents, phase, passes>>
flaskVars    == <<app, started, client, loop, inputs, asked, context, session, state, made,
                  closed, raced, crossed, overlapped, over>>
remoteVars   == <<sly, now, force, poll, posed, told, sent>>
vars         == <<part, chatVars, tenantVars, launcherVars, solverVars, siteVars, flaskVars,
                  remoteVars>>

Still(p) == /\ p # "chat"   => UNCHANGED chatVars
            /\ p # "tenant" => UNCHANGED tenantVars
            /\ p # "launch" => UNCHANGED launcherVars
            /\ p # "solve"  => UNCHANGED solverVars
            /\ p # "site"   => UNCHANGED siteVars
            /\ p # "flask"  => UNCHANGED flaskVars
            /\ p # "remote" => UNCHANGED remoteVars
            /\ UNCHANGED part

Init == /\ part \in {"chat", "tenant", "launch", "solve", "site", "flask", "remote"}
        /\ Chat!Init /\ Tenant!Init /\ Launch!Init /\ Solve!Init /\ Site!Init /\ Flask!Init
        /\ Remote!Init

ChatStep   == part = "chat"   /\ Chat!Next   /\ Still("chat")
TenantStep == part = "tenant" /\ Tenant!Next /\ Still("tenant")
LaunchStep == part = "launch" /\ Launch!Next /\ Still("launch")
SolveStep  == part = "solve"  /\ Solve!Next  /\ Still("solve")
SiteStep   == part = "site"   /\ Site!Next   /\ Still("site")
FlaskStep  == part = "flask"  /\ Flask!Next  /\ Still("flask")
RemoteStep == part = "remote" /\ Remote!Next /\ Still("remote")

Next == ChatStep \/ TenantStep \/ LaunchStep \/ SolveStep \/ SiteStep \/ FlaskStep \/ RemoteStep

\* The fairness of each component, under which its own behaviours are live.
Fairness ==
    /\ \A k \in Sockets :
           /\ WF_vars(part = "chat" /\ Chat!Handler(k) /\ Still("chat"))
           /\ WF_vars(part = "chat" /\ (Chat!ChatReturns(k) \/ Chat!ChatRaises(k)) /\ Still("chat"))
    /\ \A r \in Requests : SF_vars(part = "tenant" /\ Tenant!Statement(r) /\ Still("tenant"))
    /\ WF_vars(part = "tenant" /\ (\E r \in Requests : Tenant!BreakDeadlock(r)) /\ Still("tenant"))
    /\ WF_vars(part = "launch" /\ (Launch!Body \/ Launch!Handler) /\ Still("launch"))
    /\ WF_vars(SolveStep)
    /\ WF_vars(SiteStep)
    /\ \A k \in Clients : WF_vars(part = "flask" /\ Flask!Task(k) /\ Still("flask"))

Spec == Init /\ [][Next]_vars /\ Fairness

-----------------------------------------------------------------------------
\* The type invariants of the components.
TypeOK == /\ Chat!TypeOK /\ Tenant!TypeOK /\ Launch!TypeOK
          /\ Solve!TypeOK /\ Site!TypeOK /\ Flask!TypeOK /\ Remote!TypeOK

\* The properties of ChatBridge, TenantStore and Launcher, and those of the two that keep
\* a conversation, FlaskAssistant and RemoteAgents.
EachMessageClosed == Chat!EachMessageClosed
LoginSound        == Tenant!LoginSound
LeavesRunning     == Launch!LeavesRunning
ConversationKept  == Flask!ConversationKept /\ Remote!RemoteSound

\* What is worked out is sound: the answer of the solver and the network of a site.
ResultsSound == /\ Solve!AnswersSound
                /\ part = "site" => Site!NetworkSound

\* What has begun ends: a request whomever it waits for, a launcher that was told to
\* stop or has nothing left to wait for, a problem and whatever is left running of it,
\* a crawl; and what is said to an assistant is taken.
WorkEnds == /\ Tenant!RequestEnds
            /\ Launch!LauncherEnds
            /\ part = "solve" ~> Solve!Settled
            /\ part = "site" /\ maxChildren > 1 ~> phase = "written"
            /\ Flask!InputTaken
=============================================================================
