------------------------------- MODULE Launcher -------------------------------
(***************************************************************************)
(* The launcher (run.py, with the Phoenix plugin): it checks the ports,     *)
(* starts Phoenix, a client and the server in that order, waits for the     *)
(* client and the server, and on a signal kills what it started.            *)
(* The modelled platform is Unix: each child leads a session of its own,    *)
(* so only the launcher's killpg reaches it.  A process id that was waited   *)
(* for is not given out again while the launcher runs.                      *)
(***************************************************************************)
EXTENDS Naturals, Sequences

CONSTANT MaxSignals      \* bound: signals sent to the launcher

Services == {"phoenix", "flask", "nsflow", "server"}
Modes    == {"both", "client_only", "server_only"}

VARIABLES
    args,       \* mode, use_flask and whether Phoenix is to be started
    taken,      \* services whose port another program holds
    at,         \* what the main thread does
    next,       \* index of the service to start, then of the one to wait for
    child,      \* state of each service's process
    known,      \* services whose process the launcher has recorded
    stopping,   \* index of the process signal_handler stops next; 0: not running
    signals

launcherVars == <<args, taken, at, next, child, known, stopping, signals>>

TypeOK ==
    /\ args \in [mode : Modes, use_flask : BOOLEAN, phoenix : BOOLEAN]
    /\ taken \subseteq Services
    /\ at \in {"check", "ask", "start", "started", "settle", "wait",
               "done", "refused", "failed", "stopped", "raised"}
    /\ next \in 1..4
    /\ child \in [Services -> {"none", "running", "exited", "reaped"}]
    /\ known \subseteq Services
    /\ stopping \in 0..5 /\ signals \in 0..MaxSignals

Init ==
    /\ args \in [mode : Modes, use_flask : BOOLEAN, phoenix : BOOLEAN]
    /\ taken \in SUBSET Services
    /\ at = "check" /\ next = 1
    /\ child = [p \in Services |-> "none"]
    /\ known = {} /\ stopping = 0 /\ signals = 0

-----------------------------------------------------------------------------
Client == IF args.use_flask THEN "flask" ELSE "nsflow"

\* The services conditional_start_servers starts, in order.
Plan == (IF args.phoenix THEN <<"phoenix">> ELSE <<>>)
     \o (IF args.mode # "server_only" THEN <<Client>> ELSE <<>>)
     \o (IF args.mode # "client_only" THEN <<"server">> ELSE <<>>)

WaitOrder == <<"nsflow", "server", "flask">>
StopOrder == <<"server", "flask", "nsflow", "phoenix">>

\* nsflow's port is checked whenever a client is started, even for the Flask client.
Conflicts ==
    taken \cap ((IF args.mode # "server_only" THEN {"nsflow"} ELSE {})
                \cup (IF args.mode # "client_only" THEN {"server"} ELSE {})
                \cup (IF args.use_flask THEN {"flask"} ELSE {}))

Over    == at \in {"done", "refused", "failed", "stopped", "raised"}
Main(s) == at = s /\ stopping = 0      \* a signal handler runs on the main thread

CheckPorts ==
    /\ Main("check")
    /\ at' = IF Conflicts = {} THEN "start" ELSE "ask"
    /\ UNCHANGED <<args, taken, next, child, known, stopping, signals>>

\* Killing what holds a port may fail: it is printed, and the launcher goes on.
KillOnPorts ==
    /\ Main("ask")
    /\ \E killed \in SUBSET Conflicts : taken' = taken \ killed
    /\ at' = "start"
    /\ UNCHANGED <<args, next, child, known, stopping, signals>>

Refuse ==
    /\ Main("ask")
    /\ at' = "refused"
    /\ UNCHANGED <<args, taken, next, child, known, stopping, signals>>

Advance == IF next < Len(Plan) THEN at' = "start" /\ next' = next + 1
                               ELSE at' = "wait" /\ next' = 1

\* Phoenix is taken to run already if its port is open.
SkipPhoenix ==
    /\ Main("start") /\ Plan[next] = "phoenix" /\ "phoenix" \in taken
    /\ Advance
    /\ UNCHANGED <<args, taken, child, known, stopping, signals>>

Popen ==
    /\ Main("start") /\ ~(Plan[next] = "phoenix" /\ "phoenix" \in taken)
    /\ child' = [child EXCEPT ![Plan[next]] = "running"]
    /\ at' = "started"
    /\ UNCHANGED <<args, taken, next, known, stopping, signals>>

\* start_process raises.  Phoenix's failure is printed; any other ends the launcher.
StartFails ==
    /\ Main("start")
    /\ IF Plan[next] = "phoenix" THEN Advance ELSE at' = "failed" /\ UNCHANGED next
    /\ UNCHANGED <<args, taken, child, known, stopping, signals>>

\* start_process returns, with the log threads attached; only now is it recorded.
Record ==
    /\ Main("started")
    /\ known' = known \cup {Plan[next]}
    /\ IF Plan[next] \in {"phoenix", "server"} THEN at' = "settle" /\ UNCHANGED next
                                               ELSE Advance
    /\ UNCHANGED <<args, taken, child, stopping, signals>>

\* Phoenix answered or ten seconds have gone by; the server had its three seconds.
Settle ==
    /\ Main("settle")
    /\ Advance
    /\ UNCHANGED <<args, taken, child, known, stopping, signals>>

\* process.wait(), in turn for each process recorded; waiting reaps it.
Wait ==
    /\ Main("wait") /\ next <= 3
    /\ LET p == WaitOrder[next] IN
       /\ p \in known => child[p] = "exited"
       /\ child' = IF p \in known THEN [child EXCEPT ![p] = "reaped"] ELSE child
    /\ next' = next + 1
    /\ UNCHANGED <<args, taken, at, known, stopping, signals>>

Finish ==
    /\ Main("wait") /\ next = 4
    /\ at' = "done"
    /\ UNCHANGED <<args, taken, next, child, known, stopping, signals>>

\* A second signal runs the handler again inside the first, which it also ends.
Signal ==
    /\ ~Over /\ signals < MaxSignals
    /\ signals' = signals + 1
    /\ stopping' = 1
    /\ UNCHANGED <<args, taken, at, next, child, known>>

\* Mutant of StopNext: a process that is gone ends the handler, and the launcher.
StopNextGivesUp ==
    /\ stopping \in 1..4
    /\ LET p == StopOrder[stopping] IN
       IF p \in known /\ child[p] = "reaped"
       THEN at' = "stopped" /\ stopping' = 0 /\ UNCHANGED child
       ELSE /\ child' = IF p \in known THEN [child EXCEPT ![p] = "exited"] ELSE child
            /\ stopping' = stopping + 1 /\ UNCHANGED at
    /\ UNCHANGED <<args, taken, next, known, signals>>

\* getpgid finds no process once it has been reaped, and raises.
StopNext ==
    /\ stopping \in 1..4
    /\ LET p == StopOrder[stopping] IN
       IF p \in known /\ child[p] = "reaped"
       THEN at' = "raised" /\ stopping' = 0 /\ UNCHANGED child
       ELSE /\ child' = IF p \in known THEN [child EXCEPT ![p] = "exited"] ELSE child
            /\ stopping' = stopping + 1 /\ UNCHANGED at
    /\ UNCHANGED <<args, taken, next, known, signals>>

Exit ==
    /\ stopping = 5
    /\ at' = "stopped" /\ stopping' = 0
    /\ UNCHANGED <<args, taken, next, child, known, signals>>

\* A service ends by itself: it crashed, or cannot bind its port.
ChildExits(p) ==
    /\ child[p] = "running"
    /\ child' = [child EXCEPT ![p] = "exited"]
    /\ UNCHANGED <<args, taken, at, next, known, stopping, signals>>

Body == CheckPorts \/ KillOnPorts \/ Refuse \/ SkipPhoenix \/ Popen \/ StartFails
        \/ Record \/ Settle \/ Wait \/ Finish
Handler == StopNext \/ Exit

Next == Body \/ Handler \/ Signal \/ \E p \in Services : ChildExits(p)

Spec == Init /\ [][Next]_launcherVars

\* The launcher's only thread goes on; its children and its user need not.
Fairness == WF_launcherVars(Body \/ Handler)

FairSpec == Spec /\ Fairness

-----------------------------------------------------------------------------
\* The first n services of the plan.
Earlier(n) == {Plan[i] : i \in 1..n}

\* Which recorded services the launcher leaves running, however it ends: after a signal
\* none that comes before the first one it had already waited for; when a service
\* could not be started, only those before it in the plan, which nobody stops; when the
\* client and the server ended, Phoenix alone.  And a process that runs unrecorded, which no
\* handler can stop, is the one that was being started when the signal came.
LeavesRunning ==
    /\ \A i \in 1..4 :
           LET p == StopOrder[i] IN
           p \in known /\ child[p] = "running" =>
               /\ at \notin {"stopped", "refused"}
               /\ at = "raised" => \E j \in 1..(i - 1) : child[StopOrder[j]] = "reaped"
               /\ at = "failed" => p \in Earlier(next - 1)
               /\ at = "done" => p = "phoenix"
    /\ \A p \in Services \ known :
           child[p] = "running" => at \in {"started", "stopped", "raised"} /\ p = Plan[next]

\* A signal ends the launcher, and so does the end of the client and the server.
LauncherEnds ==
    /\ signals > 0 ~> Over
    /\ (at = "wait" /\ \A p \in known \ {"phoenix"} : child[p] # "running") ~> Over

-----------------------------------------------------------------------------
(* What LeavesRunning rests on: an invariant that every step keeps.         *)

\* The services are started in the order of Plan.
PlanInv ==
    /\ at \in {"check", "ask"} => next = 1
    /\ at \in {"start", "started", "settle"} => next <= Len(Plan)

\* A signal handler runs only while the launcher does, and what it passed runs no more.
PassedInv ==
    /\ Over => stopping = 0
    /\ \A i \in 1..4 : i < stopping /\ StopOrder[i] \in known => child[StopOrder[i]] # "running"

\* What was waited for runs no more.
WaitedInv ==
    \A i \in 1..3 : at = "wait" /\ i < next /\ WaitOrder[i] \in known =>
                      child[WaitOrder[i]] # "running"

\* Services are recorded in the order of the plan.
RecordedInv ==
    /\ at \in {"check", "ask", "refused"} => known = {}
    /\ at \in {"start", "started", "failed"} => known \subseteq Earlier(next - 1)
    /\ at = "settle" => known \subseteq Earlier(next)

LaunchInv == TypeOK /\ PlanInv /\ PassedInv /\ WaitedInv /\ RecordedInv /\ LeavesRunning
=============================================================================
