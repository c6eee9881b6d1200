---------------------------- MODULE AgentService ----------------------------
(***************************************************************************)
(* What a chat session promises the rest of the backend, without threads,  *)
(* locks or time: a session's agent comes up at most once, never comes up  *)
(* after it failed to, and is retired at most once; a call is served only  *)
(* by an agent that came up, and refused otherwise.                        *)
(* SessionLifecycle implements this specification.                         *)
(***************************************************************************)
CONSTANTS Sessions,     \* session ids
          Calls         \* chat calls, one per WebSocket connection at a time

VARIABLES agent,        \* agent[s]: what has become of the agent session of s
          call          \* call[c]: the session the call waits for or runs on

svars == <<agent, call>>

AgentStates == {"none", "up", "down", "broken"}

\* A call is idle, or waits for the agent of a session, or runs on it.
Idle       == [at |-> "idle"]
Waiting(s) == [at |-> "waiting", on |-> s]
Running(s) == [at |-> "running", on |-> s]
CallStates == {Idle} \cup {Waiting(s) : s \in Sessions} \cup {Running(s) : s \in Sessions}

SInit == /\ agent = [s \in Sessions |-> "none"]
         /\ call = [c \in Calls |-> Idle]

\* The agent session is created, once.
Provide(s) == /\ agent[s] = "none"
              /\ agent' = [agent EXCEPT ![s] = "up"]
              /\ UNCHANGED call

\* Creating it failed, and the failure is remembered.
Break(s) == /\ agent[s] = "none"
            /\ agent' = [agent EXCEPT ![s] = "broken"]
            /\ UNCHANGED call

\* Sessions are torn down, several of them when the cleanup loop sweeps.
Retire(S) == /\ \A s \in S : agent[s] = "up"
             /\ agent' = [s \in Sessions |-> IF s \in S THEN "down" ELSE agent[s]]
             /\ UNCHANGED call

Ask(c) == /\ call[c] = Idle
          /\ \E s \in Sessions : call' = [call EXCEPT ![c] = Waiting(s)]
          /\ UNCHANGED agent

\* Only an agent that came up serves. It may have been retired since: nothing
\* in the code waits for the calls of a session before it is destroyed.
Serve(c) == /\ \E s \in Sessions : /\ call[c] = Waiting(s)
                                   /\ agent[s] \in {"up", "down"}
                                   /\ call' = [call EXCEPT ![c] = Running(s)]
            /\ UNCHANGED agent

\* A call ends by its answer, by an error of the agent or by being refused.
Finish(c) == /\ call[c] # Idle
             /\ call' = [call EXCEPT ![c] = Idle]
             /\ UNCHANGED agent

SNext == \/ \E s \in Sessions : Provide(s) \/ Break(s)
         \/ \E S \in SUBSET Sessions : Retire(S)
         \/ \E c \in Calls : Ask(c) \/ Serve(c) \/ Finish(c)

SSpec == SInit /\ [][SNext]_svars
=============================================================================
