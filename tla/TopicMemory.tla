------------------------------ MODULE TopicMemory -----------------------------
(***************************************************************************)
(* The memory of the kwik agents: CommitToMemory, ListTopics and            *)
(* RecallMemory keep facts by topic in the sly_data of a conversation and   *)
(* in one file that all conversations of the server share.                  *)
(* A tool does not await anything: only a crash comes between its steps.    *)
(***************************************************************************)
EXTENDS Naturals, FiniteSets, TLC

CONSTANTS Conversations, Topics,
          MaxFacts    \* bound: facts committed

VARIABLES
    topicFile,    \* topics with their facts, in order; <<>> for an empty file
    memory,       \* TopicMemory in each conversation's sly_data
    facts,        \* number of facts committed
    since,        \* facts that others put into the file, some of them once more, since
                  \* the conversation last loaded
    forgotten     \* facts overwritten by a conversation that had not seen them,
                  \* or lost with the file

memoryVars == <<topicFile, memory, facts, since, forgotten>>

Fact   == 1..MaxFacts
Memory == UNION {[T -> SUBSET Fact] : T \in SUBSET Topics}

TypeOK ==
    /\ topicFile \in Memory /\ memory \in [Conversations -> Memory]
    /\ facts \in 0..MaxFacts
    /\ since \in [Conversations -> SUBSET Fact] /\ forgotten \subseteq Fact

Init ==
    /\ topicFile = <<>>
    /\ memory = [c \in Conversations |-> <<>>]
    /\ facts = 0
    /\ since = [c \in Conversations |-> {}] /\ forgotten = {}

-----------------------------------------------------------------------------
Known(m) == UNION {m[t] : t \in DOMAIN m}

\* A memory that is empty, or not in sly_data yet, is read from the file.
Loaded(c) == IF memory[c] = <<>> THEN topicFile ELSE memory[c]
Unseen(c) == IF memory[c] = <<>> THEN {} ELSE since[c]

\* Mutant of Add: a new fact replaces those of its topic.
AddReplaces(m, t, f) == (t :> {f}) @@ m

\* Facts are added to their topic, below the earlier ones.
Add(m, t, f) ==
    [u \in DOMAIN m \cup {t} |-> IF u # t THEN m[u]
                                ELSE (IF t \in DOMAIN m THEN m[t] ELSE {}) \cup {f}]

\* The whole memory is written over the file.
Commit(c, t) ==
    /\ facts < MaxFacts
    /\ LET f == facts + 1
           m == Add(Loaded(c), t, f)
       IN /\ facts' = f
          /\ topicFile' = m
          /\ memory' = [memory EXCEPT ![c] = m]
          /\ since' = [d \in Conversations |->
                          IF d = c THEN Unseen(c)
                          ELSE since[d] \cup (Known(m) \ Known(topicFile))]
          /\ forgotten' = forgotten \cup Unseen(c)

ListTopics(c) ==
    /\ memory' = [memory EXCEPT ![c] = Loaded(c)]
    /\ since' = [since EXCEPT ![c] = Unseen(c)]
    /\ UNCHANGED <<topicFile, facts, forgotten>>

\* Reads sly_data alone and writes back what it read.
Recall(c) == memory[c] # <<>> /\ UNCHANGED memoryVars

\* A conversation ends; another begins in its place.
EndConversation(c) ==
    /\ memory' = [memory EXCEPT ![c] = <<>>]
    /\ since' = [since EXCEPT ![c] = {}]
    /\ UNCHANGED <<topicFile, facts, forgotten>>

\* The server stops between opening the file, which empties it, and writing it.
CrashInCommit ==
    /\ topicFile' = <<>>
    /\ memory' = [c \in Conversations |-> <<>>]
    /\ since' = [c \in Conversations |-> {}]
    /\ forgotten' = 1..facts
    /\ UNCHANGED facts

Next == \/ \E c \in Conversations : \/ \E t \in Topics : Commit(c, t)
                                    \/ ListTopics(c) \/ Recall(c) \/ EndConversation(c)
        \/ CrashInCommit

Spec == Init /\ [][Next]_memoryVars

-----------------------------------------------------------------------------
\* The file has every fact but those that a conversation overwrote that had loaded
\* its memory before they were there, or that went with the file; and a conversation's
\* memory has every fact of the file but those that others put there since: a fact
\* that was overwritten may come back from a memory that still has it.
OnlyStaleForgotten ==
    /\ 1..facts \subseteq Known(topicFile) \cup forgotten
    /\ \A c \in Conversations :
           memory[c] # <<>> => Known(topicFile) \subseteq Known(memory[c]) \cup since[c]
=============================================================================
