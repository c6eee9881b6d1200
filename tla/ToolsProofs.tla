------------------------------ MODULE ToolsProofs ------------------------------
(***************************************************************************)
(* Proofs about the programs beside the backend in Periphery, for any       *)
(* conversations, workers, files, streams and bounds, and with them about   *)
(* Periphery itself: in each of its behaviours one component is at work and *)
(* the others stay as they began.                                           *)
(***************************************************************************)
EXTENDS BackendProofs

-----------------------------------------------------------------------------
(* TopicMemory                                                             *)

\* Adding a fact keeps those that were known.
LEMMA AddKnows ==
  ASSUME NEW m \in Memory!Memory, NEW t \in Topics, NEW f \in Memory!Fact
  PROVE  /\ Memory!Add(m, t, f) \in Memory!Memory
         /\ Memory!Known(Memory!Add(m, t, f)) = Memory!Known(m) \cup {f}
         /\ Memory!Add(m, t, f) # <<>>
  <1> DEFINE a == Memory!Add(m, t, f)
             old == IF t \in DOMAIN m THEN m[t] ELSE {}
  <1>0. PICK T \in SUBSET Topics : m \in [T -> SUBSET Memory!Fact]
    BY DEF Memory!Memory
  <1>1. a = [u \in T \cup {t} |-> IF u # t THEN m[u] ELSE old \cup {f}]
    BY <1>0 DEF Memory!Add
  <1>2. old \cup {f} \in SUBSET Memory!Fact
    BY <1>0
  <1>3. a \in [T \cup {t} -> SUBSET Memory!Fact]
    BY <1>0, <1>1, <1>2
  <1>4. a \in Memory!Memory
    BY <1>3 DEF Memory!Memory
  <1>5. DOMAIN a = T \cup {t} /\ a[t] = old \cup {f} /\ \A u \in T \ {t} : a[u] = m[u]
    BY <1>1
  <1>6. /\ \A x : x \in Memory!Known(a) <=> \E u \in T \cup {t} : x \in a[u]
        /\ \A x : x \in Memory!Known(m) <=> \E u \in T : x \in m[u]
    BY <1>0, <1>5 DEF Memory!Known
  <1>7. \A x : x \in old \cup {f} <=> x = f \/ (t \in T /\ x \in m[t])
    BY <1>0
  <1> HIDE DEF a, old
  <1>8. a # <<>>
    BY <1>5
  <1>9. \A x : x \in Memory!Known(a) <=> x \in Memory!Known(m) \cup {f}
    BY <1>5, <1>6, <1>7
  <1>10. Memory!Known(a) = Memory!Known(m) \cup {f}
    BY <1>9
  <1> QED
    BY <1>4, <1>8, <1>10 DEF a

LEMMA EmptyMemory == <<>> \in Memory!Memory /\ Memory!Known(<<>>) = {}
  <1>1. <<>> \in [{} -> SUBSET Memory!Fact]
    OBVIOUS
  <1> QED
    BY <1>1 DEF Memory!Memory, Memory!Known

LEMMA KnownFacts == ASSUME NEW m \in Memory!Memory PROVE Memory!Known(m) \subseteq Memory!Fact
  BY DEF Memory!Memory, Memory!Known

\* What a conversation works on knows every fact of the file but those it has not seen.
LEMMA LoadedKnows ==
  ASSUME Memory!TypeOK, Memory!OnlyStaleForgotten, NEW c \in Conversations
  PROVE  /\ Memory!Loaded(c) \in Memory!Memory
         /\ Memory!Unseen(c) \in SUBSET Memory!Fact
         /\ Memory!Known(topicFile) \subseteq Memory!Known(Memory!Loaded(c)) \cup Memory!Unseen(c)
  BY DEF Memory!TypeOK, Memory!OnlyStaleForgotten, Memory!Loaded, Memory!Unseen

\* No step of the memory disturbs either invariant.
LEMMA MemoryKept ==
  Memory!TypeOK /\ Memory!OnlyStaleForgotten /\ [Memory!Next]_memoryVars
      => Memory!TypeOK' /\ Memory!OnlyStaleForgotten'
  <1> SUFFICES ASSUME Memory!TypeOK, Memory!OnlyStaleForgotten, [Memory!Next]_memoryVars
               PROVE  Memory!TypeOK' /\ Memory!OnlyStaleForgotten'
    OBVIOUS
  <1> USE BoundsAssumption
  <1>1. ASSUME NEW c \in Conversations, NEW t \in Topics, Memory!Commit(c, t)
        PROVE  Memory!TypeOK' /\ Memory!OnlyStaleForgotten'
    <2> DEFINE f == facts + 1
               m == Memory!Add(Memory!Loaded(c), t, f)
    <2>1. f \in Memory!Fact /\ facts \in Nat /\ facts' = f /\ 1..f = 1..facts \cup {f}
      BY <1>1 DEF Memory!Commit, Memory!TypeOK, Memory!Fact
    <2>2. /\ topicFile' = m /\ memory' = [memory EXCEPT ![c] = m]
          /\ since' = [d \in Conversations |->
                          IF d = c THEN Memory!Unseen(c)
                          ELSE since[d] \cup (Memory!Known(m) \ Memory!Known(topicFile))]
          /\ forgotten' = forgotten \cup Memory!Unseen(c)
      BY <1>1 DEF Memory!Commit
    <2>3. Memory!Loaded(c) \in Memory!Memory /\ Memory!Unseen(c) \in SUBSET Memory!Fact
      BY LoadedKnows
    <2> HIDE DEF f
    <2>4. /\ m \in Memory!Memory /\ m # <<>>
          /\ Memory!Known(m) = Memory!Known(Memory!Loaded(c)) \cup {f}
      BY <2>1, <2>3, AddKnows
    <2> HIDE DEF m
    <2>5. Memory!Known(m) \subseteq Memory!Fact
      BY <2>4, KnownFacts
    <2>6. Memory!TypeOK'
      <3>1. facts' \in 0..MaxFacts
        BY <2>1 DEF Memory!Fact
      <3>2. memory' \in [Conversations -> Memory!Memory]
        BY <2>2, <2>4 DEF Memory!TypeOK
      <3>3. since' \in [Conversations -> SUBSET Memory!Fact]
        BY <2>2, <2>3, <2>5 DEF Memory!TypeOK
      <3> QED
        BY <3>1, <3>2, <3>3, <2>2, <2>3, <2>4 DEF Memory!TypeOK
    <2>7. (1..facts \subseteq Memory!Known(topicFile) \cup forgotten)'
      <3>1. 1..facts \subseteq Memory!Known(topicFile) \cup forgotten
        BY DEF Memory!OnlyStaleForgotten
      <3>2. (1..facts)' = 1..facts \cup {f}
        BY <2>1
      <3>3. Memory!Known(topicFile)' = Memory!Known(m)
        BY <2>2 DEF Memory!Known
      <3> QED
        BY <3>1, <3>2, <3>3, <2>2, <2>4, LoadedKnows
    <2>8. ASSUME NEW d \in Conversations, memory'[d] # <<>>
          PROVE  (Memory!Known(topicFile) \subseteq Memory!Known(memory[d]) \cup since[d])'
      <3>1. Memory!Known(topicFile)' = Memory!Known(m)
        BY <2>2 DEF Memory!Known
      <3>2. CASE d = c
        <4>1. memory'[d] = m
          BY <2>2, <3>2 DEF Memory!TypeOK
        <4>2. Memory!Known(memory[d])' = Memory!Known(m)
          BY <4>1 DEF Memory!Known
        <4> QED
          BY <3>1, <4>2
      <3>3. CASE d # c
        <4>1. memory'[d] = memory[d] /\ since'[d] = since[d] \cup (Memory!Known(m) \ Memory!Known(topicFile))
          BY <2>2, <3>3 DEF Memory!TypeOK
        <4>2. Memory!Known(memory[d])' = Memory!Known(memory[d])
          BY <4>1 DEF Memory!Known
        <4>3. Memory!Known(topicFile) \subseteq Memory!Known(memory[d]) \cup since[d]
          BY <2>8, <4>1 DEF Memory!OnlyStaleForgotten
        <4> QED
          BY <3>1, <4>1, <4>2, <4>3
      <3> QED
        BY <3>2, <3>3
    <2> QED
      BY <2>6, <2>7, <2>8 DEF Memory!OnlyStaleForgotten
  <1>2. ASSUME NEW c \in Conversations, Memory!ListTopics(c)
        PROVE  Memory!TypeOK' /\ Memory!OnlyStaleForgotten'
    <2>1. /\ memory' = [memory EXCEPT ![c] = Memory!Loaded(c)]
          /\ since' = [since EXCEPT ![c] = Memory!Unseen(c)]
          /\ topicFile' = topicFile /\ facts' = facts /\ forgotten' = forgotten
      BY <1>2 DEF Memory!ListTopics
    <2>2. Memory!TypeOK'
      BY <2>1, LoadedKnows DEF Memory!TypeOK
    <2>3. ASSUME NEW d \in Conversations, memory'[d] # <<>>
          PROVE  Memory!Known(topicFile) \subseteq Memory!Known(memory'[d]) \cup since'[d]
      BY <2>1, <2>3, LoadedKnows DEF Memory!TypeOK, Memory!OnlyStaleForgotten
    <2>4. (1..facts)' \subseteq Memory!Known(topicFile)' \cup forgotten'
      BY <2>1 DEF Memory!OnlyStaleForgotten, Memory!Known
    <2>5. Memory!Known(topicFile)' = Memory!Known(topicFile)
      BY <2>1 DEF Memory!Known
    <2>6. \A d \in Conversations : Memory!Known(memory[d])' = Memory!Known(memory'[d])
      BY DEF Memory!Known
    <2>7. \A d \in Conversations :
             memory'[d] # <<>> => Memory!Known(topicFile)' \subseteq Memory!Known(memory[d])' \cup since'[d]
      BY <2>3, <2>5, <2>6
    <2> QED
      BY <2>2, <2>4, <2>7 DEF Memory!OnlyStaleForgotten
  <1>3. ASSUME NEW c \in Conversations, Memory!EndConversation(c)
        PROVE  Memory!TypeOK' /\ Memory!OnlyStaleForgotten'
    <2>1. Memory!TypeOK'
      BY <1>3, EmptyMemory DEF Memory!EndConversation, Memory!TypeOK
    <2>2. topicFile' = topicFile /\ facts' = facts /\ forgotten' = forgotten
      BY <1>3 DEF Memory!EndConversation
    <2>3. ASSUME NEW d \in Conversations, memory'[d] # <<>>
          PROVE  Memory!Known(topicFile) \subseteq Memory!Known(memory'[d]) \cup since'[d]
      <3>1. memory'[d] = memory[d] /\ since'[d] = since[d]
        BY <1>3, <2>3 DEF Memory!EndConversation, Memory!TypeOK
      <3> QED
        BY <2>3, <3>1 DEF Memory!OnlyStaleForgotten
    <2> QED
      BY <2>1, <2>2, <2>3 DEF Memory!OnlyStaleForgotten, Memory!Known
  <1>4. CASE Memory!CrashInCommit
    <2>1. Memory!TypeOK'
      <3>1. topicFile' \in Memory!Memory /\ memory' \in [Conversations -> Memory!Memory]
        BY <1>4, EmptyMemory DEF Memory!CrashInCommit
      <3>2. facts' = facts /\ since' \in [Conversations -> SUBSET Memory!Fact]
        BY <1>4 DEF Memory!CrashInCommit
      <3>3. facts \in 0..MaxFacts /\ MaxFacts \in Nat
        BY BoundsAssumption DEF Memory!TypeOK
      <3>4. forgotten' \subseteq Memory!Fact
        BY <1>4, <3>3 DEF Memory!CrashInCommit, Memory!Fact
      <3> QED
        BY <3>1, <3>2, <3>3, <3>4 DEF Memory!TypeOK
    <2> QED
      BY <1>4, <2>1 DEF Memory!CrashInCommit, Memory!OnlyStaleForgotten
  <1>5. CASE UNCHANGED memoryVars
    <2>1. UNCHANGED <<topicFile, memory, facts, since, forgotten>>
      BY <1>5 DEF memoryVars
    <2>2. Memory!TypeOK'
      BY <2>1 DEF Memory!TypeOK
    <2>3. /\ Memory!Known(topicFile)' = Memory!Known(topicFile)
          /\ \A d \in Conversations : Memory!Known(memory[d])' = Memory!Known(memory[d])
      BY <2>1 DEF Memory!Known
    <2>4. Memory!OnlyStaleForgotten'
      BY <2>1, <2>3 DEF Memory!OnlyStaleForgotten
    <2> QED
      BY <2>2, <2>4
  <1>6. ASSUME NEW c \in Conversations, Memory!Recall(c) PROVE UNCHANGED memoryVars
    BY <1>6 DEF Memory!Recall, Memory!memoryVars, memoryVars
  <1> QED
    BY <1>1, <1>2, <1>3, <1>4, <1>5, <1>6 DEF Memory!Next

LEMMA MemoryBegins == Memory!Init => Memory!TypeOK /\ Memory!OnlyStaleForgotten
  <1> SUFFICES ASSUME Memory!Init PROVE Memory!TypeOK /\ Memory!OnlyStaleForgotten
    OBVIOUS
  <1>1. Memory!TypeOK
    BY EmptyMemory, BoundsAssumption DEF Memory!Init, Memory!TypeOK
  <1>2. 1..facts = {}
    BY DEF Memory!Init
  <1>3. \A c \in Conversations : memory[c] = <<>>
    BY DEF Memory!Init
  <1> QED
    BY <1>1, <1>2, <1>3 DEF Memory!OnlyStaleForgotten

LEMMA MemorySteps == [Next]_vars => [Memory!Next]_memoryVars
  BY DEF Next, JwksStep, BoardStep, AuthStep, DrawerStep, BridgeStep, DesignStep, SlackStep,
         MemoryStep, VectorsStep, NewsStep, SettingsStep, FeedbackStep, BlocksStep, Still, vars

\* No fact that was committed is missing from the topic file unless a conversation that
\* had loaded its memory before wrote over it, or the file was lost
\* (CommitToMemory.invoke and TopicMemory of the kwik agents).
THEOREM OnlyStaleForgets == Spec => []OnlyStaleForgotten
  <1>1. Init => Memory!TypeOK /\ Memory!OnlyStaleForgotten
    BY MemoryBegins DEF Init
  <1>2. Memory!TypeOK /\ Memory!OnlyStaleForgotten /\ [Next]_vars
          => Memory!TypeOK' /\ Memory!OnlyStaleForgotten'
    BY MemorySteps, MemoryKept
  <1>3. Memory!OnlyStaleForgotten => OnlyStaleForgotten
    BY DEF OnlyStaleForgotten
  <1> QED
    BY <1>1, <1>2, <1>3, PTL DEF Spec

-----------------------------------------------------------------------------
(* VectorStores                                                            *)

\* What a step does to the call that takes it leaves all others alone.
LEMMA CallChanges ==
  ASSUME Vectors!TypeOK, NEW c \in Calls, NEW k \in Vectors!Call, call' = [call EXCEPT ![c] = k]
  PROVE  /\ call' \in [Calls -> Vectors!Call] /\ call'[c] = k
         /\ \A d \in Calls \ {c} : call'[d] = call[d]
  BY DEF Vectors!TypeOK

LEMMA CallFields ==
  ASSUME Vectors!TypeOK, NEW c \in Calls
  PROVE  /\ call[c] \in Vectors!Call
         /\ call[c] = [pc |-> call[c].pc, place |-> call[c].place, urls |-> call[c].urls,
                       save |-> call[c].save, found |-> call[c].found, holds |-> call[c].holds]
  BY DEF Vectors!TypeOK, Vectors!Call

\* The steps that change some fields of a call.
LEMMA CallGoes ==
  ASSUME NEW k \in Vectors!Call, NEW a
  PROVE  [k EXCEPT !.pc = a] = [pc |-> a, place |-> k.place, urls |-> k.urls, save |-> k.save,
                                found |-> k.found, holds |-> k.holds]
  BY DEF Vectors!Call

LEMMA CallExcept ==
  ASSUME NEW k \in Vectors!Call, NEW a, NEW b
  PROVE  /\ [k EXCEPT !.pc = a, !.holds = b] =
                [pc |-> a, place |-> k.place, urls |-> k.urls, save |-> k.save,
                 found |-> k.found, holds |-> b]
         /\ [k EXCEPT !.holds = b, !.pc = a] =
                [pc |-> a, place |-> k.place, urls |-> k.urls, save |-> k.save,
                 found |-> k.found, holds |-> b]
         /\ [k EXCEPT !.pc = a, !.save = b] =
                [pc |-> a, place |-> k.place, urls |-> k.urls, save |-> b,
                 found |-> k.found, holds |-> k.holds]
  <1> DEFINE m == [pc |-> a, place |-> k.place, urls |-> k.urls, save |-> k.save,
                   found |-> k.found, holds |-> k.holds]
             n == [pc |-> k.pc, place |-> k.place, urls |-> k.urls, save |-> k.save,
                   found |-> k.found, holds |-> b]
  <1>1. /\ [m EXCEPT !.holds = b] = [pc |-> a, place |-> k.place, urls |-> k.urls, save |-> k.save,
                                     found |-> k.found, holds |-> b]
        /\ [m EXCEPT !.save = b] = [pc |-> a, place |-> k.place, urls |-> k.urls, save |-> b,
                                    found |-> k.found, holds |-> k.holds]
        /\ [n EXCEPT !.pc = a] = [pc |-> a, place |-> k.place, urls |-> k.urls, save |-> k.save,
                                  found |-> k.found, holds |-> b]
    OBVIOUS
  <1>2. [k EXCEPT !.pc = a] = m /\ [k EXCEPT !.holds = b] = n
    BY DEF Vectors!Call
  <1>3. /\ [k EXCEPT !.pc = a, !.holds = b] = [[k EXCEPT !.pc = a] EXCEPT !.holds = b]
        /\ [k EXCEPT !.holds = b, !.pc = a] = [[k EXCEPT !.holds = b] EXCEPT !.pc = a]
        /\ [k EXCEPT !.pc = a, !.save = b] = [[k EXCEPT !.pc = a] EXCEPT !.save = b]
    OBVIOUS
  <1> QED
    BY <1>1, <1>2, <1>3

LEMMA StoreFields ==
  ASSUME Vectors!TypeOK, NEW p \in Vectors!Places
  PROVE  vectors[p] = [is |-> vectors[p].is, of |-> vectors[p].of] /\ vectors[p].of \in SUBSET Urls
  BY DEF Vectors!TypeOK, Vectors!Absent, Vectors!Cut, Vectors!There

\* A call that is over is nowhere and has nothing.
LEMMA IdleCall == Vectors!Idle \in Vectors!Call
  BY DEF Vectors!Idle, Vectors!Call, Vectors!States

LEMMA RagParts ==
  ASSUME Vectors!RagInv
  PROVE  /\ Vectors!TypeOK /\ Vectors!CallsInv /\ Vectors!HoldersHurt /\ Vectors!FilesHurt
         /\ Vectors!OfOneCall /\ Vectors!OneOwner /\ Vectors!OwnedHolds /\ Vectors!FilledSoon
         /\ Vectors!EmptyWhy /\ Vectors!TableThere /\ Vectors!MeetInv /\ Vectors!AnswersSourced
  BY DEF Vectors!RagInv, Vectors!StoresInv

\* What a step of a call owes the others that leaves the tables as they are: a call that
\* stops filling a table has hurt it, and one that goes to a place has met whoever is there.
LEMMA RagKept ==
  ASSUME Vectors!RagInv, NEW c \in Calls, NEW k \in Vectors!Call, call' = [call EXCEPT ![c] = k],
         Vectors!Proper(k),
         vectors' \in [Vectors!Places -> {Vectors!Absent, Vectors!Cut}
                                            \cup {Vectors!There(u) : u \in SUBSET Urls}],
         \A t \in Tables : vectors'[t] = vectors[t], Vectors!FilesHurt', Vectors!OfOneCall',
         hurt \subseteq hurt', hurt' \subseteq Vectors!Places,
         met \ {c} \subseteq met', met' \subseteq Calls, crashes' = crashes,
         k.pc \in {"insert", "save"} \/ (k.pc = "query" /\ k.place \notin Tables) =>
             (k.holds = {} /\ k.place # NoPath => k.place \in hurt'),
         k.pc = "answered" /\ k.holds = {} /\ k.place # NoPath =>
             k.place \in hurt' \/ (k.found /\ k.place \in Tables /\ c \in met'),
         \A d \in Calls \ {c} : {k.pc, call[d].pc} \subseteq Vectors!Building
             /\ k.place = call[d].place /\ k.place # NoPath => {c, d} \subseteq met',
         k.place \in Tables /\ ~k.found /\ k.pc \in {"documents", "insert", "query"} =>
             /\ Vectors!Owns(c) /\ k.place = call[c].place /\ k.urls = call[c].urls
             /\ k.pc # "query" => Vectors!Fills(c),
         Vectors!Fills(c) => \/ call[c].place \in hurt'
                             \/ k.place = call[c].place /\ ~k.found /\ k.pc \in {"documents", "insert"},
         k.pc = "query" /\ k.place \in Tables => vectors[k.place].is = "there"
  PROVE  Vectors!RagInv'
  <1> USE PlacesAssumption
  <1>1. /\ call' \in [Calls -> Vectors!Call] /\ call'[c] = k
        /\ \A d \in Calls \ {c} : call'[d] = call[d]
    BY RagParts, CallChanges
  <1>2. \A t \in Tables : t \in Vectors!Places /\ vectors'[t] = vectors[t]
    BY DEF Vectors!Places
  <1>3. Vectors!TypeOK'
    BY <1>1, <1>2, RagParts DEF Vectors!TypeOK, Vectors!Places
  <1>4. Vectors!CallsInv'
    BY <1>1, RagParts DEF Vectors!CallsInv, Vectors!Proper
  <1>5. Vectors!HoldersHurt'
    BY <1>1, RagParts DEF Vectors!HoldersHurt, Vectors!Holding
  <1>6. \A d \in Calls : Vectors!Owns(d)' => /\ Vectors!Owns(d) /\ call'[d].place = call[d].place
                                             /\ call'[d].urls = call[d].urls
                                             /\ Vectors!Fills(d)' => Vectors!Fills(d)
    BY <1>1 DEF Vectors!Owns, Vectors!Fills
  <1>7. Vectors!OneOwner' /\ Vectors!OwnedHolds' /\ Vectors!FilledSoon'
    <2>1. Vectors!OneOwner'
      BY <1>6, RagParts DEF Vectors!OneOwner, Vectors!Owns
    <2>2. Vectors!OwnedHolds'
      <3>1. ASSUME NEW d \in Calls, Vectors!Owns(d)'
            PROVE  vectors'[call'[d].place].of \subseteq call'[d].urls
        <4>1. /\ Vectors!Owns(d) /\ call'[d].place = call[d].place /\ call'[d].urls = call[d].urls
              /\ call[d].place \in Tables
          BY <1>6, <3>1 DEF Vectors!Owns
        <4> QED
          BY <1>2, <4>1, RagParts DEF Vectors!OwnedHolds
      <3> QED
        BY <3>1 DEF Vectors!OwnedHolds
    <2>3. Vectors!FilledSoon'
      <3>1. ASSUME NEW d \in Calls, Vectors!Fills(d)'
            PROVE  vectors'[call'[d].place].of = {}
        <4>1. /\ Vectors!Fills(d) /\ call'[d].place = call[d].place /\ call[d].place \in Tables
          BY <1>6, <3>1 DEF Vectors!Owns, Vectors!Fills
        <4> QED
          BY <1>2, <4>1, RagParts DEF Vectors!FilledSoon
      <3> QED
        BY <3>1 DEF Vectors!FilledSoon
    <2> QED
      BY <2>1, <2>2, <2>3
  <1>8. ASSUME NEW d \in Calls, Vectors!Fills(d)
        PROVE  \/ call[d].place \in hurt'
               \/ Vectors!Fills(d)' /\ call'[d].place = call[d].place
    <2>1. CASE d = c
      BY <1>1, <1>8, <2>1 DEF Vectors!Owns, Vectors!Fills
    <2>2. CASE d # c
      BY <1>1, <1>8, <2>2 DEF Vectors!Owns, Vectors!Fills
    <2> QED
      BY <2>1, <2>2
  <1>9. Vectors!EmptyWhy'
    BY <1>2, <1>8, RagParts DEF Vectors!EmptyWhy
  <1>10. Vectors!TableThere'
    BY <1>1, <1>2, <1>6, RagParts DEF Vectors!TableThere, Vectors!Owns
  <1>11. Vectors!MeetInv'
    BY <1>1, RagParts DEF Vectors!MeetInv
  <1>12. Vectors!AnswersSourced'
    BY <1>1, <1>3, <1>4, RagParts DEF Vectors!AnswersSourced, Vectors!CallsInv, Vectors!Proper,
                                    Vectors!FilesHurt, Vectors!TypeOK
  <1> QED
    BY <1>3, <1>4, <1>5, <1>7, <1>9, <1>10, <1>11, <1>12 DEF Vectors!RagInv, Vectors!StoresInv

\* What that asks of a call that writes nothing and stays where it is.
LEMMA StoresSame ==
  ASSUME Vectors!RagInv, vectors' = vectors, hurt \subseteq hurt', NEW c \in Calls
  PROVE  /\ vectors' \in [Vectors!Places -> {Vectors!Absent, Vectors!Cut}
                                              \cup {Vectors!There(u) : u \in SUBSET Urls}]
         /\ \A t \in Tables : vectors'[t] = vectors[t]
         /\ Vectors!FilesHurt' /\ Vectors!OfOneCall'
         /\ call[c].pc \in Vectors!Building =>
                \A d \in Calls \ {c} : call[d].pc \in Vectors!Building /\ call[c].place = call[d].place
                    /\ call[c].place # NoPath => {c, d} \subseteq met
         /\ hurt \subseteq Vectors!Places /\ met \subseteq Calls
  BY RagParts DEF Vectors!TypeOK, Vectors!FilesHurt, Vectors!OfOneCall, Vectors!MeetInv

\* A call that ends, having hurt its place if it was filling it, leaves nothing behind.
LEMMA RagEnds ==
  ASSUME Vectors!RagInv, NEW c \in Calls, Vectors!Ends(c), vectors' = vectors,
         hurt \subseteq hurt', hurt' \subseteq Vectors!Places, met' = met, crashes' = crashes,
         Vectors!Fills(c) => call[c].place \in hurt'
  PROVE  Vectors!RagInv'
  <1> DEFINE k == Vectors!Idle
  <1>1. k \in Vectors!Call /\ call' = [call EXCEPT ![c] = k]
    BY IdleCall DEF Vectors!Ends
  <1>2. /\ k.pc = "idle" /\ k.place = NoPath /\ k.holds = {} /\ k.urls = {}
        /\ ~k.save /\ ~k.found /\ k.pc \notin Vectors!Building
    BY DEF Vectors!Idle, Vectors!Building
  <1>3. Vectors!Proper(k)
    BY <1>2 DEF Vectors!Proper, Vectors!Single
  <1> HIDE DEF k
  <1> QED
    BY <1>1, <1>2, <1>3, StoresSame, RagKept

\* The database cannot be reached: the table is not touched.
LEMMA RagInitFails ==
  ASSUME Vectors!RagInv, NEW c \in Calls, Vectors!InitFails(c)
  PROVE  Vectors!RagInv'
  <1>1. /\ Vectors!Ends(c) /\ vectors' = vectors /\ hurt' = hurt /\ met' = met /\ crashes' = crashes
        /\ ~Vectors!Fills(c)
    BY DEF Vectors!InitFails, Vectors!Fills, Vectors!Owns
  <1> QED
    BY <1>1, RagEnds, RagParts DEF Vectors!TypeOK

\* A build that fails leaves its table as it is, and is known to have lost its documents.
LEMMA RagBuildFails ==
  ASSUME Vectors!RagInv, NEW c \in Calls, Vectors!BuildFails(c)
  PROVE  Vectors!RagInv'
  <1>1. /\ Vectors!Ends(c) /\ vectors' = vectors /\ met' = met /\ crashes' = crashes
        /\ hurt' = IF call[c].place = NoPath THEN hurt ELSE hurt \cup {call[c].place}
    BY DEF Vectors!BuildFails, Vectors!Hurts
  <1>2. call[c].place \in Vectors!Places \cup {NoPath}
    BY CallFields, RagParts DEF Vectors!Call
  <1>3. Vectors!Fills(c) => call[c].place # NoPath
    BY PlacesAssumption DEF Vectors!Fills, Vectors!Owns
  <1> QED
    BY <1>1, <1>2, <1>3, RagEnds, RagParts DEF Vectors!TypeOK

\* A file that is found ends the search; one that is not is built; one that is cut ends the call.
LEMMA RagLoad ==
  ASSUME Vectors!RagInv, NEW c \in Calls, Vectors!Load(c)
  PROVE  Vectors!RagInv'
  <1> USE PlacesAssumption
  <1>0. /\ call[c].pc = "load" /\ vectors' = vectors /\ hurt' = hurt /\ met' = met /\ crashes' = crashes
        /\ call[c] \in Vectors!Call /\ call[c].place \notin Tables /\ Vectors!Proper(call[c])
        /\ call[c].pc \in Vectors!Building
    BY CallFields, RagParts DEF Vectors!Load, Vectors!CallsInv, Vectors!Proper, Vectors!Building
  <1> DEFINE entry == IF call[c].place = NoPath THEN Vectors!Absent ELSE vectors[call[c].place]
  <1>1. CASE Vectors!goto(c, "documents")
    <2> DEFINE k == [pc |-> "documents", place |-> call[c].place, urls |-> call[c].urls,
                     save |-> call[c].save, found |-> call[c].found, holds |-> call[c].holds]
    <2>1. call' = [call EXCEPT ![c] = k] /\ k \in Vectors!Call
      BY <1>0, <1>1, CallGoes DEF Vectors!goto, Vectors!Call, Vectors!States, Vectors!Building
    <2>2. k.pc = "documents" /\ k.place = call[c].place /\ Vectors!Proper(k)
      BY <1>0 DEF Vectors!Proper
    <2>3. ~Vectors!Fills(c)
      BY <1>0 DEF Vectors!Fills, Vectors!Owns
    <2> HIDE DEF k
    <2>4. \A d \in Calls \ {c} : {k.pc, call[d].pc} \subseteq Vectors!Building
              /\ k.place = call[d].place /\ k.place # NoPath => {c, d} \subseteq met'
      BY <1>0, <2>2, StoresSame
    <2> QED
      BY <1>0, <2>1, <2>2, <2>3, <2>4, StoresSame, RagKept
  <1>2. CASE Vectors!Ends(c)
    BY <1>0, <1>2, RagEnds, StoresSame DEF Vectors!Fills, Vectors!Owns
  <1>3. CASE /\ entry.is = "there"
             /\ call' = [call EXCEPT ![c] = Vectors!Found(call[c].place, entry.of)]
    <2>0. /\ call[c].place \in Files
          /\ entry.of \in SUBSET Urls /\ Vectors!Single(entry.of)
          /\ entry.of = {} => call[c].place \in hurt
      <3>1. call[c].place # NoPath
        BY <1>3 DEF Vectors!Absent
      <3>2. call[c].place \in Files
        BY <3>1, <1>0 DEF Vectors!Call, Vectors!Places
      <3>3. entry = vectors[call[c].place] /\ call[c].place \in Vectors!Places
        BY <3>1, <3>2 DEF Vectors!Places
      <3>4. entry.of = {} => entry = Vectors!There({})
        BY <1>3, <3>3, RagParts, StoreFields DEF Vectors!There
      <3> QED
        BY <3>2, <3>3, <3>4, RagParts, StoreFields DEF Vectors!OfOneCall, Vectors!FilesHurt
    <2> DEFINE docs == entry.of
               k == Vectors!Found(call[c].place, docs)
    <2>1. call' = [call EXCEPT ![c] = k]
      BY <1>3
    <2>2. docs \in SUBSET Urls /\ Vectors!Single(docs) /\ (docs = {} => call[c].place \in hurt)
      BY <2>0
    <2> HIDE DEF docs, entry
    <2>3. /\ k.pc = "query" /\ k.place = call[c].place /\ k.found /\ k.holds = docs
          /\ ~k.save /\ k.urls = {}
      BY DEF Vectors!Found
    <2>4. k \in Vectors!Call /\ Vectors!Proper(k)
      BY <1>0, <2>2 DEF Vectors!Found, Vectors!Call, Vectors!States, Vectors!Building,
                        Vectors!Proper, Vectors!Single
    <2>5. ~Vectors!Fills(c)
      BY <1>0 DEF Vectors!Fills, Vectors!Owns
    <2> HIDE DEF k
    <2>6. \A d \in Calls \ {c} : {k.pc, call[d].pc} \subseteq Vectors!Building
              /\ k.place = call[d].place /\ k.place # NoPath => {c, d} \subseteq met'
      BY <1>0, <2>3, StoresSame
    <2> QED
      BY <1>0, <2>1, <2>2, <2>3, <2>4, <2>5, <2>6, StoresSame, RagKept
  <1> QED
    BY <1>1, <1>2, <1>3 DEF Vectors!Load

\* What cannot be loaded is skipped, possibly everything.
LEMMA RagLoadDocuments ==
  ASSUME Vectors!RagInv, NEW c \in Calls, Vectors!LoadDocuments(c)
  PROVE  Vectors!RagInv'
  <1> USE PlacesAssumption
  <1> DEFINE to == IF call[c].place \in Tables THEN "insert" ELSE "save"
  <1>1. /\ call[c].pc = "documents" /\ vectors' = vectors /\ met' = met /\ crashes' = crashes
        /\ call[c] \in Vectors!Call /\ Vectors!Proper(call[c])
        /\ call[c].pc \in Vectors!Building /\ call[c].urls # {}
    BY CallFields, RagParts DEF Vectors!LoadDocuments, Vectors!CallsInv, Vectors!Proper, Vectors!Building
  <1>2. to \in {"insert", "save"} /\ (call[c].place \in Tables <=> to = "insert")
    OBVIOUS
  <1>3. PICK docs \in {call[c].urls, {}} :
             /\ call' = [call EXCEPT ![c] = [call[c] EXCEPT !.holds = docs, !.pc = to]]
             /\ IF docs = {} THEN Vectors!Hurts(c) ELSE hurt' = hurt
    BY <1>1 DEF Vectors!LoadDocuments
  <1> HIDE DEF to
  <1> DEFINE k == [pc |-> to, place |-> call[c].place, urls |-> call[c].urls,
                   save |-> call[c].save, found |-> call[c].found, holds |-> docs]
  <1>4. call' = [call EXCEPT ![c] = k]
    BY <1>1, <1>3, CallExcept
  <1>5. docs \in SUBSET Urls /\ docs \subseteq call[c].urls
    BY <1>1 DEF Vectors!Call
  <1>6. k \in Vectors!Call /\ Vectors!Proper(k)
    <2>1. k \in Vectors!Call
      BY <1>1, <1>2, <1>5 DEF Vectors!Call, Vectors!States, Vectors!Building
    <2>2. Vectors!Single(docs)
      BY <1>1, <1>5 DEF Vectors!Proper, Vectors!Single
    <2>3. ~call[c].found /\ (call[c].save => call[c].place \in Files)
      BY <1>1 DEF Vectors!Proper
    <2> QED
      BY <1>1, <1>2, <1>5, <2>1, <2>2, <2>3 DEF Vectors!Proper
  <1>7. /\ hurt \subseteq hurt' /\ hurt' \subseteq Vectors!Places
        /\ docs = {} /\ call[c].place # NoPath => call[c].place \in hurt'
    BY <1>1, <1>3, RagParts DEF Vectors!Hurts, Vectors!Call, Vectors!TypeOK
  <1>8. /\ k.pc = to /\ k.place = call[c].place /\ k.urls = call[c].urls /\ k.found = call[c].found
        /\ k.holds = docs
    OBVIOUS
  <1>9. call[c].place \in Tables /\ ~call[c].found => Vectors!Owns(c) /\ Vectors!Fills(c)
    BY <1>1 DEF Vectors!Owns, Vectors!Fills
  <1>10. Vectors!Fills(c) => call[c].place \in Tables /\ ~call[c].found
    BY DEF Vectors!Owns, Vectors!Fills
  <1> HIDE DEF k
  <1>11. \A d \in Calls \ {c} : {k.pc, call[d].pc} \subseteq Vectors!Building
              /\ k.place = call[d].place /\ k.place # NoPath => {c, d} \subseteq met'
    BY <1>1, <1>7, <1>8, StoresSame
  <1> QED
    BY <1>1, <1>2, <1>4, <1>6, <1>7, <1>8, <1>9, <1>10, <1>11, StoresSame, RagKept

\* A table is read when the query comes, any other store is the one held.
LEMMA RagQuery ==
  ASSUME Vectors!RagInv, NEW c \in Calls, Vectors!Query(c)
  PROVE  Vectors!RagInv'
  <1> USE PlacesAssumption
  <1> DEFINE docs == IF call[c].place \in Tables THEN vectors[call[c].place].of ELSE call[c].holds
             k == [pc |-> "answered", place |-> call[c].place, urls |-> call[c].urls,
                   save |-> call[c].save, found |-> call[c].found, holds |-> docs]
  <1>1. /\ call[c].pc = "query" /\ vectors' = vectors /\ hurt' = hurt /\ met' = met /\ crashes' = crashes
        /\ call' = [call EXCEPT ![c] = [call[c] EXCEPT !.pc = "answered", !.holds = docs]]
        /\ call[c] \in Vectors!Call /\ Vectors!Proper(call[c])
    BY CallFields, RagParts DEF Vectors!Query, Vectors!CallsInv
  <1>2. docs \in SUBSET Urls /\ Vectors!Single(docs)
    BY <1>1, RagParts, StoreFields DEF Vectors!Call, Vectors!OfOneCall, Vectors!Proper, Vectors!Places
  <1>3. call' = [call EXCEPT ![c] = k]
    <2> HIDE DEF docs
    <2>1. call[c] \in Vectors!Call
      BY <1>1
    <2>2. [call[c] EXCEPT !.pc = "answered", !.holds = docs] = k
      BY <2>1, CallExcept
    <2> QED
      BY <1>1, <2>2
  <1>4. /\ ~call[c].found => docs \subseteq call[c].urls
        /\ docs = {} /\ call[c].place # NoPath =>
              call[c].place \in hurt \/ (call[c].found /\ call[c].place \in Tables /\ c \in met)
    <2>1. CASE call[c].place \notin Tables
      BY <1>1, <2>1, RagParts DEF Vectors!Proper, Vectors!HoldersHurt, Vectors!Holding
    <2>2. CASE call[c].place \in Tables
      <3>1. ~call[c].found => Vectors!Owns(c)
        BY <1>1, <2>2 DEF Vectors!Owns
      <3>2. vectors[call[c].place].is = "there"
        BY <1>1, <2>2, RagParts DEF Vectors!TableThere
      <3>3. ASSUME docs = {}, call[c].place \notin hurt
            PROVE  call[c].found /\ c \in met
        <4>1. PICK d \in Calls : Vectors!Fills(d) /\ call[d].place = call[c].place
          BY <2>2, <3>2, <3>3, RagParts DEF Vectors!EmptyWhy
        <4>2. d # c /\ ~Vectors!Owns(c)
          BY <1>1, <4>1, RagParts DEF Vectors!Fills, Vectors!OneOwner
        <4>3. {call[c].pc, call[d].pc} \subseteq Vectors!Building
          BY <1>1, <4>1 DEF Vectors!Fills, Vectors!Owns, Vectors!Building
        <4> QED
          BY <2>2, <3>1, <4>1, <4>2, <4>3, RagParts DEF Vectors!MeetInv
      <3> QED
        BY <2>2, <3>1, <3>3, RagParts DEF Vectors!OwnedHolds
    <2> QED
      BY <2>1, <2>2
  <1> HIDE DEF docs
  <1>5. k \in Vectors!Call /\ Vectors!Proper(k)
    BY <1>1, <1>2, <1>4 DEF Vectors!Call, Vectors!States, Vectors!Proper
  <1>6. /\ k.pc = "answered" /\ k.place = call[c].place /\ k.found = call[c].found /\ k.holds = docs
        /\ k.pc \notin Vectors!Building /\ ~Vectors!Fills(c)
    BY <1>1 DEF Vectors!Building, Vectors!Fills, Vectors!Owns
  <1> HIDE DEF k
  <1>7. /\ vectors' \in [Vectors!Places -> {Vectors!Absent, Vectors!Cut}
                                              \cup {Vectors!There(u) : u \in SUBSET Urls}]
        /\ \A t \in Tables : vectors'[t] = vectors[t]
        /\ Vectors!FilesHurt' /\ Vectors!OfOneCall'
        /\ hurt' \subseteq Vectors!Places /\ met' \subseteq Calls
    BY <1>1, StoresSame
  <1>8. \A d \in Calls \ {c} : ~({k.pc, call[d].pc} \subseteq Vectors!Building)
    BY <1>6
  <1>9. /\ k.holds = {} /\ k.place # NoPath =>
                k.place \in hurt' \/ (k.found /\ k.place \in Tables /\ c \in met')
        /\ k.pc \notin {"insert", "save", "query", "documents"}
        /\ hurt \subseteq hurt' /\ met \ {c} \subseteq met' /\ crashes' = crashes
    BY <1>1, <1>4, <1>6
  <1>10. call' = [call EXCEPT ![c] = k]
    BY <1>1, <1>3
  <1> QED
    BY <1>5, <1>6, <1>7, <1>8, <1>9, <1>10, RagKept

\* _save_vector_store: a file, and no table, is written whole, not at all, or in part.
LEMMA RagSave ==
  ASSUME Vectors!RagInv, NEW c \in Calls, Vectors!Save(c)
  PROVE  Vectors!RagInv'
  <1> USE PlacesAssumption
  <1> DEFINE p == call[c].place
             k == [pc |-> "query", place |-> p, urls |-> call[c].urls, save |-> FALSE,
                   found |-> call[c].found, holds |-> call[c].holds]
  <1>1. /\ call[c].pc = "save" /\ met' = met /\ crashes' = crashes
        /\ call' = [call EXCEPT ![c] = [call[c] EXCEPT !.pc = "query", !.save = FALSE]]
        /\ call[c] \in Vectors!Call /\ Vectors!Proper(call[c]) /\ call[c].pc \in Vectors!Building
        /\ p \notin Tables /\ ~call[c].found
    <2>1. /\ call[c].pc = "save" /\ met' = met /\ crashes' = crashes
          /\ call' = [call EXCEPT ![c] = [call[c] EXCEPT !.pc = "query", !.save = FALSE]]
      BY DEF Vectors!Save
    <2>2. call[c] \in Vectors!Call /\ Vectors!Proper(call[c])
      BY CallFields, RagParts DEF Vectors!CallsInv
    <2> QED
      BY <2>1, <2>2 DEF Vectors!Proper, Vectors!Building
  <1>2. call' = [call EXCEPT ![c] = k]
    BY <1>1, CallExcept
  <1>3. call[c].holds \in SUBSET Urls /\ Vectors!Single(call[c].holds)
        /\ (call[c].holds = {} /\ p # NoPath => p \in hurt)
    BY <1>1, RagParts DEF Vectors!Call, Vectors!Proper, Vectors!HoldersHurt, Vectors!Holding
  <1>4. /\ vectors' \in [Vectors!Places -> {Vectors!Absent, Vectors!Cut}
                                              \cup {Vectors!There(u) : u \in SUBSET Urls}]
        /\ \A t \in Tables : vectors'[t] = vectors[t]
        /\ Vectors!FilesHurt' /\ Vectors!OfOneCall'
        /\ hurt \subseteq hurt' /\ hurt' \subseteq Vectors!Places
    <2>1. CASE ~call[c].save
      BY <2>1, StoresSame DEF Vectors!Save
    <2>2. CASE call[c].save
      <3>1. p \in Files /\ p \in Vectors!Places /\ p # NoPath
        BY <1>1, <2>2 DEF Vectors!Proper, Vectors!Places
      <3>2. PICK left \in {Vectors!There(call[c].holds), Vectors!Cut, vectors[p]} :
               /\ vectors' = [vectors EXCEPT ![p] = left]
               /\ left # Vectors!There(call[c].holds) => Vectors!Hurts(c)
               /\ hurt' = hurt \/ Vectors!Hurts(c)
        BY <2>2 DEF Vectors!Save
      <3>3. /\ hurt \subseteq hurt' /\ hurt' \subseteq Vectors!Places
            /\ Vectors!Hurts(c) => p \in hurt'
        BY <3>1, <3>2, RagParts DEF Vectors!Hurts, Vectors!TypeOK
      <3>4. /\ left \in {Vectors!Absent, Vectors!Cut} \cup {Vectors!There(u) : u \in SUBSET Urls}
            /\ Vectors!Single(left.of)
        <4>1. vectors[p] \in {Vectors!Absent, Vectors!Cut} \cup {Vectors!There(u) : u \in SUBSET Urls}
          BY <3>1, RagParts DEF Vectors!TypeOK
        <4>2. Vectors!Single(vectors[p].of) /\ Vectors!Single(Vectors!Cut.of)
              /\ Vectors!Single(Vectors!There(call[c].holds).of)
          BY <1>3, <3>1, RagParts DEF Vectors!OfOneCall, Vectors!Single, Vectors!Cut, Vectors!There
        <4> QED
          BY <1>3, <3>2, <4>1, <4>2
      <3>5. left \in {Vectors!Cut, Vectors!There({})} => p \in hurt'
        <4>1. Vectors!There(call[c].holds) \in {Vectors!Cut, Vectors!There({})} => call[c].holds = {}
          BY DEF Vectors!There, Vectors!Cut
        <4> QED
          BY <1>3, <3>1, <3>2, <3>3, <4>1
      <3>6. /\ vectors'[p] = left
            /\ \A q \in Vectors!Places \ {p} : vectors'[q] = vectors[q]
            /\ vectors' \in [Vectors!Places -> {Vectors!Absent, Vectors!Cut}
                                                  \cup {Vectors!There(u) : u \in SUBSET Urls}]
        BY <3>1, <3>2, <3>4, RagParts DEF Vectors!TypeOK
      <3>7. Vectors!FilesHurt' /\ Vectors!OfOneCall'
        BY <3>3, <3>4, <3>5, <3>6, RagParts DEF Vectors!FilesHurt, Vectors!OfOneCall, Vectors!Places
      <3> QED
        BY <3>1, <3>3, <3>6, <3>7 DEF Vectors!Places
    <2> QED
      BY <2>1, <2>2
  <1>5. k \in Vectors!Call /\ Vectors!Proper(k)
    BY <1>1, <1>3 DEF Vectors!Call, Vectors!States, Vectors!Building, Vectors!Proper
  <1>6. /\ k.pc = "query" /\ k.place = call[c].place /\ k.found = call[c].found
        /\ k.holds = call[c].holds /\ ~Vectors!Fills(c)
    BY <1>1 DEF Vectors!Fills, Vectors!Owns
  <1> HIDE DEF k
  <1>7. \A d \in Calls \ {c} : {k.pc, call[d].pc} \subseteq Vectors!Building
              /\ k.place = call[d].place /\ k.place # NoPath => {c, d} \subseteq met'
    BY <1>1, <1>6, RagParts DEF Vectors!MeetInv
  <1>8. met' \subseteq Calls /\ met \ {c} \subseteq met'
    BY <1>1, RagParts DEF Vectors!TypeOK
  <1> QED
    BY <1>1, <1>2, <1>3, <1>4, <1>5, <1>6, <1>7, <1>8, RagKept

\* A call that comes has met all who are at its place.
LEMMA RagInvoke ==
  ASSUME Vectors!RagInv, NEW c \in Calls, Vectors!Invoke(c)
  PROVE  Vectors!RagInv'
  <1> USE PlacesAssumption
  <1>1. PICK place \in Vectors!Places \cup {NoPath}, u \in Urls, save \in BOOLEAN :
             /\ call' = [call EXCEPT ![c] =
                   [pc |-> IF place \in Tables THEN "init" ELSE "load", place |-> place, urls |-> {u},
                    save |-> save /\ place \in Files, found |-> FALSE, holds |-> {}]]
             /\ met' = IF \/ place = NoPath
                          \/ {d \in Calls \ {c} : /\ call[d].pc \in Vectors!Building
                                                  /\ call[d].place = place} = {}
                         THEN met \ {c}
                         ELSE met \cup {c} \cup {d \in Calls \ {c} : /\ call[d].pc \in Vectors!Building
                                                                     /\ call[d].place = place}
    BY DEF Vectors!Invoke
  <1> DEFINE to == IF place \in Tables THEN "init" ELSE "load"
             saves == save /\ place \in Files
             k == [pc |-> to, place |-> place, urls |-> {u}, save |-> saves, found |-> FALSE,
                   holds |-> {}]
  <1>2. call[c].pc \in {"idle", "answered"} /\ vectors' = vectors /\ hurt' = hurt /\ crashes' = crashes
    BY DEF Vectors!Invoke
  <1>3. call' = [call EXCEPT ![c] = k]
    BY <1>1
  <1>4. /\ saves \in BOOLEAN /\ (saves => place \in Files)
        /\ to \in {"init", "load"} /\ (place \in Tables <=> to = "init")
    OBVIOUS
  <1> HIDE DEF saves, to
  <1>5. k \in Vectors!Call /\ Vectors!Proper(k)
    BY <1>4 DEF Vectors!Call, Vectors!States, Vectors!Building, Vectors!Proper, Vectors!Single
  <1>6. k.pc = to /\ k.place = place /\ ~Vectors!Fills(c)
    BY <1>2 DEF Vectors!Fills, Vectors!Owns
  <1> HIDE DEF k
  <1>7. /\ met \ {c} \subseteq met' /\ met' \subseteq Calls
        /\ \A d \in Calls \ {c} : call[d].pc \in Vectors!Building /\ place = call[d].place
                                  /\ place # NoPath => {c, d} \subseteq met'
    BY <1>1, RagParts DEF Vectors!TypeOK
  <1> QED
    BY <1>2, <1>3, <1>4, <1>5, <1>6, <1>7, StoresSame, RagKept

\* The documents of a call are put into the table it owns, or a table is made: whoever
\* else has to do with that table found it.
LEMMA TableWritten ==
  ASSUME Vectors!RagInv, NEW c \in Calls, NEW k \in Vectors!Call, call' = [call EXCEPT ![c] = k],
         NEW docs \in SUBSET Urls, Vectors!Proper(k), k.place = call[c].place,
         k.urls = call[c].urls, ~k.found, k.place \in Tables,
         vectors' = [vectors EXCEPT ![k.place] = Vectors!There(docs)],
         hurt' = hurt, met' = met, crashes' = crashes,
         Vectors!Single(docs), docs \subseteq k.urls,
         \/ k.pc = "documents" /\ docs = {}
         \/ k.pc = "query" /\ (docs = {} => k.place \in hurt),
         call[c].pc \in Vectors!Building,
         \A d \in Calls \ {c} : Vectors!Owns(d) => call[d].place # k.place
  PROVE  Vectors!RagInv'
  <1> USE PlacesAssumption
  <1> DEFINE p == k.place
  <1>1. /\ call' \in [Calls -> Vectors!Call] /\ call'[c] = k
        /\ \A d \in Calls \ {c} : call'[d] = call[d]
    BY RagParts, CallChanges
  <1>2. /\ vectors' \in [Vectors!Places -> {Vectors!Absent, Vectors!Cut}
                                              \cup {Vectors!There(u) : u \in SUBSET Urls}]
        /\ vectors'[p] = Vectors!There(docs)
        /\ \A q \in Vectors!Places \ {p} : vectors'[q] = vectors[q]
        /\ p \in Vectors!Places
    BY RagParts DEF Vectors!TypeOK, Vectors!Places
  <1>3. vectors'[p].is = "there" /\ vectors'[p].of = docs /\ vectors'[p] # Vectors!Cut
    BY <1>2 DEF Vectors!There, Vectors!Cut
  <1>4. Vectors!TypeOK'
    BY <1>1, <1>2, <1>3, RagParts DEF Vectors!TypeOK
  <1>5. Vectors!CallsInv' /\ Vectors!HoldersHurt'
    BY <1>1, RagParts DEF Vectors!CallsInv, Vectors!Proper, Vectors!HoldersHurt, Vectors!Holding
  <1>6. Vectors!FilesHurt' /\ Vectors!OfOneCall'
    BY <1>2, <1>3, RagParts DEF Vectors!FilesHurt, Vectors!OfOneCall, Vectors!Places
  <1>7. \A d \in Calls \ {c} : Vectors!Owns(d)' => Vectors!Owns(d) /\ call[d].place # p
    BY <1>1 DEF Vectors!Owns
  <1>8. Vectors!OneOwner'
    BY <1>1, <1>7, RagParts DEF Vectors!OneOwner, Vectors!Owns
  <1>9. Vectors!OwnedHolds' /\ Vectors!FilledSoon'
    BY <1>1, <1>2, <1>3, <1>7, RagParts DEF Vectors!OwnedHolds, Vectors!FilledSoon, Vectors!Fills,
                                            Vectors!Owns, Vectors!Places
  <1>10. Vectors!EmptyWhy'
    <2>1. ASSUME NEW q \in Tables, q # p, vectors'[q].is = "there", vectors'[q].of = {}, q \notin hurt'
          PROVE  \E d \in Calls : Vectors!Fills(d)' /\ call'[d].place = q
      <3>1. PICK d \in Calls : Vectors!Fills(d) /\ call[d].place = q
        BY <1>2, <2>1, RagParts DEF Vectors!EmptyWhy, Vectors!Places
      <3> QED
        BY <1>1, <2>1, <3>1 DEF Vectors!Fills, Vectors!Owns
    <2>2. k.pc = "documents" => Vectors!Fills(c)' /\ call'[c].place = p
      BY <1>1 DEF Vectors!Fills, Vectors!Owns
    <2> QED
      BY <1>3, <2>1, <2>2 DEF Vectors!EmptyWhy
  <1>11. Vectors!TableThere'
    BY <1>1, <1>2, <1>3, RagParts DEF Vectors!TableThere, Vectors!Owns, Vectors!Places
  <1>12. Vectors!MeetInv'
    BY <1>1, RagParts DEF Vectors!MeetInv, Vectors!Building
  <1>13. Vectors!AnswersSourced'
    BY <1>1, <1>2, <1>3, RagParts DEF Vectors!AnswersSourced
  <1> QED
    BY <1>4, <1>5, <1>6, <1>8, <1>9, <1>10, <1>11, <1>12, <1>13 DEF Vectors!RagInv, Vectors!StoresInv

\* A table that is missing is made, and is its maker's to fill; one that is there is taken.
LEMMA RagInitTable ==
  ASSUME Vectors!RagInv, NEW c \in Calls, Vectors!InitTable(c)
  PROVE  Vectors!RagInv'
  <1> USE PlacesAssumption
  <1> DEFINE p == call[c].place
  <1>1. /\ call[c].pc = "init" /\ hurt' = hurt /\ met' = met /\ crashes' = crashes
        /\ call[c] \in Vectors!Call /\ Vectors!Proper(call[c]) /\ call[c].pc \in Vectors!Building
        /\ p \in Tables /\ p \in Vectors!Places /\ ~call[c].found
    BY CallFields, RagParts DEF Vectors!InitTable, Vectors!CallsInv, Vectors!Proper, Vectors!Building,
                                Vectors!Places
  <1>2. CASE vectors[p] = Vectors!Absent
    <2> DEFINE k == [pc |-> "documents", place |-> p, urls |-> call[c].urls,
                     save |-> call[c].save, found |-> call[c].found, holds |-> call[c].holds]
    <2>1. /\ call' = [call EXCEPT ![c] = k] /\ k \in Vectors!Call
          /\ vectors' = [vectors EXCEPT ![p] = Vectors!There({})]
      BY <1>1, <1>2, CallGoes DEF Vectors!InitTable, Vectors!goto, Vectors!Call, Vectors!States,
                                  Vectors!Building
    <2>2. /\ k.pc = "documents" /\ k.place = p /\ k.urls = call[c].urls /\ ~k.found
          /\ Vectors!Proper(k) /\ Vectors!Single({})
      BY <1>1 DEF Vectors!Proper, Vectors!Single
    <2>3. \A d \in Calls \ {c} : Vectors!Owns(d) => call[d].place # p
      BY <1>2, RagParts DEF Vectors!TableThere, Vectors!Absent
    <2> HIDE DEF k
    <2> QED
      BY <1>1, <2>1, <2>2, <2>3, TableWritten
  <1>3. CASE vectors[p] # Vectors!Absent
    <2> DEFINE k == Vectors!Found(p, {})
    <2>1. call' = [call EXCEPT ![c] = k] /\ vectors' = vectors
      BY <1>3 DEF Vectors!InitTable
    <2>2. vectors[p].is = "there"
      <3>1. vectors[p] # Vectors!Cut
        BY <1>1, RagParts DEF Vectors!TypeOK
      <3>2. PICK u \in SUBSET Urls : vectors[p] = Vectors!There(u)
        BY <1>1, <1>3, <3>1, RagParts DEF Vectors!TypeOK
      <3> QED
        BY <3>2 DEF Vectors!There
    <2>3. /\ k.pc = "query" /\ k.place = p /\ k.found /\ k.holds = {} /\ ~k.save /\ k.urls = {}
          /\ ~Vectors!Fills(c)
      BY <1>1 DEF Vectors!Found, Vectors!Fills, Vectors!Owns
    <2>4. k \in Vectors!Call /\ Vectors!Proper(k)
      BY <1>1 DEF Vectors!Found, Vectors!Call, Vectors!States, Vectors!Building,
                  Vectors!Proper, Vectors!Single
    <2> HIDE DEF k
    <2>5. \A d \in Calls \ {c} : {k.pc, call[d].pc} \subseteq Vectors!Building
              /\ k.place = call[d].place /\ k.place # NoPath => {c, d} \subseteq met'
      BY <1>1, <2>1, <2>3, StoresSame
    <2>6. /\ vectors' \in [Vectors!Places -> {Vectors!Absent, Vectors!Cut}
                                              \cup {Vectors!There(u) : u \in SUBSET Urls}]
          /\ \A t \in Tables : vectors'[t] = vectors[t]
          /\ Vectors!FilesHurt' /\ Vectors!OfOneCall'
          /\ hurt' \subseteq Vectors!Places /\ met' \subseteq Calls
      BY <1>1, <2>1, StoresSame
    <2>7. /\ k.pc = "query" /\ k.place \in Tables /\ k.found /\ vectors[k.place].is = "there"
          /\ hurt \subseteq hurt' /\ met \ {c} \subseteq met' /\ crashes' = crashes
          /\ ~Vectors!Fills(c)
      BY <1>1, <2>2, <2>3, <2>5
    <2> HIDE DEF p
    <2> QED
      BY <2>1, <2>4, <2>5, <2>6, <2>7, RagKept
  <1> QED
    BY <1>2, <1>3

\* The owner of a table puts its documents into it.
LEMMA RagInsert ==
  ASSUME Vectors!RagInv, NEW c \in Calls, Vectors!Insert(c)
  PROVE  Vectors!RagInv'
  <1> USE PlacesAssumption
  <1> DEFINE p == call[c].place
             k == [pc |-> "query", place |-> p, urls |-> call[c].urls,
                   save |-> call[c].save, found |-> call[c].found, holds |-> call[c].holds]
  <1>1. /\ call[c].pc = "insert" /\ hurt' = hurt /\ met' = met /\ crashes' = crashes
        /\ call[c] \in Vectors!Call /\ Vectors!Proper(call[c]) /\ call[c].pc \in Vectors!Building
        /\ p \in Tables /\ ~call[c].found /\ Vectors!Owns(c) /\ Vectors!Fills(c)
    BY CallFields, RagParts DEF Vectors!Insert, Vectors!CallsInv, Vectors!Proper, Vectors!Building,
                                Vectors!Owns, Vectors!Fills
  <1>2. /\ vectors[p].of = {} /\ call[c].holds \subseteq call[c].urls
        /\ call[c].holds = {} => p \in hurt
        /\ call[c].holds \in SUBSET Urls /\ Vectors!Single(call[c].holds)
    BY <1>1, RagParts DEF Vectors!FilledSoon, Vectors!Proper, Vectors!HoldersHurt, Vectors!Holding,
                          Vectors!Call
  <1>3. vectors' = [vectors EXCEPT ![p] = Vectors!There(call[c].holds)]
    <2>1. vectors[p].of \cup call[c].holds = call[c].holds
      BY <1>2
    <2> QED
      BY <2>1 DEF Vectors!Insert
  <1>4. call' = [call EXCEPT ![c] = k] /\ k \in Vectors!Call
    BY <1>1, CallGoes DEF Vectors!Insert, Vectors!goto, Vectors!Call, Vectors!States, Vectors!Building
  <1>5. /\ k.pc = "query" /\ k.place = p /\ k.urls = call[c].urls /\ ~k.found /\ Vectors!Proper(k)
    BY <1>1 DEF Vectors!Proper
  <1>6. \A d \in Calls \ {c} : Vectors!Owns(d) => call[d].place # p
    BY <1>1, RagParts DEF Vectors!OneOwner
  <1> HIDE DEF k
  <1> DEFINE docs == call[c].holds
  <1>7. /\ docs \in SUBSET Urls /\ Vectors!Single(docs) /\ docs \subseteq k.urls
        /\ docs = {} => k.place \in hurt
        /\ vectors' = [vectors EXCEPT ![k.place] = Vectors!There(docs)]
    BY <1>2, <1>3, <1>5
  <1>8. /\ hurt' = hurt /\ met' = met /\ crashes' = crashes /\ call[c].pc \in Vectors!Building
        /\ k.place \in Tables /\ k.place = call[c].place
        /\ \A d \in Calls \ {c} : Vectors!Owns(d) => call[d].place # k.place
    BY <1>1, <1>5, <1>6
  <1> HIDE DEF docs, p
  <1> QED
    BY <1>4, <1>5, <1>7, <1>8, TableWritten

\* After a crash no call is under way, and every place that one was at is marked.
LEMMA RagCrash ==
  ASSUME Vectors!RagInv, Vectors!Crash
  PROVE  Vectors!RagInv'
  <1> USE PlacesAssumption
  <1> DEFINE at == {call[c].place : c \in {d \in Calls : call[d].pc \in Vectors!Building}} \ {NoPath}
             writing == {call[c].place : c \in {d \in Calls : call[d].pc = "save" /\ call[d].save}}
  <1>1. /\ crashes < MaxCrashes /\ crashes' = crashes + 1 /\ met' = {} /\ hurt' = hurt \cup at
        /\ call' = [c \in Calls |-> Vectors!Idle]
    BY DEF Vectors!Crash
  <1>2. PICK cut \in SUBSET writing :
             vectors' = [p \in Vectors!Places |-> IF p \in cut THEN Vectors!Cut ELSE vectors[p]]
    BY DEF Vectors!Crash
  <1>3. /\ at \subseteq Vectors!Places
        /\ \A c \in Calls : call[c].pc \in Vectors!Building /\ call[c].place # NoPath
                              => call[c].place \in at
    BY RagParts, CallFields DEF Vectors!Call
  <1>4. cut \subseteq Files /\ cut \subseteq at
    BY RagParts, CallFields DEF Vectors!CallsInv, Vectors!Proper, Vectors!Building
  <1>5. \A c \in Calls : /\ call'[c] \in Vectors!Call /\ call'[c].pc = "idle" /\ call'[c].place = NoPath
                         /\ ~call'[c].save /\ ~call'[c].found
                         /\ call'[c].urls = {} /\ call'[c].holds = {}
    BY <1>1, IdleCall DEF Vectors!Idle
  <1>6. \A p \in Vectors!Places : vectors'[p] = IF p \in cut THEN Vectors!Cut ELSE vectors[p]
    BY <1>2
  <1>7. \A c \in Calls : ~Vectors!Owns(c)' /\ ~Vectors!Fills(c)'
    BY <1>5 DEF Vectors!Owns, Vectors!Fills
  <1> HIDE DEF at, writing
  <1>8. Vectors!TypeOK'
    <2>1. crashes' \in 0..MaxCrashes
      BY <1>1, BoundsAssumption, RagParts DEF Vectors!TypeOK
    <2>2. call' \in [Calls -> Vectors!Call]
      BY <1>1, IdleCall
    <2>3. vectors' \in [Vectors!Places -> {Vectors!Absent, Vectors!Cut}
                                            \cup {Vectors!There(u) : u \in SUBSET Urls}]
      BY <1>2, RagParts DEF Vectors!TypeOK
    <2>4. \A p \in Vectors!Places : vectors'[p] = Vectors!Cut => p \in Files
      BY <1>4, <1>6, RagParts DEF Vectors!TypeOK
    <2> QED
      BY <1>1, <1>3, <2>1, <2>2, <2>3, <2>4, RagParts DEF Vectors!TypeOK
  <1>9. Vectors!CallsInv' /\ Vectors!HoldersHurt'
    BY <1>5 DEF Vectors!CallsInv, Vectors!Proper, Vectors!Single, Vectors!HoldersHurt, Vectors!Holding
  <1>10. Vectors!FilesHurt' /\ Vectors!OfOneCall'
    BY <1>1, <1>4, <1>6, RagParts DEF Vectors!FilesHurt, Vectors!OfOneCall, Vectors!Places,
                                      Vectors!Cut, Vectors!Single
  <1>11. Vectors!OneOwner' /\ Vectors!OwnedHolds' /\ Vectors!FilledSoon'
    BY <1>7 DEF Vectors!OneOwner, Vectors!OwnedHolds, Vectors!FilledSoon
  <1>12. Vectors!EmptyWhy'
    <2>1. ASSUME NEW p \in Tables, vectors'[p].is = "there", vectors'[p].of = {}
          PROVE  p \in hurt'
      <3>1. vectors'[p] = vectors[p]
        BY <1>4, <1>6 DEF Vectors!Places
      <3>2. CASE p \in hurt
        BY <1>1, <3>2
      <3>3. CASE \E c \in Calls : Vectors!Fills(c) /\ call[c].place = p
        BY <1>1, <1>3, <3>3 DEF Vectors!Fills, Vectors!Owns, Vectors!Building
      <3> QED
        BY <2>1, <3>1, <3>2, <3>3, RagParts DEF Vectors!EmptyWhy
    <2> QED
      BY <2>1 DEF Vectors!EmptyWhy
  <1>13. Vectors!TableThere' /\ Vectors!MeetInv'
    BY <1>5, <1>7 DEF Vectors!TableThere, Vectors!MeetInv
  <1>14. Vectors!AnswersSourced'
    BY <1>1, <1>4, <1>5, <1>6, RagParts DEF Vectors!AnswersSourced
  <1> QED
    BY <1>8, <1>9, <1>10, <1>11, <1>12, <1>13, <1>14 DEF Vectors!RagInv, Vectors!StoresInv

LEMMA RagBegins == Vectors!Init => Vectors!RagInv
  <1> SUFFICES ASSUME Vectors!Init PROVE Vectors!RagInv
    OBVIOUS
  <1> USE PlacesAssumption
  <1>1. /\ vectors = [p \in Vectors!Places |-> Vectors!Absent]
        /\ call = [c \in Calls |-> Vectors!Idle] /\ hurt = {} /\ met = {} /\ crashes = 0
    BY DEF Vectors!Init
  <1>2. \A c \in Calls : /\ call[c] \in Vectors!Call /\ call[c].pc = "idle" /\ call[c].place = NoPath
                         /\ ~call[c].save /\ ~call[c].found
                         /\ call[c].urls = {} /\ call[c].holds = {}
    BY <1>1, IdleCall DEF Vectors!Idle
  <1>3. \A p \in Vectors!Places : /\ vectors[p].is = "absent" /\ vectors[p].of = {}
                                  /\ vectors[p] \notin {Vectors!Cut, Vectors!There({})}
    BY <1>1 DEF Vectors!Absent, Vectors!Cut, Vectors!There
  <1>4. \A c \in Calls : ~Vectors!Owns(c) /\ ~Vectors!Fills(c)
    BY <1>2 DEF Vectors!Owns, Vectors!Fills
  <1>5. Vectors!TypeOK
    BY <1>1, <1>3, IdleCall, BoundsAssumption DEF Vectors!TypeOK
  <1>6. Vectors!CallsInv /\ Vectors!HoldersHurt /\ Vectors!AnswersSourced
    BY <1>2, <1>3 DEF Vectors!CallsInv, Vectors!Proper, Vectors!Single, Vectors!HoldersHurt,
                      Vectors!Holding, Vectors!AnswersSourced
  <1>7. Vectors!FilesHurt /\ Vectors!OfOneCall /\ Vectors!EmptyWhy
    BY <1>3 DEF Vectors!FilesHurt, Vectors!OfOneCall, Vectors!EmptyWhy, Vectors!Single, Vectors!Places
  <1>8. Vectors!OneOwner /\ Vectors!OwnedHolds /\ Vectors!FilledSoon
    BY <1>4 DEF Vectors!OneOwner, Vectors!OwnedHolds, Vectors!FilledSoon
  <1>9. Vectors!TableThere /\ Vectors!MeetInv
    BY <1>2, <1>4 DEF Vectors!TableThere, Vectors!MeetInv
  <1> QED
    BY <1>5, <1>6, <1>7, <1>8, <1>9 DEF Vectors!RagInv, Vectors!StoresInv

LEMMA RagStays ==
  ASSUME Vectors!RagInv, UNCHANGED vectorVars
  PROVE  Vectors!RagInv'
  BY RagParts DEF vectorVars, Vectors!RagInv, Vectors!StoresInv, Vectors!TypeOK, Vectors!CallsInv,
     Vectors!HoldersHurt, Vectors!Holding, Vectors!FilesHurt, Vectors!OfOneCall, Vectors!OneOwner,
     Vectors!OwnedHolds, Vectors!FilledSoon, Vectors!EmptyWhy, Vectors!Owns, Vectors!Fills,
     Vectors!TableThere, Vectors!MeetInv, Vectors!AnswersSourced

LEMMA RagSteps == [Next]_vars => [Vectors!Next]_vectorVars
  BY DEF Next, JwksStep, BoardStep, AuthStep, DrawerStep, BridgeStep, DesignStep, SlackStep,
         MemoryStep, VectorsStep, NewsStep, SettingsStep, FeedbackStep, BlocksStep, Still, vars

LEMMA RagNext == Vectors!RagInv /\ [Next]_vars => Vectors!RagInv'
  <1> SUFFICES ASSUME Vectors!RagInv, [Vectors!Next]_vectorVars PROVE Vectors!RagInv'
    BY RagSteps
  <1>1. CASE Vectors!Next
    BY <1>1, RagInvoke, RagLoad, RagInitTable, RagInitFails, RagLoadDocuments, RagBuildFails,
       RagInsert, RagSave, RagQuery, RagCrash DEF Vectors!Next
  <1> QED
    BY <1>1, RagStays

\* The retrieval tools (BaseRag and the tools built on it) answer from the documents of one
\* call, those of the call itself unless it found a store, and from none only if a build at
\* that place lost them or is still under way.
THEOREM AnswersHaveSource == Spec => []AnswersSourced
  <1>1. Init => Vectors!RagInv
    BY RagBegins DEF Init
  <1>2. Vectors!RagInv => AnswersSourced
    BY DEF Vectors!RagInv, AnswersSourced
  <1> QED
    BY <1>1, <1>2, RagNext, PTL DEF Spec

-----------------------------------------------------------------------------
(* NewsArticles                                                            *)

LEMMA NewsParts ==
  ASSUME News!NewsInv, NEW c \in Conversations
  PROVE  /\ News!TypeOK /\ News!ReportInv /\ News!ScrapeOf(c) /\ News!ResultOf(c)
         /\ tool[c] \in News!Tool /\ scraped[c] \in News!Scrape
  BY DEF News!NewsInv, News!TypeOK

\* What is left of a tool when one field changes.
LEMMA ToolGoes ==
  ASSUME NEW k \in News!Tool, NEW a, NEW b
  PROVE  [k EXCEPT !.left = a, !.lines = b] =
             [at |-> k.at, source |-> k.source, keywords |-> k.keywords,
              left |-> a, lines |-> b, read |-> k.read]
  <1> DEFINE m == [at |-> k.at, source |-> k.source, keywords |-> k.keywords,
                   left |-> a, lines |-> k.lines, read |-> k.read]
  <1>1. [m EXCEPT !.lines = b] = [at |-> k.at, source |-> k.source, keywords |-> k.keywords,
                             left |-> a, lines |-> b, read |-> k.read]
    OBVIOUS
  <1>2. [k EXCEPT !.left = a] = m
    BY DEF News!Tool
  <1>3. [k EXCEPT !.left = a, !.lines = b] = [[k EXCEPT !.left = a] EXCEPT !.lines = b]
    OBVIOUS
  <1> QED
    BY <1>1, <1>2, <1>3

LEMMA ToolReads ==
  ASSUME NEW k \in News!Tool, NEW a, NEW b
  PROVE  [k EXCEPT !.at = a, !.read = b] =
             [at |-> a, source |-> k.source, keywords |-> k.keywords,
              left |-> k.left, lines |-> k.lines, read |-> b]
  <1> DEFINE m == [at |-> a, source |-> k.source, keywords |-> k.keywords,
                   left |-> k.left, lines |-> k.lines, read |-> k.read]
  <1>1. [m EXCEPT !.read = b] = [at |-> a, source |-> k.source, keywords |-> k.keywords,
                                 left |-> k.left, lines |-> k.lines, read |-> b]
    OBVIOUS
  <1>2. [k EXCEPT !.at = a] = m
    BY DEF News!Tool
  <1>3. [k EXCEPT !.at = a, !.read = b] = [[k EXCEPT !.at = a] EXCEPT !.read = b]
    OBVIOUS
  <1> QED
    BY <1>1, <1>2, <1>3

LEMMA NewsConstants ==
  /\ News!Idle \in News!Tool /\ News!Nothing \in News!Scrape
  /\ News!Idle.at = "idle" /\ News!Idle.lines = {}
  /\ News!Nothing.source = "none" /\ News!Nothing.lines = {}
  /\ "all" \notin Sources /\ Sources \subseteq News!Scopes /\ "all" \in News!Scopes
  /\ News!Scopes = Sources \cup {"all"}
  /\ \A a \in Articles : a.from \in Sources
  BY SourcesAssumption, ArticlesAssumption DEF News!Idle, News!Nothing, News!Tool, News!Scrape, News!Scopes

\* A conversation's step keeps the invariant if it keeps the conversation's own part: no
\* other conversation stays clean when articles are written.
LEMMA NewsKept ==
  ASSUME News!NewsInv, News!TypeOK', NEW c \in Conversations, DOMAIN report'[c] \subseteq News!Scopes,
         \A d \in Conversations \ {c} : /\ tool'[d] = tool[d] /\ scraped'[d] = scraped[d]
                                        /\ report'[d] = report[d],
         clean' \subseteq clean \cup {c}, articles' = articles \/ clean' \subseteq {c},
         News!ScrapeOf(c)', News!ResultOf(c)'
  PROVE  News!NewsInv'
  <1>1. ASSUME NEW d \in Conversations, d # c
        PROVE  News!ScrapeOf(d)' /\ News!ResultOf(d)'
    <2>1. /\ tool'[d] = tool[d] /\ scraped'[d] = scraped[d] /\ report'[d] = report[d]
          /\ d \in clean' => d \in clean /\ articles' = articles
      BY <1>1
    <2>2. News!ScrapeOf(d) /\ News!ResultOf(d)
      BY <1>1, NewsParts
    <2>3. News!ScrapeOf(d)'
      BY <2>1, <2>2 DEF News!ScrapeOf, News!From
    <2>4. News!ResultOf(d)'
      <3>1. CASE d \in clean'
        <4>1. /\ d \in clean /\ articles' = articles /\ scraped'[d] = scraped[d]
              /\ report'[d] = report[d] /\ News!ResultOf(d)
          BY <2>1, <2>2, <3>1
        <4> QED
          BY ONLY <3>1, <4>1 DEF News!ResultOf, News!From, News!Mentioning
      <3>2. CASE d \notin clean'
        BY <3>2 DEF News!ResultOf
      <3> QED
        BY <3>1, <3>2
    <2> QED
      BY <2>3, <2>4
  <1>2. News!ReportInv'
    BY NewsParts DEF News!ReportInv
  <1> QED
    BY <1>1, <1>2 DEF News!NewsInv

LEMMA NewsBeginScrape ==
  ASSUME News!NewsInv, NEW c \in Conversations, News!BeginScrape(c)
  PROVE  News!NewsInv'
  <1>1. PICK source \in News!Scopes, k \in SUBSET Keywords \ {{}} :
            tool' = [tool EXCEPT ![c] = [at |-> "scrape", source |-> source, keywords |-> k,
                                         left |-> IF source = "all" THEN Sources ELSE {source},
                                         lines |-> {}, read |-> {}]]
    BY DEF News!BeginScrape
  <1>2. /\ scraped' = [scraped EXCEPT ![c] = News!Nothing]
        /\ report' = [report EXCEPT ![c] = News!NoReport]
        /\ clean' = clean \cup {c} /\ articles' = articles
    BY DEF News!BeginScrape
  <1> DEFINE left == IF source = "all" THEN Sources ELSE {source}
  <1>3. left \in SUBSET Sources /\ (source = "all" => left = Sources)
    BY DEF News!Scopes
  <1> HIDE DEF left
  <1> DEFINE new == [at |-> "scrape", source |-> source, keywords |-> k, left |-> left,
                     lines |-> {}, read |-> {}]
  <1>4. tool' = [tool EXCEPT ![c] = new]
    BY <1>1 DEF left
  <1>5. /\ new \in News!Tool /\ new.at = "scrape" /\ new.source = source /\ new.lines = {}
        /\ new.left = left
    BY <1>3 DEF News!Tool
  <1> HIDE DEF new
  <1>6. /\ tool' \in [Conversations -> News!Tool] /\ tool'[c] = new
        /\ scraped' \in [Conversations -> News!Scrape] /\ scraped'[c] = News!Nothing
        /\ DOMAIN report' = Conversations /\ report'[c] = News!NoReport
        /\ \A d \in Conversations \ {c} : /\ tool'[d] = tool[d] /\ scraped'[d] = scraped[d]
                                          /\ report'[d] = report[d]
    BY <1>2, <1>4, <1>5, NewsParts, NewsConstants DEF News!TypeOK
  <1>7. News!TypeOK'
    BY <1>2, <1>6, NewsParts DEF News!TypeOK
  <1>8. DOMAIN report'[c] = {}
    BY <1>6 DEF News!NoReport
  <1>9. News!ScrapeOf(c)'
    BY <1>2, <1>3, <1>5, <1>6, <1>7, <1>8, NewsConstants DEF News!ScrapeOf
  <1>10. News!ResultOf(c)'
    BY <1>2, <1>3, <1>5, <1>6, <1>7, <1>8, NewsConstants DEF News!ResultOf
  <1> QED
    BY <1>2, <1>3, <1>5, <1>6, <1>7, <1>8, <1>9, <1>10, NewsKept

\* What a scrape of the next source finds replaces what the file held.
LEMMA NewsScrapeSource ==
  ASSUME News!NewsInv, NEW c \in Conversations, News!ScrapeSource(c)
  PROVE  News!NewsInv'
  <1> DEFINE k == tool[c]
             s == CHOOSE x \in k.left : TRUE
  <1>1. /\ k.at = "scrape" /\ k.left # {} /\ k \in News!Tool /\ News!Disturb(c)
        /\ scraped' = scraped /\ report' = report
    BY NewsParts DEF News!ScrapeSource
  <1>2. s \in k.left /\ s \in Sources
    BY <1>1 DEF News!Tool
  <1>3. PICK lines \in SUBSET News!Found(s, k.keywords) :
            /\ News!Rewrite(c, s, lines)
            /\ tool' = [tool EXCEPT ![c] = [k EXCEPT !.left = k.left \ {s},
                                                     !.lines = k.lines \cup lines]]
    <2>1. PICK lines \in SUBSET News!Found(s, k.keywords) :
              /\ News!Rewrite(c, s, lines)
              /\ tool' = [tool EXCEPT ![c].left = k.left \ {s}, ![c].lines = k.lines \cup lines]
      BY Zenon DEF News!ScrapeSource
    <2>2. c \in DOMAIN tool
      BY NewsParts DEF News!TypeOK
    <2>3. [tool EXCEPT ![c].left = k.left \ {s}, ![c].lines = k.lines \cup lines] =
              [tool EXCEPT ![c] = [k EXCEPT !.left = k.left \ {s}, !.lines = k.lines \cup lines]]
      BY <2>2
    <2> QED
      BY <2>1, <2>3
  <1> HIDE DEF s
  <1>4. lines \subseteq Articles /\ \A a \in lines : a.from = s
    BY <1>3 DEF News!Found
  <1> DEFINE new == [at |-> k.at, source |-> k.source, keywords |-> k.keywords,
                     left |-> k.left \ {s}, lines |-> k.lines \cup lines, read |-> k.read]
  <1>5. tool' = [tool EXCEPT ![c] = new] /\ new \in News!Tool
    <2>1. tool' = [tool EXCEPT ![c] = new]
      BY <1>1, <1>3, ToolGoes
    <2>2. /\ k.at \in {"idle", "scrape", "combine"} /\ k.source \in News!Scopes \cup {"none"}
          /\ k.left \subseteq Sources /\ k.lines \subseteq Articles
      BY <1>1 DEF News!Tool
    <2>3. k.left \ {s} \subseteq Sources /\ k.lines \cup lines \subseteq Articles
      BY <1>4, <2>2
    <2>4. new \in News!Tool
      BY <1>1, <2>2, <2>3 DEF News!Tool
    <2> QED
      BY <2>1, <2>4
  <1>6. /\ new.at = "scrape" /\ new.source = k.source /\ new.keywords = k.keywords
        /\ new.left = k.left \ {s} /\ new.lines = k.lines \cup lines
    BY <1>1
  <1> HIDE DEF new
  <1>7. /\ \A a \in k.lines : a.from \notin k.left
        /\ scraped[c] = News!Nothing /\ report[c] = News!NoReport
        /\ c \in clean /\ k.source = "all" => \A x \in Sources \ k.left : articles[x] = News!From(k.lines, x)
        /\ k.lines \subseteq Articles
    BY <1>1, NewsParts DEF News!ScrapeOf, News!Tool
  <1>8. /\ tool' \in [Conversations -> News!Tool] /\ tool'[c] = new
        /\ \A d \in Conversations \ {c} : tool'[d] = tool[d]
    BY <1>5, NewsParts DEF News!TypeOK
  <1>9. \A a \in new.lines : a.from \notin new.left
    BY <1>4, <1>6, <1>7
  <1>10. /\ clean' \subseteq clean /\ (articles' = articles \/ clean' \subseteq {c})
         /\ k.source = "all" => articles' = [articles EXCEPT ![s] = lines]
         /\ DOMAIN articles' = News!Scopes /\ articles'["all"] = articles["all"]
         /\ \A x \in Sources : articles'[x] = articles[x] \/ (x = s /\ articles'[x] = lines)
    BY <1>1, <1>2, <1>3, NewsParts, NewsConstants DEF News!Disturb, News!Rewrite, News!TypeOK
  <1>11. News!TypeOK'
    BY <1>1, <1>4, <1>8, <1>10, NewsParts DEF News!TypeOK
  <1>12. ASSUME c \in clean', k.source = "all", NEW x \in Sources \ new.left
         PROVE  articles'[x] = News!From(new.lines, x)
    <2>1. CASE x = s
      <3>1. articles'[x] = lines
        BY <1>2, <1>10, <1>12, <2>1, NewsParts, NewsConstants DEF News!TypeOK
      <3>2. \A a \in k.lines : a.from # s
        BY <1>2, <1>7
      <3> QED
        BY <1>4, <1>6, <2>1, <3>1, <3>2, NewsConstants DEF News!From
    <2>2. CASE x # s
      <3>1. articles'[x] = articles[x] /\ articles[x] = News!From(k.lines, x)
        BY <1>6, <1>7, <1>10, <1>12, <2>2
      <3> QED
        BY <1>4, <1>6, <2>2, <3>1, NewsConstants DEF News!From
    <2> QED
      BY <2>1, <2>2
  <1>13. DOMAIN report'[c] = {}
    BY <1>1, <1>7 DEF News!NoReport
  <1>14. News!ScrapeOf(c)'
    BY <1>1, <1>6, <1>7, <1>8, <1>9, <1>10, <1>11, <1>12, <1>13, NewsConstants DEF News!ScrapeOf
  <1>15. News!ResultOf(c)'
    BY <1>1, <1>6, <1>7, <1>8, <1>9, <1>10, <1>11, <1>12, <1>13, NewsConstants DEF News!ResultOf
  <1> QED
    BY <1>1, <1>6, <1>7, <1>8, <1>9, <1>10, <1>11, <1>12, <1>13, <1>14, <1>15, NewsKept

LEMMA NewsScrapeAborts ==
  ASSUME News!NewsInv, NEW c \in Conversations, News!ScrapeAborts(c)
  PROVE  News!NewsInv'
  <1>1. /\ tool[c].at # "idle" /\ tool' = [tool EXCEPT ![c] = News!Idle]
        /\ articles' = articles /\ scraped' = scraped /\ report' = report /\ clean' = clean
    BY DEF News!ScrapeAborts
  <1>2. /\ tool' \in [Conversations -> News!Tool] /\ tool'[c] = News!Idle
        /\ \A d \in Conversations \ {c} : tool'[d] = tool[d]
    BY <1>1, NewsParts, NewsConstants DEF News!TypeOK
  <1>3. News!TypeOK'
    BY <1>1, <1>2, NewsParts DEF News!TypeOK
  <1>4. scraped[c] = News!Nothing
    BY <1>1, NewsParts DEF News!ScrapeOf
  <1>5. DOMAIN report'[c] \subseteq News!Scopes
    BY <1>1, NewsParts DEF News!ReportInv
  <1>6. News!ScrapeOf(c)'
    BY <1>1, <1>2, <1>3, <1>4, <1>5, NewsConstants DEF News!ScrapeOf
  <1>7. News!ResultOf(c)'
    BY <1>1, <1>2, <1>3, <1>4, <1>5, NewsConstants DEF News!ResultOf
  <1> QED
    BY <1>1, <1>2, <1>3, <1>4, <1>5, <1>6, <1>7, NewsKept

LEMMA NewsEndScrape ==
  ASSUME News!NewsInv, NEW c \in Conversations, News!EndScrape(c)
  PROVE  News!NewsInv'
  <1> DEFINE k == tool[c]
             done == [source |-> k.source, keywords |-> k.keywords, lines |-> k.lines]
  <1>1. /\ k.at = "scrape" /\ k.source # "all" /\ tool' = [tool EXCEPT ![c] = News!Idle]
        /\ scraped' = [scraped EXCEPT ![c] = done]
        /\ articles' = articles /\ report' = report /\ clean' = clean
    BY DEF News!EndScrape, News!Complete
  <1>2. k \in News!Tool
    BY NewsParts
  <1>3. /\ done \in News!Scrape /\ done.source = k.source /\ done.lines = k.lines
        /\ done.keywords = k.keywords
    BY <1>2 DEF News!Tool, News!Scrape
  <1> HIDE DEF done
  <1>4. /\ tool' \in [Conversations -> News!Tool] /\ tool'[c] = News!Idle
        /\ scraped' \in [Conversations -> News!Scrape] /\ scraped'[c] = done
        /\ \A d \in Conversations \ {c} : tool'[d] = tool[d] /\ scraped'[d] = scraped[d]
    BY <1>1, <1>3, NewsParts, NewsConstants DEF News!TypeOK
  <1>5. News!TypeOK'
    BY <1>1, <1>4, NewsParts DEF News!TypeOK
  <1>6. DOMAIN report'[c] \subseteq News!Scopes
    BY <1>1, NewsParts DEF News!ReportInv
  <1>7. News!ScrapeOf(c)'
    BY <1>1, <1>2, <1>3, <1>4, <1>5, <1>6, NewsConstants DEF News!ScrapeOf
  <1>8. News!ResultOf(c)'
    BY <1>1, <1>2, <1>3, <1>4, <1>5, <1>6, NewsConstants DEF News!ResultOf
  <1> QED
    BY <1>1, <1>2, <1>3, <1>4, <1>5, <1>6, <1>7, <1>8, NewsKept

\* The articles that are read back hold what was found, line for line.
LEMMA NewsReadBack ==
  ASSUME News!NewsInv, NEW c \in Conversations, News!ReadBack(c)
  PROVE  News!NewsInv'
  <1> DEFINE k == tool[c]
             all == UNION {articles[s] : s \in Sources}
             new == [at |-> "combine", source |-> k.source, keywords |-> k.keywords,
                     left |-> k.left, lines |-> k.lines, read |-> all]
  <1>1. /\ k.at = "scrape" /\ k.source = "all" /\ k.left = {} /\ k \in News!Tool
        /\ tool' = [tool EXCEPT ![c] = [k EXCEPT !.at = "combine", !.read = all]]
        /\ articles' = articles /\ scraped' = scraped /\ report' = report /\ clean' = clean
    BY NewsParts DEF News!ReadBack
  <1>2. \A a : a \in all <=> \E s \in Sources : a \in articles[s]
    OBVIOUS
  <1> HIDE DEF all
  <1>3. all \subseteq Articles
    BY <1>2, NewsParts DEF News!TypeOK
  <1>4. tool' = [tool EXCEPT ![c] = new] /\ new \in News!Tool
    <2>1. tool' = [tool EXCEPT ![c] = new]
      <3>1. k \in News!Tool /\ tool' = [tool EXCEPT ![c] = [k EXCEPT !.at = "combine", !.read = all]]
        BY <1>1
      <3>2. [k EXCEPT !.at = "combine", !.read = all] = new
        BY <3>1, ToolReads, Zenon
      <3> QED
        BY <3>1, <3>2
    <2>2. new \in News!Tool
      BY <1>1, <1>3 DEF News!Tool
    <2> QED
      BY <1>1, <2>1, <2>2
  <1>5. /\ new.at = "combine" /\ new.source = "all" /\ new.keywords = k.keywords
        /\ new.left = {} /\ new.lines = k.lines /\ new.read = all
    BY <1>1
  <1> HIDE DEF new
  <1>6. /\ scraped[c] = News!Nothing /\ report[c] = News!NoReport
        /\ c \in clean => \A s \in Sources : articles[s] = News!From(k.lines, s)
    BY <1>1, NewsParts DEF News!ScrapeOf
  <1>7. c \in clean => all = k.lines
    <2>1. \A a \in k.lines : a.from \in Sources
      BY <1>1, NewsConstants DEF News!Tool
    <2>2. ASSUME c \in clean, NEW s \in Sources
          PROVE  articles[s] = {a \in k.lines : a.from = s}
      BY <1>6, <2>2, NewsConstants DEF News!From
    <2>3. c \in clean => \A a : a \in all <=> a \in k.lines
      BY <1>2, <2>1, <2>2
    <2> QED
      BY <2>3
  <1>8. /\ tool' \in [Conversations -> News!Tool] /\ tool'[c] = new
        /\ \A d \in Conversations \ {c} : tool'[d] = tool[d]
    BY <1>4, NewsParts DEF News!TypeOK
  <1>9. News!TypeOK'
    BY <1>1, <1>8, NewsParts DEF News!TypeOK
  <1>10. DOMAIN report'[c] \subseteq News!Scopes
    BY <1>1, NewsParts DEF News!ReportInv
  <1>11. News!ScrapeOf(c)'
    BY <1>1, <1>5, <1>6, <1>7, <1>8, <1>9, <1>10, NewsConstants DEF News!ScrapeOf
  <1>12. News!ResultOf(c)'
    BY <1>1, <1>5, <1>6, <1>7, <1>8, <1>9, <1>10, NewsConstants DEF News!ResultOf
  <1> QED
    BY <1>1, <1>5, <1>6, <1>7, <1>8, <1>9, <1>10, <1>11, <1>12, NewsKept

LEMMA NewsCombine ==
  ASSUME News!NewsInv, NEW c \in Conversations, News!Combine(c)
  PROVE  News!NewsInv'
  <1> DEFINE k == tool[c]
             done == [source |-> k.source, keywords |-> k.keywords, lines |-> k.lines]
  <1>1. /\ k.at = "combine" /\ tool' = [tool EXCEPT ![c] = News!Idle]
        /\ scraped' = [scraped EXCEPT ![c] = done]
        /\ News!Rewrite(c, "all", k.read) /\ News!Disturb(c) /\ report' = report
    BY DEF News!Combine, News!Complete
  <1>2. /\ k \in News!Tool /\ report[c] = News!NoReport
        /\ k.source = "all" /\ k.left = {}
        /\ c \in clean => /\ k.read = k.lines
                          /\ \A s \in Sources : articles[s] = News!From(k.lines, s)
    BY <1>1, NewsParts DEF News!ScrapeOf
  <1>3. /\ done \in News!Scrape /\ done.source = k.source /\ done.lines = k.lines
        /\ done.keywords = k.keywords /\ k.read \subseteq Articles
    BY <1>2 DEF News!Tool, News!Scrape
  <1> HIDE DEF done
  <1>4. /\ tool' \in [Conversations -> News!Tool] /\ tool'[c] = News!Idle
        /\ scraped' \in [Conversations -> News!Scrape] /\ scraped'[c] = done
        /\ \A d \in Conversations \ {c} : tool'[d] = tool[d] /\ scraped'[d] = scraped[d]
    BY <1>1, <1>3, NewsParts, NewsConstants DEF News!TypeOK
  <1>5. /\ clean' \subseteq clean /\ clean' \subseteq {c}
        /\ DOMAIN articles' = News!Scopes /\ articles'["all"] = k.read
        /\ \A s \in Sources : articles'[s] = articles[s]
    BY <1>1, <1>2, NewsParts, NewsConstants DEF News!Disturb, News!Rewrite, News!TypeOK
  <1>6. News!TypeOK'
    BY <1>1, <1>3, <1>4, <1>5, NewsParts DEF News!TypeOK
  <1>7. DOMAIN report'[c] = {}
    BY <1>1, <1>2 DEF News!NoReport
  <1>8. News!ScrapeOf(c)'
    <2>1. tool'[c].at = "idle" /\ tool'[c].lines = {}
      BY <1>4, NewsConstants
    <2> HIDE DEF k
    <2> QED
      BY ONLY <2>1 DEF News!ScrapeOf
  <1>9. News!ResultOf(c)'
    <2>1. ASSUME c \in clean', NEW s \in News!Scopes PROVE articles'[s] = News!From(k.lines, s)
      BY <1>2, <1>5, <2>1, NewsConstants DEF News!From
    <2> QED
      BY <1>3, <1>4, <1>7, <2>1 DEF News!ResultOf
  <1> QED
    BY <1>1, <1>2, <1>3, <1>4, <1>5, <1>6, <1>7, <1>8, <1>9, NewsKept

LEMMA NewsAnalyze ==
  ASSUME News!NewsInv, NEW c \in Conversations, News!Analyze(c)
  PROVE  News!NewsInv'
  <1> DEFINE k == scraped[c]
  <1>1. PICK readable \in SUBSET {s \in News!Scopes : k.source \in {"all", s}} :
            report' = [report EXCEPT ![c] = [s \in readable |-> News!Mentioning(articles[s], k.keywords)]]
    BY DEF News!Analyze
  <1> DEFINE found == [s \in readable |-> News!Mentioning(articles[s], k.keywords)]
  <1>2. /\ tool[c].at = "idle" /\ report' = [report EXCEPT ![c] = found]
        /\ articles' = articles /\ tool' = tool /\ scraped' = scraped /\ clean' = clean
    BY <1>1 DEF News!Analyze
  <1>3. /\ DOMAIN found = readable /\ readable \subseteq News!Scopes
        /\ \A s \in readable : found[s] = News!Mentioning(articles[s], k.keywords)
    OBVIOUS
  <1> HIDE DEF found
  <1>4. /\ DOMAIN report' = Conversations /\ report'[c] = found
        /\ \A d \in Conversations \ {c} : report'[d] = report[d]
    BY <1>2, NewsParts DEF News!TypeOK
  <1>5. News!TypeOK'
    BY <1>2, <1>4, NewsParts DEF News!TypeOK
  <1>6. News!ScrapeOf(c)'
    BY <1>2, NewsParts DEF News!ScrapeOf
  <1>7. News!ResultOf(c)'
    <2>1. c \in clean /\ k.source = "all" => \A s \in News!Scopes : articles[s] = News!From(k.lines, s)
      BY NewsParts DEF News!ResultOf
    <2> QED
      BY <1>2, <1>3, <1>4, <2>1 DEF News!ResultOf
  <1> QED
    BY <1>2, <1>3, <1>4, <1>5, <1>6, <1>7, NewsKept

LEMMA NewsBegins == News!Init => News!NewsInv
  <1> SUFFICES ASSUME News!Init PROVE News!NewsInv
    OBVIOUS
  <1>1. /\ articles = [s \in News!Scopes |-> {}] /\ tool = [c \in Conversations |-> News!Idle]
        /\ scraped = [c \in Conversations |-> News!Nothing]
        /\ report = [c \in Conversations |-> News!NoReport] /\ clean = {}
    BY DEF News!Init
  <1>2. News!TypeOK
    BY <1>1, NewsConstants DEF News!TypeOK
  <1>3. News!ReportInv
    BY <1>1 DEF News!ReportInv, News!NoReport
  <1>4. ASSUME NEW c \in Conversations PROVE News!ScrapeOf(c) /\ News!ResultOf(c)
    BY <1>1, NewsConstants DEF News!ScrapeOf, News!ResultOf
  <1> QED
    BY <1>2, <1>3, <1>4 DEF News!NewsInv

LEMMA NewsStays ==
  ASSUME News!NewsInv, UNCHANGED newsVars
  PROVE  News!NewsInv'
  <1>1. /\ articles' = articles /\ tool' = tool /\ scraped' = scraped
        /\ report' = report /\ clean' = clean
    BY DEF newsVars
  <1>2. News!TypeOK' /\ News!ReportInv'
    BY <1>1 DEF News!NewsInv, News!TypeOK, News!ReportInv
  <1>3. ASSUME NEW c \in Conversations
        PROVE  News!ScrapeOf(c)' /\ News!ResultOf(c)'
    <2>1. News!ScrapeOf(c) /\ News!ResultOf(c)
      BY NewsParts
    <2>2. News!ScrapeOf(c)'
      BY <1>1, <2>1 DEF News!ScrapeOf, News!From
    <2>3. News!ResultOf(c)'
      BY <1>1, <2>1 DEF News!ResultOf, News!From, News!Mentioning
    <2> QED
      BY <2>2, <2>3
  <1> QED
    BY <1>2, <1>3 DEF News!NewsInv

LEMMA NewsNext == News!NewsInv /\ [Next]_vars => News!NewsInv'
  <1> SUFFICES ASSUME News!NewsInv, [Next]_vars PROVE News!NewsInv'
    OBVIOUS
  <1>1. [News!Next]_newsVars
    BY DEF Next, JwksStep, BoardStep, AuthStep, DrawerStep, BridgeStep, DesignStep, SlackStep,
           MemoryStep, VectorsStep, NewsStep, SettingsStep, FeedbackStep, BlocksStep, Still, vars
  <1>2. CASE News!Next
    BY <1>2, NewsBeginScrape, NewsScrapeSource, NewsScrapeAborts, NewsEndScrape, NewsReadBack,
       NewsCombine, NewsAnalyze DEF News!Next
  <1> QED
    BY <1>1, <1>2, NewsStays

\* A conversation that has everything scraped and then scored gets the scores of its own
\* scrape: of those articles whose text has a keyword, all of them, in every file that could
\* be read, unless another one scraped everything meanwhile (WebScrapingTechnician and
\* SentimentAnalysis of the news tools).
THEOREM ReportsAreOwn == Spec => []ReportsOwnScrape
  <1>1. Init => News!NewsInv
    BY NewsBegins DEF Init
  <1>2. News!NewsInv => ReportsOwnScrape
    BY DEF News!NewsInv, News!TypeOK, News!ResultOf, News!ReportsOwnScrape, ReportsOwnScrape
  <1> QED
    BY <1>1, <1>2, NewsNext, PTL DEF Spec

-----------------------------------------------------------------------------
(* NetworkDesign                                                           *)

LEMMA DesignParts ==
  ASSUME Design!DesignInv, NEW c \in Conversations
  PROVE  /\ Design!TypeOK /\ Design!FilesSound /\ Design!PersistInv /\ Design!ManifestInv
         /\ Design!PersistedListed
         /\ persist[c] = Design!Idle \/ persist[c] \in Design!Persisting
         /\ Design!Idle.at = "idle" /\ Design!Idle \notin Design!Persisting
  BY DEF Design!DesignInv, Design!TypeOK, Design!Idle, Design!Persisting

\* A call of the persistor goes on, and may take what the manifest lists with it.
LEMMA PersistGoes ==
  ASSUME NEW k \in Design!Persisting, NEW a
  PROVE  [k EXCEPT !.at = a] = [at |-> a, name |-> k.name, def |-> k.def, read |-> k.read]
  BY DEF Design!Persisting

LEMMA PersistReads ==
  ASSUME NEW k \in Design!Persisting, NEW a, NEW b
  PROVE  [k EXCEPT !.at = a, !.read = b] = [at |-> a, name |-> k.name, def |-> k.def, read |-> b]
  <1> DEFINE m == [at |-> a, name |-> k.name, def |-> k.def, read |-> k.read]
  <1>1. [m EXCEPT !.read = b] = [at |-> a, name |-> k.name, def |-> k.def, read |-> b]
    OBVIOUS
  <1>2. [k EXCEPT !.at = a, !.read = b] = [[k EXCEPT !.at = a] EXCEPT !.read = b]
    OBVIOUS
  <1> QED
    BY <1>1, <1>2, PersistGoes

\* What is a definition, whatever the editing tools do to it.
LEMMA Definitions ==
  ASSUME NEW S \in SUBSET Agents, NEW f \in [S -> Design!Agent]
  PROVE  f \in Design!Definition
  BY DEF Design!Definition

LEMMA DefinitionOf ==
  ASSUME NEW f \in Design!Definition
  PROVE  DOMAIN f \in SUBSET Agents /\ f \in [DOMAIN f -> Design!Agent]
  BY DEF Design!Definition

LEMMA NoAgents == <<>> \in Design!Definition
  <1>1. {} \in SUBSET Agents /\ <<>> \in [{} -> Design!Agent]
    OBVIOUS
  <1> QED
    BY <1>1, Definitions

LEMMA FreshAgent == \A t \in BOOLEAN : Design!Fresh(t) \in Design!Agent
  BY DEF Design!Fresh, Design!Agent

\* Every editing tool leaves a definition behind.
LEMMA DesignEdits ==
  ASSUME Design!DesignInv, NEW c \in Conversations, Design!EditNetwork(c)
  PROVE  \E def \in Design!Definition :
             /\ Design!Edit(c, def)
             /\ netName' = netName \/ \E n \in Networks : netName' = [netName EXCEPT ![c] = n]
  <1> DEFINE mine == definition[c]
             Kept(def) == /\ Design!Edit(c, def)
                          /\ \/ netName' = netName
                             \/ \E n \in Networks : netName' = [netName EXCEPT ![c] = n]
  <1>1. mine \in Design!Definition /\ DOMAIN mine \in SUBSET Agents /\ mine \in [DOMAIN mine -> Design!Agent]
    BY DesignParts, DefinitionOf DEF Design!TypeOK
  <1>2. ASSUME NEW n \in Networks, NEW names \in SUBSET Agents, NEW tools \in SUBSET names,
               NEW bad \in BOOLEAN, Design!CreateNetwork(c, n, names, tools, bad)
        PROVE  \E def \in Design!Definition : Kept(def)
    <2>1. [a \in names |-> Design!Fresh(a \in tools)] \in [names -> Design!Agent]
      <3>1. \A a \in names : (a \in tools) \in BOOLEAN
        OBVIOUS
      <3>2. \A a \in names : Design!Fresh(a \in tools) \in Design!Agent
        BY <3>1 DEF Design!Fresh, Design!Agent
      <3> QED
        BY <3>2
    <2>2. [a \in names |-> Design!Fresh(a \in tools)] \in Design!Definition
      BY <2>1, Definitions
    <2> QED
      BY <1>2, <2>2, NoAgents DEF Design!CreateNetwork
  <1>3. ASSUME NEW a \in Agents, NEW isTool \in BOOLEAN, Design!AddAgent(c, a, isTool)
        PROVE  \E def \in Design!Definition : Kept(def)
    <2> DEFINE new == [b \in DOMAIN mine \cup {a} |->
                          IF b = a THEN Design!Fresh(isTool) ELSE mine[b]]
    <2>1. new \in [DOMAIN mine \cup {a} -> Design!Agent] /\ DOMAIN mine \cup {a} \in SUBSET Agents
      BY <1>1, FreshAgent
    <2>2. new \in Design!Definition
      BY <2>1, Definitions
    <2> QED
      BY <1>3, <2>2 DEF Design!AddAgent
  <1>4. ASSUME NEW a \in Agents, Design!RemoveAgent(c, a)
        PROVE  \E def \in Design!Definition : Kept(def)
    <2> DEFINE new == [b \in DOMAIN mine \ {a} |-> mine[b]]
    <2>1. new \in [DOMAIN mine \ {a} -> Design!Agent] /\ DOMAIN mine \ {a} \in SUBSET Agents
      BY <1>1
    <2>2. new \in Design!Definition
      BY <2>1, Definitions
    <2> QED
      BY <1>4, <2>2 DEF Design!RemoveAgent
  <1>5. ASSUME NEW a \in Agents, NEW tools \in SUBSET Agents, Design!UpdateAgent(c, a, tools)
        PROVE  \E def \in Design!Definition : Kept(def)
    <2> DEFINE new == [mine EXCEPT ![a].tools = tools]
    <2>1. a \in DOMAIN mine /\ [mine[a] EXCEPT !.tools = tools] \in Design!Agent
      BY <1>1, <1>5 DEF Design!UpdateAgent, Design!Agent
    <2>2. new \in [DOMAIN mine -> Design!Agent]
      BY <1>1, <2>1
    <2>3. new \in Design!Definition
      BY <1>1, <2>2, Definitions
    <2> QED
      BY <1>5, <2>3 DEF Design!UpdateAgent
  <1>6. ASSUME NEW a \in Agents, Design!SetInstructions(c, a)
        PROVE  \E def \in Design!Definition : Kept(def)
    <2> DEFINE new == [mine EXCEPT ![a].instructions = "text"]
    <2>1. a \in DOMAIN mine /\ [mine[a] EXCEPT !.instructions = "text"] \in Design!Agent
      BY <1>1, <1>6 DEF Design!SetInstructions, Design!Agent
    <2>2. new \in [DOMAIN mine -> Design!Agent]
      BY <1>1, <2>1
    <2>3. new \in Design!Definition
      BY <1>1, <2>2, Definitions
    <2> QED
      BY <1>6, <2>3 DEF Design!SetInstructions
  <1>7. ASSUME NEW n \in Networks, Design!LoadDefinition(c, n)
        PROVE  \E def \in Design!Definition : Kept(def)
    BY <1>7, DesignParts DEF Design!LoadDefinition, Design!TypeOK
  <1> QED
    BY <1>2, <1>3, <1>4, <1>5, <1>6, <1>7 DEF Design!EditNetwork

\* An edit changes nothing that is being written, or has been.
LEMMA DesignEdit ==
  ASSUME Design!DesignInv, NEW c \in Conversations, Design!EditNetwork(c)
  PROVE  Design!DesignInv'
  <1>1. PICK def \in Design!Definition :
             /\ Design!Edit(c, def)
             /\ netName' = netName \/ \E n \in Networks : netName' = [netName EXCEPT ![c] = n]
    BY DesignEdits
  <1>2. /\ edits < MaxEdits /\ edits' = edits + 1 /\ definition' = [definition EXCEPT ![c] = def]
        /\ persist' = persist /\ files' = files /\ broken' = broken /\ manifest' = manifest
        /\ persisted' = persisted /\ overlapped' = overlapped
    BY <1>1 DEF Design!Edit
  <1>3. Design!TypeOK'
    BY <1>1, <1>2, DesignParts, BoundsAssumption DEF Design!TypeOK
  <1> QED
    BY <1>2, <1>3, DesignParts DEF Design!DesignInv, Design!FilesSound, Design!PersistInv,
                                   Design!ManifestInv, Design!PersistedListed, Design!Writing

\* What a step of the persistor has to keep: the file of a call that has opened it, what it
\* has read of the manifest, and that files only ever come.
LEMMA PersistKept ==
  ASSUME Design!DesignInv, NEW c \in Conversations, NEW k, persist' = [persist EXCEPT ![c] = k],
         k = Design!Idle \/ k \in Design!Persisting,
         definition' = definition, netName' = netName, edits' = edits,
         DOMAIN files \subseteq DOMAIN files', DOMAIN files' \subseteq Networks,
         broken' \subseteq Networks,
         \A n \in DOMAIN files' :
             \/ files'[n] = Design!Torn /\ (n \in broken' \/ (k.at = "write" /\ k.name = n))
             \/ /\ n \in DOMAIN files /\ files'[n] = files[n] /\ (n \in broken => n \in broken')
                /\ persist[c].at = "write" => n # persist[c].name
             \/ /\ files'[n] \in Design!Definition /\ files'[n] # Design!Torn
                /\ Design!Valid(files'[n]) /\ Design!Assembled(files'[n]),
         manifest' \in [state : {"absent", "torn", "whole"}, names : SUBSET Networks],
         manifest'.names \subseteq DOMAIN files', persisted' \subseteq Networks,
         k # Design!Idle => /\ Design!Valid(k.def) /\ Design!Assembled(k.def)
                            /\ k.at # "open" => k.name \in DOMAIN files'
                            /\ k.read \subseteq DOMAIN files'
  PROVE  /\ Design!TypeOK' /\ Design!FilesSound' /\ Design!PersistInv'
         /\ persist'[c] = k /\ \A d \in Conversations \ {c} : persist'[d] = persist[d]
  <1>1. persist \in [Conversations -> {Design!Idle} \cup Design!Persisting]
    BY DesignParts DEF Design!TypeOK
  <1>2. persist'[c] = k /\ \A d \in Conversations \ {c} : persist'[d] = persist[d]
    BY <1>1
  <1>3. Design!TypeOK'
    <2>1. persist' \in [Conversations -> {Design!Idle} \cup Design!Persisting]
      BY <1>1
    <2>2. \A n \in DOMAIN files' : files'[n] = Design!Torn \/ files'[n] \in Design!Definition
      BY DesignParts DEF Design!TypeOK
    <2> QED
      BY <2>1, <2>2, DesignParts DEF Design!TypeOK
  <1>4. Design!FilesSound'
    <2>1. ASSUME NEW n \in DOMAIN files'
          PROVE  IF files'[n] = Design!Torn THEN Design!Writing(n)' \/ n \in broken'
                 ELSE Design!Valid(files'[n]) /\ Design!Assembled(files'[n])
      <3>1. CASE files'[n] = Design!Torn /\ (n \in broken' \/ (k.at = "write" /\ k.name = n))
        BY <1>2, <3>1 DEF Design!Writing
      <3>2. CASE /\ n \in DOMAIN files /\ files'[n] = files[n] /\ (n \in broken => n \in broken')
                 /\ persist[c].at = "write" => n # persist[c].name
        <4>1. IF files[n] = Design!Torn THEN Design!Writing(n) \/ n \in broken
              ELSE Design!Valid(files[n]) /\ Design!Assembled(files[n])
          BY <3>2, DesignParts DEF Design!FilesSound
        <4>2. ASSUME Design!Writing(n) PROVE Design!Writing(n)'
          <5>1. PICK d \in Conversations : persist[d].at = "write" /\ persist[d].name = n
            BY <4>2 DEF Design!Writing
          <5>2. d # c /\ persist'[d] = persist[d]
            BY <1>2, <3>2, <5>1
          <5> QED
            BY <5>1, <5>2 DEF Design!Writing
        <4> QED
          BY <3>2, <4>1, <4>2
      <3> QED
        BY <2>1, <3>1, <3>2
    <2> QED
      BY <2>1 DEF Design!FilesSound
  <1>5. Design!PersistInv'
    BY <1>2, DesignParts DEF Design!PersistInv
  <1> QED
    BY <1>2, <1>3, <1>4, <1>5

LEMMA DesignBeginPersist ==
  ASSUME Design!DesignInv, NEW c \in Conversations, Design!BeginPersist(c)
  PROVE  Design!DesignInv'
  <1> DEFINE k == [at |-> "open", name |-> netName[c], def |-> definition[c], read |-> {}]
  <1>1. /\ persist[c] = Design!Idle /\ netName[c] # NoName
        /\ Design!Valid(definition[c]) /\ Design!Assembled(definition[c])
        /\ persist' = [persist EXCEPT ![c] = k]
        /\ overlapped' = (overlapped \/ \E d \in Conversations : persist[d] # Design!Idle)
        /\ definition' = definition /\ netName' = netName /\ files' = files /\ broken' = broken
        /\ manifest' = manifest /\ persisted' = persisted /\ edits' = edits
    BY DEF Design!BeginPersist
  <1>2. k \in Design!Persisting
    BY <1>1, DesignParts DEF Design!TypeOK, Design!Persisting
  <1>3. k.at = "open" /\ k.def = definition[c] /\ k.read = {}
    OBVIOUS
  <1> HIDE DEF k
  <1>4. /\ Design!TypeOK' /\ Design!FilesSound' /\ Design!PersistInv'
        /\ persist'[c] = k /\ \A d \in Conversations \ {c} : persist'[d] = persist[d]
    BY <1>1, <1>2, <1>3, DesignParts, PersistKept DEF Design!TypeOK, Design!FilesSound
  <1>5. Design!ManifestInv'
    <2>1. ASSUME ~overlapped'
          PROVE  ~overlapped /\ \A d \in Conversations : persist[d] = Design!Idle
      BY <1>1, <2>1
    <2> QED
      BY <1>1, <1>3, <1>4, <2>1, DesignParts DEF Design!ManifestInv
  <1>6. Design!PersistedListed'
    BY <1>1, DesignParts DEF Design!PersistedListed
  <1> QED
    BY <1>4, <1>5, <1>6 DEF Design!DesignInv

LEMMA TornIsNone == Design!Torn \notin Design!Definition
  <1> SUFFICES ASSUME Design!Torn \in Design!Definition PROVE FALSE
    OBVIOUS
  <1> DEFINE f == Design!Torn
  <1>1. PICK S \in SUBSET Agents : f \in [S -> Design!Agent]
    BY DEF Design!Definition
  <1>2. DOMAIN f = {"text"} /\ f["text"].instructions = "torn"
    BY DEF Design!Torn
  <1> HIDE DEF f
  <1>3. f["text"] \in Design!Agent
    BY <1>1, <1>2
  <1> QED
    BY <1>2, <1>3 DEF Design!Agent

\* Names that are all in the text of a manifest that lists others.
ListedIn(P, names) == \A n \in P : Design!Mentioned(n, names)

LEMMA Mentions ==
  ASSUME NEW n, NEW names, NEW more, names \subseteq more
  PROVE  /\ Design!Mentioned(n, names) => Design!Mentioned(n, more)
         /\ n \in more => Design!Mentioned(n, more)
  BY DEF Design!Mentioned

\* The manifest as a call of the persistor leaves it.
LEMMA ManifestKept ==
  ASSUME Design!DesignInv, NEW c \in Conversations, NEW k,
         persist[c] \in Design!Persisting, overlapped' = overlapped, persist'[c] = k,
         \A d \in Conversations \ {c} : persist'[d] = persist[d],
         ~overlapped => /\ manifest'.state = "absent" => persisted' = {}
                        /\ manifest'.state = "torn" => k.at = "update"
                        /\ k.at = "create" => manifest'.state = "absent"
                        /\ k.at = "update" => manifest' = Design!Emptied
                        /\ k.at \in {"read", "empty"} => manifest'.state = "whole"
                        /\ k.at \in {"empty", "update"} => ListedIn(persisted', k.read)
                        /\ manifest'.state = "whole" => ListedIn(persisted', manifest'.names)
  PROVE  Design!ManifestInv' /\ Design!PersistedListed'
  <1>1. ASSUME ~overlapped', NEW d \in Conversations, d # c
        PROVE  persist'[d] = Design!Idle /\ persist'[d].at = "idle"
    BY <1>1, DesignParts DEF Design!ManifestInv
  <1>2. ASSUME ~overlapped'
        PROVE  /\ \A d, e \in Conversations : persist'[d] # Design!Idle /\ persist'[e] # Design!Idle => d = e
               /\ manifest'.state = "absent" => persisted' = {}
               /\ manifest'.state = "torn" => \E d \in Conversations : persist'[d].at = "update"
               /\ \A d \in Conversations :
                     /\ persist'[d].at = "create" => manifest'.state = "absent"
                     /\ persist'[d].at = "update" => manifest' = Design!Emptied
                     /\ persist'[d].at \in {"read", "empty"} => manifest'.state = "whole"
                     /\ persist'[d].at \in {"empty", "update"} => ListedIn(persisted', persist'[d].read)
    BY <1>1, <1>2
  <1>3. Design!ManifestInv'
    BY <1>2 DEF Design!ManifestInv, Design!Emptied, Design!Mentioned, ListedIn
  <1>4. Design!PersistedListed'
    BY DEF Design!PersistedListed, Design!Mentioned, ListedIn
  <1> QED
    BY <1>3, <1>4

\* What is known of a call that is about to take a step.
LEMMA PersistAt ==
  ASSUME Design!DesignInv, NEW c \in Conversations, persist[c].at # "idle"
  PROVE  /\ persist[c] \in Design!Persisting
         /\ persist[c].name \in Networks /\ persist[c].def \in Design!Definition
         /\ persist[c].read \in SUBSET Networks
         /\ Design!Valid(persist[c].def) /\ Design!Assembled(persist[c].def)
         /\ persist[c].at # "open" => persist[c].name \in DOMAIN files
         /\ persist[c].read \subseteq DOMAIN files
         /\ ~overlapped => /\ manifest.state = "absent" => persisted = {}
                           /\ manifest.state = "torn" => persist[c].at = "update"
                           /\ persist[c].at = "create" => manifest.state = "absent"
                           /\ persist[c].at = "update" => manifest = Design!Emptied
                           /\ persist[c].at \in {"read", "empty"} => manifest.state = "whole"
                           /\ persist[c].at \in {"empty", "update"} => ListedIn(persisted, persist[c].read)
                           /\ manifest.state = "whole" => ListedIn(persisted, manifest.names)
  <1>1. persist[c] \in Design!Persisting /\ persist[c] # Design!Idle
    BY DesignParts
  <1>2. ASSUME ~overlapped, manifest.state = "torn" PROVE persist[c].at = "update"
    <2>1. PICK d \in Conversations : persist[d].at = "update"
      BY <1>2, DesignParts DEF Design!ManifestInv
    <2>2. persist[d] # Design!Idle
      BY <2>1, DesignParts
    <2> QED
      BY <1>1, <1>2, <2>1, <2>2, DesignParts DEF Design!ManifestInv
  <1>3. /\ persist[c].name \in Networks /\ persist[c].def \in Design!Definition
        /\ persist[c].read \in SUBSET Networks
    BY <1>1 DEF Design!Persisting
  <1>4. /\ Design!Valid(persist[c].def) /\ Design!Assembled(persist[c].def)
        /\ persist[c].at # "open" => persist[c].name \in DOMAIN files
        /\ persist[c].read \subseteq DOMAIN files
    BY <1>1, DesignParts DEF Design!PersistInv
  <1> QED
    BY <1>1, <1>2, <1>3, <1>4, DesignParts DEF Design!ManifestInv, Design!PersistedListed, ListedIn

\* A file is opened, which empties it, or written.
LEMMA FilePut ==
  ASSUME Design!DesignInv, NEW c \in Conversations, NEW def, NEW to \in {"write", "create", "read"},
         persist[c].at \in {"open", "write"},
         Design!Put(persist[c].name, def), Design!Goto(c, to),
         \/ def = Design!Torn /\ to = "write" /\ broken' = broken \ {persist[c].name}
         \/ /\ def = persist[c].def /\ to # "write" /\ broken' = broken \ {persist[c].name}
         \/ /\ def = Design!Torn /\ broken' = broken \cup {persist[c].name},
         manifest' = manifest, persisted' = persisted, definition' = definition,
         netName' = netName, overlapped' = overlapped, edits' = edits,
         to = "create" => manifest.state = "absent",
         to = "read" => manifest.state # "absent"
  PROVE  Design!DesignInv'
  <1> DEFINE n == persist[c].name
             k == [at |-> to, name |-> n, def |-> persist[c].def, read |-> persist[c].read]
  <1>1. /\ persist[c] \in Design!Persisting /\ n \in Networks /\ persist[c].def \in Design!Definition
        /\ Design!Valid(persist[c].def) /\ Design!Assembled(persist[c].def)
        /\ persist[c].read \subseteq DOMAIN files /\ persist[c].read \in SUBSET Networks
        /\ ~overlapped => /\ manifest.state = "absent" => persisted = {}
                          /\ manifest.state # "torn"
                          /\ manifest.state = "whole" => ListedIn(persisted, manifest.names)
    BY PersistAt
  <1>2. persist' = [persist EXCEPT ![c] = k]
    BY <1>1, PersistGoes DEF Design!Goto
  <1>3. k \in Design!Persisting
    BY <1>1 DEF Design!Persisting
  <1>4. /\ DOMAIN files' = DOMAIN files \cup {n}
        /\ \A m \in DOMAIN files' : \/ m = n /\ files'[m] = def
                                    \/ m \in DOMAIN files /\ files'[m] = files[m]
    BY DEF Design!Put
  <1>5. k.at = to /\ k.name = n /\ k.def = persist[c].def /\ k.read = persist[c].read
    OBVIOUS
  <1>t. persist[c].def # Design!Torn
    BY <1>1, TornIsNone
  <1> HIDE DEF k, n
  <1>6. ASSUME NEW m \in DOMAIN files'
        PROVE  \/ files'[m] = Design!Torn /\ (m \in broken' \/ (k.at = "write" /\ k.name = m))
               \/ /\ m \in DOMAIN files /\ files'[m] = files[m] /\ (m \in broken => m \in broken')
                  /\ persist[c].at = "write" => m # persist[c].name
               \/ /\ files'[m] \in Design!Definition /\ files'[m] # Design!Torn
                  /\ Design!Valid(files'[m]) /\ Design!Assembled(files'[m])
    <2>1. n = persist[c].name
      BY DEF n
    <2>2. CASE m = n
      <3>1. files'[m] = def
        <4>1. files' = [x \in DOMAIN files \cup {n} |-> IF x = n THEN def ELSE files[x]]
          BY <2>1 DEF Design!Put
        <4> QED
          BY <2>2, <4>1
      <3> QED
        BY <1>1, <1>5, <1>t, <2>1, <2>2, <3>1
    <2>3. CASE m # n
      BY <1>4, <2>1, <2>3
    <2> QED
      BY <2>2, <2>3
  <1>f. /\ DOMAIN files \subseteq DOMAIN files' /\ DOMAIN files' \subseteq Networks
        /\ broken' \subseteq Networks
        /\ manifest' \in [state : {"absent", "torn", "whole"}, names : SUBSET Networks]
        /\ manifest'.names \subseteq DOMAIN files' /\ persisted' \subseteq Networks
        /\ k.name \in DOMAIN files' /\ k.read \subseteq DOMAIN files'
    <2>1. DOMAIN files \subseteq Networks /\ broken \subseteq Networks
          /\ manifest \in [state : {"absent", "torn", "whole"}, names : SUBSET Networks]
          /\ manifest.names \subseteq DOMAIN files /\ persisted \subseteq Networks
      BY DesignParts DEF Design!TypeOK, Design!FilesSound
    <2>2. broken' \subseteq Networks
      BY <1>1, <2>1 DEF n
    <2> QED
      BY <1>1, <1>4, <1>5, <2>1, <2>2
  <1>7. /\ Design!TypeOK' /\ Design!FilesSound' /\ Design!PersistInv'
        /\ persist'[c] = k /\ \A d \in Conversations \ {c} : persist'[d] = persist[d]
    BY <1>1, <1>2, <1>3, <1>5, <1>6, <1>f, PersistKept
  <1>8. manifest.state \in {"absent", "torn", "whole"}
    BY DesignParts DEF Design!TypeOK
  <1>9. Design!ManifestInv' /\ Design!PersistedListed'
    BY <1>1, <1>5, <1>7, <1>8, ManifestKept
  <1> QED
    BY <1>7, <1>9 DEF Design!DesignInv

LEMMA DesignOpenFile ==
  ASSUME Design!DesignInv, NEW c \in Conversations, Design!OpenFile(c)
  PROVE  Design!DesignInv'
  BY FilePut DEF Design!OpenFile, Design!Rest

LEMMA DesignWriteFile ==
  ASSUME Design!DesignInv, NEW c \in Conversations, Design!WriteFile(c)
  PROVE  Design!DesignInv'
  BY FilePut DEF Design!WriteFile, Design!Written, Design!Rest

LEMMA DesignWriteOver ==
  ASSUME Design!DesignInv, NEW c \in Conversations, Design!WriteOver(c)
  PROVE  Design!DesignInv'
  BY FilePut DEF Design!WriteOver, Design!Written, Design!Rest

\* The manifest is made, read, emptied or written, and the call goes on or ends.
LEMMA ManifestPut ==
  ASSUME Design!DesignInv, NEW c \in Conversations, persist[c].at # "idle", NEW k,
         persist' = [persist EXCEPT ![c] = k],
         k = Design!Idle \/ (k \in Design!Persisting /\ k.name = persist[c].name /\ k.def = persist[c].def),
         k # Design!Idle => k.at \notin {"open", "write"} /\ k.read \subseteq DOMAIN files,
         persist[c].at \notin {"open", "write"}, files' = files, broken' = broken, definition' = definition, netName' = netName,
         overlapped' = overlapped, edits' = edits,
         manifest' \in [state : {"absent", "torn", "whole"}, names : SUBSET Networks],
         manifest'.names \subseteq DOMAIN files,
         persisted' \subseteq persisted \cup {persist[c].name},
         ~overlapped => /\ manifest'.state = "absent" => persisted' = {}
                        /\ manifest'.state = "torn" => k.at = "update"
                        /\ k.at = "create" => manifest'.state = "absent"
                        /\ k.at = "update" => manifest' = Design!Emptied
                        /\ k.at \in {"read", "empty"} => manifest'.state = "whole"
                        /\ k.at \in {"empty", "update"} => ListedIn(persisted', k.read)
                        /\ manifest'.state = "whole" => ListedIn(persisted', manifest'.names)
  PROVE  Design!DesignInv'
  <1>1. /\ persist[c] \in Design!Persisting /\ persist[c].name \in DOMAIN files
        /\ Design!Valid(persist[c].def) /\ Design!Assembled(persist[c].def)
    BY PersistAt
  <1>2. /\ DOMAIN files \subseteq Networks /\ persisted' \subseteq Networks /\ broken' \subseteq Networks
        /\ DOMAIN files \subseteq DOMAIN files' /\ DOMAIN files' \subseteq Networks
        /\ manifest'.names \subseteq DOMAIN files'
        /\ k # Design!Idle => k.name \in DOMAIN files' /\ k.read \subseteq DOMAIN files'
    BY <1>1, DesignParts DEF Design!TypeOK
  <1>f. \A n \in DOMAIN files' : /\ n \in DOMAIN files /\ files'[n] = files[n]
                                 /\ n \in broken => n \in broken'
                                 /\ persist[c].at = "write" => n # persist[c].name
    OBVIOUS
  <1>3. /\ Design!TypeOK' /\ Design!FilesSound' /\ Design!PersistInv'
        /\ persist'[c] = k /\ \A d \in Conversations \ {c} : persist'[d] = persist[d]
    BY <1>1, <1>2, <1>f, PersistKept
  <1>4. Design!ManifestInv' /\ Design!PersistedListed'
    BY <1>1, <1>3, ManifestKept
  <1> QED
    BY <1>3, <1>4 DEF Design!DesignInv

LEMMA DesignCreateManifest ==
  ASSUME Design!DesignInv, NEW c \in Conversations, Design!CreateManifest(c)
  PROVE  Design!DesignInv'
  <1> DEFINE k == [at |-> "read", name |-> persist[c].name, def |-> persist[c].def,
                   read |-> persist[c].read]
  <1>1. /\ persist[c].at = "create" /\ manifest' = [state |-> "whole", names |-> {}]
        /\ files' = files /\ broken' = broken /\ persisted' = persisted /\ definition' = definition
        /\ netName' = netName /\ overlapped' = overlapped /\ edits' = edits
    BY DEF Design!CreateManifest, Design!Rest
  <1>2. /\ persist[c] \in Design!Persisting /\ persist[c].name \in Networks
        /\ persist[c].def \in Design!Definition /\ persist[c].read \in SUBSET Networks
        /\ persist[c].read \subseteq DOMAIN files /\ (~overlapped => ListedIn(persisted, {}))
    BY <1>1, PersistAt DEF ListedIn
  <1>3. persist' = [persist EXCEPT ![c] = k]
    BY <1>2, PersistGoes DEF Design!CreateManifest, Design!Goto
  <1>4. /\ k \in Design!Persisting /\ k.at = "read" /\ k.name = persist[c].name
        /\ k.def = persist[c].def /\ k.read = persist[c].read
    BY <1>2 DEF Design!Persisting
  <1>5. /\ manifest' \in [state : {"absent", "torn", "whole"}, names : SUBSET Networks]
        /\ manifest'.state = "whole" /\ manifest'.names = {}
    BY <1>1
  <1> HIDE DEF k
  <1> QED
    BY <1>1, <1>2, <1>3, <1>4, <1>5, ManifestPut

\* A name that is listed needs no update; else what is listed is kept at hand.
LEMMA DesignReadManifest ==
  ASSUME Design!DesignInv, NEW c \in Conversations, Design!ReadManifest(c)
  PROVE  Design!DesignInv'
  <1> DEFINE k == [at |-> "empty", name |-> persist[c].name, def |-> persist[c].def,
                   read |-> manifest.names]
  <1>1. /\ persist[c].at = "read" /\ manifest' = manifest
        /\ files' = files /\ broken' = broken /\ definition' = definition
        /\ netName' = netName /\ overlapped' = overlapped /\ edits' = edits
    BY DEF Design!ReadManifest, Design!Rest
  <1>2. /\ persist[c] \in Design!Persisting /\ persist[c].name \in Networks
        /\ persist[c].def \in Design!Definition
        /\ ~overlapped => manifest.state = "whole" /\ ListedIn(persisted, manifest.names)
    BY <1>1, PersistAt
  <1>3. /\ manifest \in [state : {"absent", "torn", "whole"}, names : SUBSET Networks]
        /\ manifest.names \subseteq DOMAIN files /\ manifest.names \subseteq Networks
    BY DesignParts DEF Design!TypeOK, Design!FilesSound
  <1>4. CASE Design!Mentioned(persist[c].name, manifest.names)
    <2>1. persist' = [persist EXCEPT ![c] = Design!Idle] /\ persisted' = persisted \cup {persist[c].name}
      BY <1>4 DEF Design!ReadManifest, Design!Returns
    <2>2. ~overlapped => ListedIn(persisted', manifest.names)
      BY <1>2, <1>4, <2>1 DEF ListedIn
    <2> QED
      BY <1>1, <1>2, <1>3, <2>1, <2>2, DesignParts, ManifestPut
  <1>5. CASE ~Design!Mentioned(persist[c].name, manifest.names)
    <2>1. /\ persist' = [persist EXCEPT ![c] = [persist[c] EXCEPT !.at = "empty", !.read = manifest.names]]
          /\ persisted' = persisted
      BY <1>5 DEF Design!ReadManifest
    <2>2. [persist[c] EXCEPT !.at = "empty", !.read = manifest.names] = k
      BY <1>2, PersistReads, Zenon
    <2>3. /\ k \in Design!Persisting /\ k.at = "empty" /\ k.name = persist[c].name
          /\ k.def = persist[c].def /\ k.read = manifest.names
      BY <1>2, <1>3 DEF Design!Persisting
    <2> HIDE DEF k
    <2>4. persist' = [persist EXCEPT ![c] = k]
      BY <2>1, <2>2
    <2> QED
      BY <1>1, <1>2, <1>3, <2>1, <2>3, <2>4, ManifestPut
  <1> QED
    BY <1>4, <1>5

LEMMA DesignOpenManifest ==
  ASSUME Design!DesignInv, NEW c \in Conversations, Design!OpenManifest(c)
  PROVE  Design!DesignInv'
  <1> DEFINE k == [at |-> "update", name |-> persist[c].name, def |-> persist[c].def,
                   read |-> persist[c].read]
  <1>1. /\ persist[c].at = "empty" /\ manifest' = Design!Emptied
        /\ files' = files /\ broken' = broken /\ persisted' = persisted /\ definition' = definition
        /\ netName' = netName /\ overlapped' = overlapped /\ edits' = edits
    BY DEF Design!OpenManifest, Design!Rest
  <1>2. /\ persist[c] \in Design!Persisting /\ persist[c].name \in Networks
        /\ persist[c].def \in Design!Definition /\ persist[c].read \in SUBSET Networks
        /\ persist[c].read \subseteq DOMAIN files /\ (~overlapped => ListedIn(persisted, persist[c].read))
    BY <1>1, PersistAt
  <1>3. persist' = [persist EXCEPT ![c] = k]
    BY <1>2, PersistGoes DEF Design!OpenManifest, Design!Goto
  <1>4. /\ k \in Design!Persisting /\ k.at = "update" /\ k.name = persist[c].name
        /\ k.def = persist[c].def /\ k.read = persist[c].read
    BY <1>2 DEF Design!Persisting
  <1>5. /\ manifest' \in [state : {"absent", "torn", "whole"}, names : SUBSET Networks]
        /\ manifest'.state = "torn" /\ manifest'.names = {}
    BY <1>1 DEF Design!Emptied
  <1> HIDE DEF k
  <1> QED
    BY <1>1, <1>2, <1>3, <1>4, <1>5, ManifestPut

LEMMA DesignUpdateManifest ==
  ASSUME Design!DesignInv, NEW c \in Conversations, Design!UpdateManifest(c)
  PROVE  Design!DesignInv'
  <1> DEFINE names == persist[c].read \cup {persist[c].name}
  <1>1. /\ persist[c].at = "update" /\ persist' = [persist EXCEPT ![c] = Design!Idle]
        /\ persisted' = persisted \cup {persist[c].name}
        /\ files' = files /\ broken' = broken /\ definition' = definition
        /\ netName' = netName /\ overlapped' = overlapped /\ edits' = edits
    BY DEF Design!UpdateManifest, Design!Returns, Design!Rest
  <1>2. /\ names \in SUBSET Networks /\ names \subseteq DOMAIN files /\ persist[c].name \in names
        /\ ~overlapped => ListedIn(persisted, persist[c].read) /\ manifest = Design!Emptied
    BY <1>1, PersistAt
  <1>3. ~overlapped => ListedIn(persisted', names)
    BY <1>1, <1>2, Mentions DEF ListedIn
  <1>4. /\ manifest \in [state : {"absent", "torn", "whole"}, names : SUBSET Networks]
        /\ manifest.names \subseteq DOMAIN files /\ manifest.names \subseteq Networks
    BY DesignParts DEF Design!TypeOK, Design!FilesSound
  <1>5. \/ manifest' = [state |-> "whole", names |-> names]
        \/ /\ manifest # Design!Emptied
           /\ \E mix \in SUBSET (manifest.names \cup names) : manifest' = [state |-> "torn", names |-> mix]
    BY DEF Design!UpdateManifest, Design!Listing
  <1> HIDE DEF names
  <1>6. CASE manifest' = [state |-> "whole", names |-> names]
    <2>1. /\ manifest' \in [state : {"absent", "torn", "whole"}, names : SUBSET Networks]
          /\ manifest'.state = "whole" /\ manifest'.names = names
      BY <1>2, <1>6
    <2> QED
      BY <1>1, <1>2, <1>3, <2>1, DesignParts, ManifestPut
  <1>7. CASE /\ manifest # Design!Emptied
             /\ \E mix \in SUBSET (manifest.names \cup names) : manifest' = [state |-> "torn", names |-> mix]
    <2>1. PICK mix \in SUBSET (manifest.names \cup names) : manifest' = [state |-> "torn", names |-> mix]
      BY <1>7
    <2>2. /\ manifest' \in [state : {"absent", "torn", "whole"}, names : SUBSET Networks]
          /\ manifest'.names \subseteq DOMAIN files /\ overlapped
      BY <1>2, <1>4, <1>7, <2>1
    <2> QED
      BY <1>1, <2>2, DesignParts, ManifestPut
  <1> QED
    BY <1>5, <1>6, <1>7

\* Calls are cut off: what they were writing may be left half written.
LEMMA DesignCutOff ==
  ASSUME Design!DesignInv, NEW D \in SUBSET Conversations, Design!CutOff(D),
         definition' \in [Conversations -> Design!Definition],
         netName' \in [Conversations -> Networks \cup {NoName}]
  PROVE  Design!DesignInv'
  <1> DEFINE half == Design!Half(D)
  <1>1. /\ persist' = [c \in Conversations |-> IF c \in D THEN Design!Idle ELSE persist[c]]
        /\ broken' = broken \cup {n \in half : files'[n] = Design!Torn}
        /\ overlapped' = (overlapped \/ manifest'.state = "torn")
        /\ persisted' = persisted /\ edits' = edits
    BY DEF Design!CutOff
  <1>2. PICK torn \in SUBSET half :
             files' = [n \in DOMAIN files |-> IF n \in torn THEN Design!Torn ELSE files[n]]
    BY DEF Design!CutOff
  <1>3. /\ Design!TypeOK /\ Design!FilesSound /\ Design!PersistInv /\ Design!ManifestInv
        /\ Design!PersistedListed
    BY DEF Design!DesignInv
  <1>4. /\ \A c \in D : persist'[c] = Design!Idle /\ persist'[c].at = "idle"
        /\ \A c \in Conversations \ D : persist'[c] = persist[c]
        /\ persist' \in [Conversations -> {Design!Idle} \cup Design!Persisting]
    BY <1>1, <1>3 DEF Design!TypeOK, Design!Idle
  <1>5. \A n : n \in half <=> \E c \in D : persist[c].at = "write" /\ persist[c].name = n
    BY DEF Design!Half
  <1>6. half \subseteq Networks
    <2> SUFFICES ASSUME NEW c \in D, persist[c].at = "write" PROVE persist[c].name \in Networks
      BY <1>5
    <2>1. persist[c].at # "idle"
      OBVIOUS
    <2> QED
      BY <2>1, PersistAt
  <1> HIDE DEF half
  <1>7. DOMAIN files' = DOMAIN files
        /\ \A n \in DOMAIN files : files'[n] = IF n \in torn THEN Design!Torn ELSE files[n]
    BY <1>2
  <1>8. \/ manifest' = manifest
        \/ \E names \in SUBSET UNION {Design!Listing(c) : c \in {c \in D : persist[c].at = "update"}} :
               manifest' = [state |-> "torn", names |-> names]
    BY DEF Design!CutOff
  <1>9. /\ manifest' \in [state : {"absent", "torn", "whole"}, names : SUBSET Networks]
        /\ manifest'.names \subseteq DOMAIN files
        /\ manifest'.state # "torn" => manifest' = manifest
    <2>1. CASE manifest' = manifest
      BY <1>3, <2>1 DEF Design!TypeOK, Design!FilesSound
    <2>2. ASSUME NEW names \in SUBSET UNION {Design!Listing(c) : c \in {c \in D : persist[c].at = "update"}},
                 manifest' = [state |-> "torn", names |-> names]
          PROVE  names \subseteq DOMAIN files
      <3>1. ASSUME NEW c \in D, persist[c].at = "update" PROVE Design!Listing(c) \subseteq DOMAIN files
        <4>1. persist[c].at # "idle" /\ persist[c].at # "open"
          BY <3>1
        <4> QED
          BY <4>1, PersistAt DEF Design!Listing
      <3> QED
        BY <2>2, <3>1
    <2>3. DOMAIN files \subseteq Networks
      BY <1>3 DEF Design!TypeOK
    <2> QED
      BY <1>8, <2>1, <2>2, <2>3
  <1>10. Design!TypeOK'
    <2>1. \A n \in DOMAIN files' : files'[n] = Design!Torn \/ files'[n] \in Design!Definition
      BY <1>3, <1>7 DEF Design!TypeOK
    <2>2. broken' \subseteq Networks
      BY <1>1, <1>3, <1>6 DEF Design!TypeOK
    <2> QED
      BY <1>1, <1>3, <1>4, <1>7, <1>9, <2>1, <2>2 DEF Design!TypeOK
  <1>11. Design!FilesSound'
    <2>1. ASSUME NEW n \in DOMAIN files'
          PROVE  IF files'[n] = Design!Torn THEN Design!Writing(n)' \/ n \in broken'
                 ELSE Design!Valid(files'[n]) /\ Design!Assembled(files'[n])
      <3>1. CASE n \in half
        BY <1>1, <1>3, <1>7, <3>1 DEF Design!FilesSound
      <3>2. CASE n \notin half
        <4>1. files'[n] = files[n] /\ n \in DOMAIN files
          BY <1>2, <1>7, <3>2
        <4>2. IF files[n] = Design!Torn THEN Design!Writing(n) \/ n \in broken
              ELSE Design!Valid(files[n]) /\ Design!Assembled(files[n])
          BY <1>3, <4>1 DEF Design!FilesSound
        <4>3. ASSUME Design!Writing(n) PROVE Design!Writing(n)'
          <5>1. PICK d \in Conversations : persist[d].at = "write" /\ persist[d].name = n
            BY <4>3 DEF Design!Writing
          <5>2. persist'[d] = persist[d]
            BY <1>4, <1>5, <3>2, <5>1
          <5> QED
            BY <5>1, <5>2 DEF Design!Writing
        <4> QED
          BY <1>1, <4>1, <4>2, <4>3
      <3> QED
        BY <3>1, <3>2
    <2> QED
      BY <1>7, <1>9, <2>1 DEF Design!FilesSound
  <1>12. Design!PersistInv'
    BY <1>3, <1>4, <1>7 DEF Design!PersistInv
  <1>13. Design!ManifestInv' /\ Design!PersistedListed'
    <2>1. ASSUME ~overlapped' PROVE ~overlapped /\ manifest' = manifest /\ manifest.state # "torn"
      BY <1>1, <1>9, <2>1
    <2>2. Design!PersistedListed'
      BY <1>1, <1>3, <2>1 DEF Design!PersistedListed, Design!Mentioned
    <2>3. Design!ManifestInv'
      <3> SUFFICES ASSUME ~overlapped'
                   PROVE  Design!ManifestInv'
        BY DEF Design!ManifestInv
      <3>1. \A c, d \in Conversations : persist'[c] # Design!Idle /\ persist'[d] # Design!Idle => c = d
        BY <1>3, <1>4, <2>1 DEF Design!ManifestInv
      <3>2. \A c \in Conversations :
               /\ persist'[c].at = "create" => manifest.state = "absent"
               /\ persist'[c].at = "update" => manifest = Design!Emptied
               /\ persist'[c].at \in {"read", "empty"} => manifest.state = "whole"
               /\ persist'[c].at \in {"empty", "update"} => ListedIn(persisted, persist'[c].read)
        BY <1>3, <1>4, <2>1 DEF Design!ManifestInv, ListedIn
      <3>3. manifest.state = "absent" => persisted = {}
        BY <1>3, <2>1 DEF Design!ManifestInv
      <3> QED
        BY <1>1, <2>1, <3>1, <3>2, <3>3
           DEF Design!ManifestInv, Design!Emptied, Design!Mentioned, ListedIn
    <2> QED
      BY <2>2, <2>3
  <1> QED
    BY <1>10, <1>11, <1>12, <1>13 DEF Design!DesignInv

LEMMA DesignPersistFails ==
  ASSUME Design!DesignInv, NEW c \in Conversations, Design!PersistFails(c)
  PROVE  Design!DesignInv'
  <1>1. Design!CutOff({c}) /\ definition' = definition /\ netName' = netName /\ {c} \in SUBSET Conversations
    BY DEF Design!PersistFails
  <1>2. definition' \in [Conversations -> Design!Definition] /\ netName' \in [Conversations -> Networks \cup {NoName}]
    BY <1>1 DEF Design!DesignInv, Design!TypeOK
  <1> QED
    BY <1>1, <1>2, DesignCutOff

LEMMA DesignServerStops ==
  ASSUME Design!DesignInv, Design!ServerStops
  PROVE  Design!DesignInv'
  <1>1. /\ definition' = [c \in Conversations |-> <<>>] /\ netName' = [c \in Conversations |-> NoName]
        /\ Design!CutOff(Conversations) /\ Conversations \in SUBSET Conversations
    BY DEF Design!ServerStops
  <1>2. definition' \in [Conversations -> Design!Definition] /\ netName' \in [Conversations -> Networks \cup {NoName}]
    BY <1>1, NoAgents
  <1> QED
    BY <1>1, <1>2, DesignCutOff

LEMMA DesignBegins == Design!Init => Design!DesignInv
  <1> SUFFICES ASSUME Design!Init PROVE Design!DesignInv
    OBVIOUS
  <1>1. /\ definition = [c \in Conversations |-> <<>>] /\ netName = [c \in Conversations |-> NoName]
        /\ persist = [c \in Conversations |-> Design!Idle] /\ files = <<>> /\ broken = {}
        /\ manifest = [state |-> "absent", names |-> {}] /\ persisted = {} /\ edits = 0
    BY DEF Design!Init
  <1>2. DOMAIN files = {} /\ manifest.names = {} /\ manifest.state = "absent"
    BY <1>1
  <1>3. \A c \in Conversations : persist[c] = Design!Idle /\ persist[c].at = "idle"
    BY <1>1 DEF Design!Idle
  <1>4. Design!TypeOK
    BY <1>1, <1>2, NoAgents, BoundsAssumption DEF Design!TypeOK
  <1>5. Design!FilesSound /\ Design!PersistInv /\ Design!ManifestInv /\ Design!PersistedListed
    BY <1>1, <1>2, <1>3 DEF Design!FilesSound, Design!PersistInv, Design!ManifestInv,
                            Design!PersistedListed
  <1> QED
    BY <1>4, <1>5 DEF Design!DesignInv

LEMMA DesignStays ==
  ASSUME Design!DesignInv, UNCHANGED designVars
  PROVE  Design!DesignInv'
  BY DEF designVars, Design!DesignInv, Design!TypeOK, Design!FilesSound, Design!PersistInv,
         Design!ManifestInv, Design!PersistedListed, Design!Writing, Design!Mentioned

LEMMA DesignNext == Design!DesignInv /\ [Next]_vars => Design!DesignInv'
  <1> SUFFICES ASSUME Design!DesignInv, [Next]_vars PROVE Design!DesignInv'
    OBVIOUS
  <1>1. [Design!Next]_designVars
    BY DEF Next, JwksStep, BoardStep, AuthStep, DrawerStep, BridgeStep, DesignStep, SlackStep,
           MemoryStep, VectorsStep, NewsStep, SettingsStep, FeedbackStep, BlocksStep, Still, vars
  <1>2. CASE Design!Next
    BY <1>2, DesignEdit, DesignBeginPersist, DesignOpenFile, DesignWriteFile, DesignWriteOver,
       DesignCreateManifest, DesignReadManifest, DesignOpenManifest, DesignUpdateManifest,
       DesignPersistFails, DesignServerStops
       DEF Design!Next, Design!Persist
  <1> QED
    BY <1>1, <1>2, DesignStays

\* Whatever the order of edits, and although files and the manifest are written in several
\* steps that can be cut off, a network file holds a validated network unless a call is
\* writing it, was cut off in it, or met another one there; and what was persisted is named
\* in the manifest unless calls overlapped or one was cut off in it (PersistAgentNetwork and
\* the editing tools of the agent network designer).
THEOREM StoreIsSound == Spec => []StoreSound
  <1>1. Init => Design!DesignInv
    BY DesignBegins DEF Init
  <1>2. Design!DesignInv => StoreSound
    BY DEF Design!DesignInv, StoreSound, Design!StoreSound
  <1> QED
    BY <1>1, <1>2, DesignNext, PTL DEF Spec

-----------------------------------------------------------------------------
(* SlackThreads                                                            *)

LEMMA SlackParts ==
  ASSUME Slack!SlackInv
  PROVE  /\ Slack!TypeOK /\ Slack!ClashInv
         /\ \A w \in Workers : Slack!IsBusy(w) => Slack!WorkerOK(w)
         /\ \A t \in Threads : Slack!ThreadOK(t)
         /\ networks \in [Threads -> Networks \cup {NoNetwork}]
         /\ sly_data \in [Threads -> Slack!Message \cup {0}]
         /\ DOMAIN contexts \subseteq Threads \X Networks
         /\ \A k \in DOMAIN contexts : contexts[k] \subseteq Slack!Message
         /\ worker \in [Workers -> {Slack!Idle} \cup Slack!Busy]
         /\ sent \in Seq([thread : Threads, command : Slack!Command])
         /\ answered \subseteq Slack!Message \X Networks /\ clashed \subseteq Threads
  BY DEF Slack!SlackInv, Slack!TypeOK

LEMMA SentTypes ==
  ASSUME Slack!SlackInv
  PROVE  /\ Len(sent) \in Nat /\ Len(sent) <= MaxEvents /\ DOMAIN sent = 1 .. Len(sent)
         /\ MaxEvents \in Nat /\ DOMAIN sent \subseteq Slack!Message
         /\ \A m \in DOMAIN sent :
                sent[m].thread \in Threads /\ sent[m].command.word \in Networks \cup {NoNetwork}
  <1>1. sent \in Seq([thread : Threads, command : Slack!Command]) /\ Len(sent) <= MaxEvents
    BY DEF Slack!SlackInv, Slack!TypeOK
  <1>2. Len(sent) \in Nat /\ DOMAIN sent = 1 .. Len(sent) /\ MaxEvents \in Nat
    BY <1>1, BoundsAssumption, LenProperties
  <1>3. \A m \in DOMAIN sent : sent[m] \in [thread : Threads, command : Slack!Command]
    BY <1>1, ElementOfSeq, <1>2
  <1> QED
    BY <1>1, <1>2, <1>3 DEF Slack!Message, Slack!Command

\* A busy worker: its message, its thread, and that nobody else is at the thread unless two
\* messages have clashed there.
LEMMA BusyWorker ==
  ASSUME Slack!SlackInv, NEW w \in Workers, Slack!IsBusy(w)
  PROVE  /\ worker[w] \in Slack!Busy /\ Slack!WorkerOK(w) /\ worker[w].msg \in DOMAIN sent
         /\ Slack!thread(w) \in Threads /\ Slack!thread(w) = sent[worker[w].msg].thread
         /\ \A v \in Workers \ {w} : Slack!IsBusy(v) /\ Slack!thread(v) = Slack!thread(w)
                => Slack!thread(w) \in clashed
  BY SlackParts, SentTypes DEF Slack!IsBusy, Slack!WorkerOK, Slack!ClashInv, Slack!thread

\* Nothing that concerns other threads than T changes; what is there of T is T's own.
OnlyThread(T) ==
  /\ \A t \in Threads \ {T} : networks'[t] = networks[t] /\ sly_data'[t] = sly_data[t]
  /\ \A k \in Threads \X Networks :
         k[1] # T => /\ k \in DOMAIN contexts' <=> k \in DOMAIN contexts
                     /\ k \in DOMAIN contexts => contexts'[k] = contexts[k]
  /\ \A k \in DOMAIN contexts' : k[1] = T => \A m \in contexts'[k] : Slack!OfThread(m, T)
  /\ \A a \in answered' \ answered : a[1] \in DOMAIN sent /\ sent[a[1]].thread = T

\* A thread keeps its network and sly_data, and those who look it up or set it up.
LEMMA ThreadKeeps ==
  ASSUME Slack!SlackInv, NEW t \in Threads, Slack!ThreadOK(t), networks'[t] = networks[t],
         sly_data'[t] = sly_data[t], sent' = sent, clashed' = clashed,
         \A v \in Workers :
             /\ Slack!IsBusy(v) /\ worker[v].at \in {"lookup", "setup", "data"}
             /\ worker[v].msg \in DOMAIN sent /\ sent[worker[v].msg].thread = t
             => Slack!IsBusy(v)' /\ worker'[v] = worker[v],
         Slack!Open(t) => \A a \in answered' : sent[a[1]].thread = t =>
             networks[t] = a[2] /\ a[1] \in Slack!Stored(<<t, a[2]>>)'
  PROVE  Slack!ThreadOK(t)'
  <1>1. /\ Slack!Openings(t)' = Slack!Openings(t)
        /\ \A m : Slack!DataOf(m)' = Slack!DataOf(m)
    BY DEF Slack!Openings, Slack!DataOf
  <1>2. SUFFICES ASSUME Slack!Open(t) PROVE Slack!ThreadOK(t)'
    BY DEF Slack!ThreadOK, Slack!Open
  <1>3. networks[t] = NoNetwork =>
            \A m \in Slack!Openings(t) : \E v \in Workers :
                Slack!IsBusy(v)' /\ worker'[v].msg = m /\ worker'[v].at \in {"lookup", "setup"}
    BY <1>2 DEF Slack!ThreadOK, Slack!Openings
  <1>4. ASSUME networks[t] # NoNetwork
        PROVE  \E o \in Slack!Message :
                   /\ Slack!Openings(t) = {o}
                   /\ \/ sly_data[t] = Slack!DataOf(o)
                      \/ \E v \in Workers :
                             Slack!IsBusy(v)' /\ worker'[v].msg = o /\ worker'[v].at = "data"
    <2>1. PICK o \in Slack!Message :
              /\ Slack!Openings(t) = {o}
              /\ \/ sly_data[t] = Slack!DataOf(o)
                 \/ \E v \in Workers : Slack!IsBusy(v) /\ worker[v].msg = o /\ worker[v].at = "data"
      BY <1>2, <1>4 DEF Slack!ThreadOK
    <2>2. o \in DOMAIN sent /\ sent[o].thread = t
      BY <2>1 DEF Slack!Openings
    <2> QED
      BY <2>1, <2>2
  <1>5. networks[t] = NoNetwork => sly_data[t] = 0
    BY <1>2 DEF Slack!ThreadOK
  <1>6. \A a \in answered' : sent[a[1]].thread = t =>
            networks[t] = a[2] /\ a[1] \in Slack!Stored(<<t, a[2]>>)'
    BY <1>2
  <1> QED
    BY <1>1, <1>3, <1>4, <1>5, <1>6 DEF Slack!ThreadOK, Slack!Message

\* Nothing changes for a thread.
LEMMA ThreadSame ==
  ASSUME Slack!SlackInv, NEW t \in Threads, Slack!ThreadOK(t), networks'[t] = networks[t],
         sly_data'[t] = sly_data[t], sent' = sent, clashed' = clashed,
         \A n \in Networks : Slack!Stored(<<t, n>>)' = Slack!Stored(<<t, n>>),
         \A v \in Workers :
             /\ Slack!IsBusy(v) /\ worker[v].at \in {"lookup", "setup", "data"}
             /\ worker[v].msg \in DOMAIN sent /\ sent[worker[v].msg].thread = t
             => Slack!IsBusy(v)' /\ worker'[v] = worker[v],
         \A a \in answered' : sent[a[1]].thread = t => a \in answered
  PROVE  Slack!ThreadOK(t)'
  <1>1. \A a \in answered' : sent[a[1]].thread = t => a \in answered /\ a[2] \in Networks
    BY SlackParts
  <1>2. Slack!Open(t) => \A a \in answered' : sent[a[1]].thread = t =>
            networks[t] = a[2] /\ a[1] \in Slack!Stored(<<t, a[2]>>)'
    BY <1>1 DEF Slack!ThreadOK
  <1> QED
    BY <1>2, ThreadKeeps

\* A worker goes on with its message, or ends.
LEMMA WorkerGoesOn ==
  ASSUME Slack!SlackInv, NEW w \in Workers, Slack!IsBusy(w), NEW T, T = Slack!thread(w), NEW k,
         worker' = [worker EXCEPT ![w] = k], k = Slack!Idle \/ k.msg = worker[w].msg,
         sent' = sent, clashed' = clashed, answered \subseteq answered', OnlyThread(T),
         Slack!TypeOK', k # Slack!Idle => Slack!WorkerOK(w)', Slack!ThreadOK(T)'
  PROVE  Slack!SlackInv'
  <1>1. /\ \A v \in Workers \ {w} : worker'[v] = worker[v]
        /\ worker'[w] = k
    BY SlackParts
  <1>2. \A v \in Workers : Slack!IsBusy(v)' => /\ Slack!IsBusy(v)
                                               /\ worker'[v].msg = worker[v].msg
                                               /\ Slack!thread(v)' = Slack!thread(v)
    BY <1>1 DEF Slack!IsBusy, Slack!thread
  <1>3. \A m, t : Slack!OfThread(m, t)' <=> Slack!OfThread(m, t)
    BY DEF Slack!OfThread
  <1>4. Slack!ClashInv'
    <2>1. ASSUME NEW u \in Workers, NEW v \in Workers, Slack!IsBusy(u)', Slack!IsBusy(v)', u # v,
                 Slack!thread(u)' = Slack!thread(v)'
          PROVE  Slack!thread(u)' \in clashed'
      <3>1. /\ Slack!IsBusy(u) /\ Slack!thread(u)' = Slack!thread(u)
            /\ Slack!IsBusy(v) /\ Slack!thread(v)' = Slack!thread(v)
        BY <1>2, <2>1
      <3>2. Slack!thread(u) \in clashed
        BY <2>1, <3>1, SlackParts DEF Slack!ClashInv
      <3> QED
        BY <3>1, <3>2
    <2>2. \A q \in DOMAIN contexts' : q \in Threads \X Networks
      BY DEF Slack!TypeOK
    <2>3. ASSUME NEW q \in DOMAIN contexts', NEW m \in contexts'[q] PROVE Slack!OfThread(m, q[1])'
      <3>1. CASE q[1] = T
        BY <1>3, <3>1 DEF OnlyThread
      <3>2. CASE q[1] # T
        BY <1>3, <2>2, <3>2, SlackParts DEF OnlyThread, Slack!ClashInv
      <3> QED
        BY <3>1, <3>2
    <2>4. \A a \in answered' : a[1] \in DOMAIN sent'
      BY SlackParts DEF OnlyThread, Slack!ClashInv
    <2> QED
      BY <2>1, <2>3, <2>4 DEF Slack!ClashInv
  <1>5. ASSUME NEW v \in Workers, Slack!IsBusy(v)' PROVE Slack!WorkerOK(v)'
    <2>1. CASE v = w
      BY <1>1, <1>5, <2>1 DEF Slack!IsBusy
    <2>2. CASE v # w
      <3>1. /\ worker'[v] = worker[v] /\ Slack!IsBusy(v) /\ Slack!thread(v)' = Slack!thread(v)
            /\ Slack!WorkerOK(v) /\ Slack!thread(v) \in Threads
        BY <1>1, <1>2, <1>5, <2>2, BusyWorker DEF Slack!thread
      <3>2. CASE Slack!Open(Slack!thread(v))
        <4>1. Slack!thread(v) # T
          BY <2>2, <3>1, <3>2, BusyWorker DEF Slack!Open
        <4>2. /\ networks'[Slack!thread(v)] = networks[Slack!thread(v)]
              /\ sly_data'[Slack!thread(v)] = sly_data[Slack!thread(v)]
          BY <3>1, <4>1 DEF OnlyThread
        <4>3. worker[v].net \in Networks => Slack!Stored(Slack!key(v))' = Slack!Stored(Slack!key(v))
          BY <3>1, <4>1 DEF OnlyThread, Slack!Stored, Slack!key
        <4>4. /\ Slack!Openings(Slack!thread(v))' = Slack!Openings(Slack!thread(v))
              /\ Slack!DataOf(worker[v].msg)' = Slack!DataOf(worker[v].msg)
          BY <3>1 DEF Slack!Openings, Slack!DataOf
        <4> QED
          BY <1>3, <3>1, <3>2, <4>2, <4>3, <4>4 DEF Slack!WorkerOK, Slack!Open
      <3>3. CASE ~Slack!Open(Slack!thread(v))
        BY <1>3, <3>1, <3>3 DEF Slack!WorkerOK, Slack!Open
      <3> QED
        BY <3>2, <3>3
    <2> QED
      BY <2>1, <2>2
  <1>6. ASSUME NEW t \in Threads PROVE Slack!ThreadOK(t)'
    <2>1. CASE t = T
      BY <2>1
    <2>2. CASE t # T /\ Slack!Open(t)
      <3>1. Slack!ThreadOK(t) /\ networks'[t] = networks[t] /\ sly_data'[t] = sly_data[t]
        BY <2>2, SlackParts DEF OnlyThread
      <3>2. \A n \in Networks : Slack!Stored(<<t, n>>)' = Slack!Stored(<<t, n>>)
        BY <2>2 DEF OnlyThread, Slack!Stored
      <3>3. \A v \in Workers :
                Slack!IsBusy(v) /\ sent[worker[v].msg].thread = t
                    => Slack!IsBusy(v)' /\ worker'[v] = worker[v]
        BY <1>1, <2>2 DEF Slack!IsBusy, Slack!thread
      <3>4. \A a \in answered' : sent[a[1]].thread = t => a \in answered
        BY <2>2 DEF OnlyThread
      <3> QED
        BY <3>1, <3>2, <3>3, <3>4, ThreadSame
    <2>3. CASE ~Slack!Open(t)
      BY <2>3 DEF Slack!ThreadOK, Slack!Open
    <2> QED
      BY <2>1, <2>2, <2>3
  <1> QED
    BY <1>4, <1>5, <1>6 DEF Slack!SlackInv

\* What a worker becomes: elsewhere, and perhaps with more that it has read.
LEMMA Becomings ==
  ASSUME Slack!SlackInv, NEW w \in Workers, Slack!IsBusy(w),
         NEW a \in {"lookup", "setup", "data", "connect", "clear", "read", "payload", "call"},
         NEW n \in Networks \cup {NoNetwork}, NEW c \in SUBSET Slack!Message,
         NEW d \in Slack!Message \cup {0}, Slack!Becomes(w, a, n, c, d)
  PROVE  \E k \in Slack!Busy :
             /\ worker' = [worker EXCEPT ![w] = k] /\ k # Slack!Idle /\ k.msg = worker[w].msg
             /\ k.at = a /\ k.net = n /\ k.context = c /\ k.sly_data = d
  <1> DEFINE k == [at |-> a, msg |-> worker[w].msg, net |-> n, context |-> c, sly_data |-> d]
  <1>1. worker[w].msg \in Slack!Message
    BY BusyWorker, SentTypes
  <1>2. k \in Slack!Busy /\ k # Slack!Idle
    BY <1>1 DEF Slack!Busy, Slack!Idle
  <1>3. worker' = [worker EXCEPT ![w] = k]
    BY DEF Slack!Becomes
  <1>4. k.msg = worker[w].msg /\ k.at = a /\ k.net = n /\ k.context = c /\ k.sly_data = d
    OBVIOUS
  <1> HIDE DEF k
  <1> QED
    BY <1>2, <1>3, <1>4

LEMMA Goings ==
  ASSUME Slack!SlackInv, NEW w \in Workers, Slack!IsBusy(w),
         NEW a \in {"lookup", "setup", "data", "connect", "clear", "read", "payload", "call"},
         Slack!Goto(w, a)
  PROVE  \E k \in Slack!Busy :
             /\ worker' = [worker EXCEPT ![w] = k] /\ k # Slack!Idle /\ k.msg = worker[w].msg
             /\ k.at = a /\ k.net = worker[w].net /\ k.context = worker[w].context
             /\ k.sly_data = worker[w].sly_data
  <1>1. worker[w] \in Slack!Busy
    BY BusyWorker
  <1>2. /\ worker[w].net \in Networks \cup {NoNetwork} /\ worker[w].context \in SUBSET Slack!Message
        /\ worker[w].sly_data \in Slack!Message \cup {0}
    BY <1>1 DEF Slack!Busy
  <1> DEFINE n == worker[w].net
             c == worker[w].context
             d == worker[w].sly_data
  <1>3. Slack!Becomes(w, a, n, c, d)
    BY DEF Slack!Goto
  <1> HIDE DEF n, c, d
  <1>4. \E k \in Slack!Busy :
             /\ worker' = [worker EXCEPT ![w] = k] /\ k # Slack!Idle /\ k.msg = worker[w].msg
             /\ k.at = a /\ k.net = n /\ k.context = c /\ k.sly_data = d
    BY <1>2, <1>3, Becomings DEF n, c, d
  <1> QED
    BY <1>4 DEF n, c, d

\* The worker's own place changes, and nothing that a thread keeps.
LEMMA OnlyWorker ==
  ASSUME Slack!SlackInv, NEW w \in Workers, Slack!IsBusy(w), NEW k \in Slack!Busy \cup {Slack!Idle},
         worker' = [worker EXCEPT ![w] = k],
         UNCHANGED <<networks, sly_data, contexts, sent, answered, clashed>>
  PROVE  /\ OnlyThread(Slack!thread(w)) /\ Slack!TypeOK' /\ worker'[w] = k
         /\ \A v \in Workers \ {w} : worker'[v] = worker[v]
         /\ \A t : Slack!Openings(t)' = Slack!Openings(t)
         /\ \A m : Slack!DataOf(m)' = Slack!DataOf(m)
         /\ \A q : Slack!Stored(q)' = Slack!Stored(q)
         /\ k.msg = worker[w].msg => Slack!thread(w)' = Slack!thread(w)
  <1>1. worker'[w] = k /\ \A v \in Workers \ {w} : worker'[v] = worker[v]
    BY SlackParts
  <1>2. OnlyThread(Slack!thread(w))
    BY SlackParts DEF OnlyThread, Slack!ClashInv
  <1>3. Slack!TypeOK'
    BY SlackParts DEF Slack!TypeOK
  <1>4. /\ \A t : Slack!Openings(t)' = Slack!Openings(t)
        /\ \A m : Slack!DataOf(m)' = Slack!DataOf(m)
        /\ \A q : Slack!Stored(q)' = Slack!Stored(q)
    BY DEF Slack!Openings, Slack!DataOf, Slack!Stored
  <1>5. k.msg = worker[w].msg => Slack!thread(w)' = Slack!thread(w)
    BY <1>1 DEF Slack!thread
  <1> QED
    BY <1>1, <1>2, <1>3, <1>4, <1>5

\* A worker that is neither looking its thread up nor setting it up goes on or ends.
LEMMA Quietly ==
  ASSUME Slack!SlackInv, NEW w \in Workers, Slack!IsBusy(w),
         worker[w].at \notin {"lookup", "setup", "data"}, NEW k \in Slack!Busy \cup {Slack!Idle},
         worker' = [worker EXCEPT ![w] = k], k = Slack!Idle \/ k.msg = worker[w].msg,
         UNCHANGED <<networks, sly_data, contexts, sent, answered, clashed>>,
         k # Slack!Idle => Slack!WorkerOK(w)'
  PROVE  Slack!SlackInv'
  <1> DEFINE t == Slack!thread(w)
  <1>1. t \in Threads /\ Slack!ThreadOK(t)
    BY BusyWorker, SlackParts
  <1>2. /\ \A v \in Workers : Slack!IsBusy(v) /\ worker[v].at \in {"lookup", "setup", "data"} =>
               Slack!IsBusy(v)' /\ worker'[v] = worker[v]
    BY OnlyWorker DEF Slack!IsBusy
  <1>3. PICK T \in Threads : T = t
    BY <1>1
  <1>4. Slack!ThreadOK(T)'
    <2>1. Slack!ThreadOK(T)
      BY <1>1, <1>3
    <2>2. \A n \in Networks : Slack!Stored(<<T, n>>)' = Slack!Stored(<<T, n>>)
      BY DEF Slack!Stored
    <2> HIDE DEF t
    <2> QED
      BY <2>1, <2>2, <1>2, ThreadSame
  <1>5. OnlyThread(T) /\ Slack!TypeOK'
    BY <1>3, OnlyWorker
  <1> QED
    BY <1>3, <1>4, <1>5, WorkerGoesOn DEF t

LEMMA SlackEnds ==
  ASSUME Slack!SlackInv, NEW w \in Workers, Slack!Acknowledge(w) \/ Slack!Fails(w)
  PROVE  Slack!SlackInv'
  <1>1. Slack!IsBusy(w) /\ worker[w].at \notin {"lookup", "setup", "data"}
    BY DEF Slack!Acknowledge, Slack!Fails, Slack!IsBusy, Slack!Idle
  <1>2. /\ worker' = [worker EXCEPT ![w] = Slack!Idle]
        /\ UNCHANGED <<networks, sly_data, contexts, sent, answered, clashed>>
    BY DEF Slack!Acknowledge, Slack!Fails, Slack!Done
  <1> QED
    BY <1>1, <1>2, Quietly

LEMMA SlackReads ==
  ASSUME Slack!SlackInv, NEW w \in Workers, Slack!GetContext(w) \/ Slack!GetSlyData(w)
  PROVE  Slack!SlackInv'
  <1> DEFINE q == worker[w]
             c == Slack!Stored(Slack!key(w))
             d == sly_data[Slack!thread(w)]
  <1>1. Slack!IsBusy(w) /\ q.at \notin {"lookup", "setup", "data"}
    BY DEF Slack!GetContext, Slack!GetSlyData, Slack!IsBusy, Slack!Idle
  <1>2. PICK T \in Threads : T = Slack!thread(w)
    BY <1>1, BusyWorker
  <1>3. /\ UNCHANGED <<networks, sly_data, contexts, sent, answered, clashed>>
        /\ \/ q.at = "read" /\ Slack!Becomes(w, "payload", q.net, c, q.sly_data)
           \/ q.at = "payload" /\ Slack!Becomes(w, "call", q.net, q.context, d)
    BY DEF Slack!GetContext, Slack!GetSlyData
  <1>4. /\ q \in Slack!Busy /\ Slack!WorkerOK(w) /\ d \in Slack!Message \cup {0} /\ d = sly_data[T]
    BY <1>1, <1>2, BusyWorker, SlackParts
  <1>5. /\ q.net \in Networks \cup {NoNetwork} /\ q.context \in SUBSET Slack!Message
        /\ q.sly_data \in Slack!Message \cup {0}
    BY <1>4 DEF Slack!Busy
  <1>6. c \in SUBSET Slack!Message /\ \A m \in c : Slack!OfThread(m, T)
    BY <1>2, SlackParts DEF Slack!Stored, Slack!ClashInv, Slack!key
  <1> HIDE DEF c, d
  <1>7. PICK k \in Slack!Busy :
            /\ worker' = [worker EXCEPT ![w] = k] /\ k # Slack!Idle /\ k.msg = q.msg /\ k.net = q.net
            /\ \/ q.at = "read" /\ k.at = "payload" /\ k.context = c
               \/ q.at = "payload" /\ k.at = "call" /\ k.context = q.context /\ k.sly_data = d
    BY <1>1, <1>3, <1>4, <1>5, <1>6, Becomings
  <1>8. /\ worker'[w] = k /\ Slack!thread(w)' = T /\ Slack!key(w)' = Slack!key(w)
        /\ \A x : Slack!Stored(x)' = Slack!Stored(x)
    <2>1. /\ worker'[w] = k /\ Slack!thread(w)' = Slack!thread(w)
          /\ \A x : Slack!Stored(x)' = Slack!Stored(x)
      BY <1>1, <1>3, <1>7, OnlyWorker
    <2> QED
      BY <1>2, <1>7, <2>1 DEF Slack!key
  <1>9. \A m : Slack!OfThread(m, T)' <=> Slack!OfThread(m, T)
    BY <1>3 DEF Slack!OfThread
  <1>10. Slack!WorkerOK(w)'
    BY <1>2, <1>3, <1>4, <1>6, <1>7, <1>8, <1>9 DEF Slack!WorkerOK, Slack!Open, c
  <1> QED
    BY <1>1, <1>3, <1>7, <1>10, Quietly

LEMMA SlackLookup ==
  ASSUME Slack!SlackInv, NEW w \in Workers, Slack!Lookup(w)
  PROVE  Slack!SlackInv'
  <1> DEFINE m == worker[w].msg
             word == sent[m].command.word
  <1>1. Slack!IsBusy(w) /\ worker[w].at = "lookup"
    BY DEF Slack!Lookup, Slack!IsBusy, Slack!Idle
  <1>2. PICK T \in Threads : T = Slack!thread(w)
    BY <1>1, BusyWorker
  <1>3. UNCHANGED <<networks, sly_data, contexts, sent, answered, clashed>>
    BY DEF Slack!Lookup
  <1>12. \/ networks[T] # NoNetwork /\ Slack!Becomes(w, "clear", networks[T], {}, 0)
         \/ networks[T] = NoNetwork /\ word # NoNetwork /\ Slack!Becomes(w, "setup", word, {}, 0)
         \/ /\ networks[T] = NoNetwork /\ word = NoNetwork
            /\ worker' = [worker EXCEPT ![w] = Slack!Idle]
    BY <1>2 DEF Slack!Lookup, Slack!Done
  <1>4. /\ m \in DOMAIN sent /\ sent[m].thread = T /\ Slack!ThreadOK(T)
        /\ networks[T] \in Networks \cup {NoNetwork} /\ word \in Networks \cup {NoNetwork}
    BY <1>1, <1>2, BusyWorker, SlackParts, SentTypes
  <1> HIDE DEF word
  <1>5. PICK k \in Slack!Busy \cup {Slack!Idle} :
            /\ worker' = [worker EXCEPT ![w] = k]
            /\ k = Slack!Idle \/ (k.msg = m /\ k.context = {})
            /\ \/ networks[T] # NoNetwork /\ k # Slack!Idle /\ k.at = "clear" /\ k.net = networks[T]
               \/ /\ networks[T] = NoNetwork /\ word # NoNetwork /\ k # Slack!Idle /\ k.at = "setup"
                  /\ k.net = word
               \/ networks[T] = NoNetwork /\ word = NoNetwork /\ k = Slack!Idle
    <2>1. CASE networks[T] # NoNetwork /\ Slack!Becomes(w, "clear", networks[T], {}, 0)
      BY <1>1, <1>4, <2>1, Becomings
    <2>2. CASE networks[T] = NoNetwork /\ word # NoNetwork /\ Slack!Becomes(w, "setup", word, {}, 0)
      BY <1>1, <1>4, <2>2, Becomings
    <2>3. CASE /\ networks[T] = NoNetwork /\ word = NoNetwork
               /\ worker' = [worker EXCEPT ![w] = Slack!Idle]
      BY <2>3
    <2> QED
      BY <1>12, <2>1, <2>2, <2>3
  <1>6. /\ worker'[w] = k /\ \A v \in Workers \ {w} : worker'[v] = worker[v]
        /\ OnlyThread(T) /\ Slack!TypeOK'
        /\ Slack!Openings(T)' = Slack!Openings(T) /\ \A x : Slack!DataOf(x)' = Slack!DataOf(x)
        /\ \A x : Slack!Stored(x)' = Slack!Stored(x)
        /\ k # Slack!Idle => Slack!thread(w)' = T
    <2>1. /\ worker'[w] = k /\ \A v \in Workers \ {w} : worker'[v] = worker[v]
          /\ OnlyThread(Slack!thread(w)) /\ Slack!TypeOK'
          /\ \A t : Slack!Openings(t)' = Slack!Openings(t)
          /\ \A x : Slack!DataOf(x)' = Slack!DataOf(x)
          /\ \A x : Slack!Stored(x)' = Slack!Stored(x)
          /\ k.msg = worker[w].msg => Slack!thread(w)' = Slack!thread(w)
      <3>1. k \in Slack!Busy \cup {Slack!Idle} /\ worker' = [worker EXCEPT ![w] = k]
        BY <1>5
      <3>2. Slack!IsBusy(w)
        BY <1>1
      <3> QED
        BY <1>3, <3>1, <3>2, OnlyWorker
    <2> QED
      BY <1>2, <1>5, <2>1
  <1>7. word # NoNetwork <=> m \in Slack!Openings(T)
    BY <1>4 DEF Slack!Openings, word
  <1>8. k # Slack!Idle => Slack!WorkerOK(w)'
    BY <1>3, <1>4, <1>5, <1>6, <1>7 DEF Slack!WorkerOK, Slack!Open
  <1>9. Slack!ThreadOK(T)'
    <2>1. SUFFICES ASSUME Slack!Open(T) PROVE Slack!ThreadOK(T)'
      BY <1>3 DEF Slack!ThreadOK, Slack!Open
    <2>2. CASE networks[T] # NoNetwork
      <3>1. PICK o \in Slack!Message :
                /\ Slack!Openings(T) = {o}
                /\ \/ sly_data[T] = Slack!DataOf(o)
                   \/ \E v \in Workers : Slack!IsBusy(v) /\ worker[v].msg = o /\ worker[v].at = "data"
        BY <1>4, <2>1, <2>2 DEF Slack!ThreadOK
      <3>2. \/ sly_data[T] = Slack!DataOf(o)
            \/ \E v \in Workers : Slack!IsBusy(v)' /\ worker'[v].msg = o /\ worker'[v].at = "data"
        BY <1>1, <1>6, <3>1 DEF Slack!IsBusy
      <3> QED
        BY <1>3, <1>4, <1>6, <2>1, <2>2, <3>1, <3>2 DEF Slack!ThreadOK, Slack!Message
    <2>3. CASE networks[T] = NoNetwork
      <3>1. ASSUME NEW x \in Slack!Openings(T)
            PROVE  \E v \in Workers : /\ Slack!IsBusy(v)' /\ worker'[v].msg = x
                                       /\ worker'[v].at \in {"lookup", "setup"}
        <4>1. PICK v \in Workers : /\ Slack!IsBusy(v) /\ worker[v].msg = x
                                    /\ worker[v].at \in {"lookup", "setup"}
          BY <1>4, <2>1, <2>3, <3>1 DEF Slack!ThreadOK
        <4>2. v = w => k # Slack!Idle /\ k.at = "setup" /\ k.msg = x
          BY <1>5, <1>7, <2>3, <3>1, <4>1
        <4> QED
          BY <1>6, <4>1, <4>2 DEF Slack!IsBusy
      <3> QED
        BY <1>3, <1>4, <1>6, <2>1, <2>3, <3>1 DEF Slack!ThreadOK
    <2> QED
      BY <2>2, <2>3
  <1>10. k = Slack!Idle \/ k.msg = worker[w].msg
    BY <1>5
  <1>11. sent' = sent /\ clashed' = clashed /\ answered \subseteq answered'
    BY <1>3
  <1>13. worker' = [worker EXCEPT ![w] = k] /\ Slack!IsBusy(w) /\ T = Slack!thread(w)
    BY <1>1, <1>2, <1>5
  <1>14. OnlyThread(T) /\ Slack!TypeOK'
    BY <1>6
  <1> HIDE DEF m
  <1> QED
    BY <1>8, <1>9, <1>10, <1>11, <1>13, <1>14, WorkerGoesOn




\* setup_new_network: the thread had no network, and no message but this one named any.
LEMMA SlackSetNetwork ==
  ASSUME Slack!SlackInv, NEW w \in Workers, Slack!SetNetwork(w)
  PROVE  Slack!SlackInv'
  <1>1. Slack!IsBusy(w) /\ worker[w].at = "setup"
    BY DEF Slack!SetNetwork, Slack!IsBusy, Slack!Idle
  <1>2. PICK T \in Threads : T = Slack!thread(w)
    BY <1>1, BusyWorker
  <1>3. PICK m \in DOMAIN sent : m = worker[w].msg
    BY <1>1, BusyWorker
  <1>4. PICK n \in Networks : n = worker[w].net
    BY <1>1, BusyWorker DEF Slack!WorkerOK
  <1>5. /\ Slack!WorkerOK(w) /\ Slack!ThreadOK(T) /\ sent[m].thread = T /\ n # NoNetwork
        /\ \A v \in Workers \ {w} : Slack!IsBusy(v) /\ Slack!thread(v) = T => ~Slack!Open(T)
    BY <1>1, <1>2, <1>3, SlackParts, BusyWorker, SlackAssumption DEF Slack!Open
  <1>6. networks' = [networks EXCEPT ![T] = n]
    BY <1>2, <1>4 DEF Slack!SetNetwork
  <1>7. UNCHANGED <<sly_data, contexts, sent, answered, clashed>>
    BY DEF Slack!SetNetwork
  <1>8. \E a \in {"data", "clear", "connect"} :
            Slack!Goto(w, a) /\ (a = "data" <=> sent[m].command.data)
    BY <1>3 DEF Slack!SetNetwork, Slack!AfterSetup
  <1>9. PICK k \in Slack!Busy :
            /\ worker' = [worker EXCEPT ![w] = k] /\ k # Slack!Idle /\ k.msg = worker[w].msg
            /\ k.net = n /\ k.context = worker[w].context /\ k.at \in {"data", "clear", "connect"}
            /\ k.at = "data" <=> sent[m].command.data
    BY <1>1, <1>4, <1>8, Goings
  <1>10. worker'[w] = k /\ \A v \in Workers \ {w} : worker'[v] = worker[v]
    BY <1>9, SlackParts
  <1>11. networks'[T] = n /\ \A t \in Threads \ {T} : networks'[t] = networks[t]
    BY <1>6, SlackParts
  <1>12. OnlyThread(T)
    BY <1>7, <1>11, SlackParts DEF OnlyThread, Slack!ClashInv
  <1>13. Slack!TypeOK'
    BY <1>6, <1>7, <1>9, SlackParts DEF Slack!TypeOK
  <1>14. /\ Slack!Openings(T)' = Slack!Openings(T)
         /\ \A x : Slack!DataOf(x)' = Slack!DataOf(x)
         /\ \A x : Slack!OfThread(x, T)' <=> Slack!OfThread(x, T)
    BY <1>7 DEF Slack!Openings, Slack!DataOf, Slack!OfThread
  <1>15. Slack!thread(w)' = T
    BY <1>2, <1>7, <1>9, <1>10 DEF Slack!thread
  <1>16. Slack!WorkerOK(w)'
    <2>1. k.at = "data" => Slack!DataOf(m) = m
      BY <1>9 DEF Slack!DataOf
    <2>2. Slack!Open(T) => m \in Slack!Openings(T)
      BY <1>1, <1>2, <1>3, <1>5 DEF Slack!WorkerOK
    <2>3. \A x \in worker[w].context : Slack!OfThread(x, T)
      BY <1>2, <1>5 DEF Slack!WorkerOK
    <2> QED
      BY <1>3, <1>7, <1>9, <1>10, <1>11, <1>14, <1>15, <2>1, <2>2, <2>3
      DEF Slack!WorkerOK, Slack!Open
  <1>17. Slack!ThreadOK(T)'
    <2>1. SUFFICES ASSUME Slack!Open(T) PROVE Slack!ThreadOK(T)'
      BY <1>7 DEF Slack!ThreadOK, Slack!Open
    <2>2. networks[T] = NoNetwork /\ m \in Slack!Openings(T)
      BY <1>1, <1>2, <1>3, <1>5, <2>1 DEF Slack!WorkerOK
    <2>3. sly_data[T] = 0
      BY <1>5, <2>1, <2>2 DEF Slack!ThreadOK
    <2>4. ASSUME NEW x \in Slack!Openings(T) PROVE x = m
      <3>1. PICK v \in Workers : Slack!IsBusy(v) /\ worker[v].msg = x
        BY <1>5, <2>1, <2>2, <2>4 DEF Slack!ThreadOK
      <3>2. Slack!thread(v) = T
        BY <2>4, <3>1 DEF Slack!Openings, Slack!thread
      <3> QED
        BY <1>3, <1>5, <2>1, <3>1, <3>2
    <2>5. Slack!Openings(T) = {m} /\ m \in Slack!Message
      BY <2>2, <2>4, SentTypes
    <2>6. sly_data[T] = Slack!DataOf(m)
              \/ (Slack!IsBusy(w)' /\ worker'[w].msg = m /\ worker'[w].at = "data")
      BY <1>3, <1>9, <1>10, <2>3 DEF Slack!DataOf, Slack!IsBusy
    <2>7. \A a \in answered : sent[a[1]].thread # T
      BY <1>5, <2>1, <2>2, SlackParts, SlackAssumption DEF Slack!ThreadOK
    <2> QED
      BY <1>5, <1>7, <1>11, <1>14, <2>5, <2>6, <2>7 DEF Slack!ThreadOK, Slack!Message
  <1>18. k.msg = worker[w].msg /\ worker' = [worker EXCEPT ![w] = k]
    BY <1>9
  <1>19. sent' = sent /\ clashed' = clashed /\ answered \subseteq answered'
    BY <1>7
  <1> QED
    BY <1>1, <1>2, <1>12, <1>13, <1>16, <1>17, <1>18, <1>19, WorkerGoesOn

\* The message that gives a thread its sly_data is the one that named its network.
LEMMA SlackSetSlyData ==
  ASSUME Slack!SlackInv, NEW w \in Workers, Slack!SetSlyData(w)
  PROVE  Slack!SlackInv'
  <1>1. Slack!IsBusy(w) /\ worker[w].at = "data"
    BY DEF Slack!SetSlyData, Slack!IsBusy, Slack!Idle
  <1>2. PICK T \in Threads : T = Slack!thread(w)
    BY <1>1, BusyWorker
  <1>3. PICK m \in DOMAIN sent : m = worker[w].msg
    BY <1>1, BusyWorker
  <1>4. PICK n \in Networks : n = worker[w].net
    BY <1>1, BusyWorker DEF Slack!WorkerOK
  <1>5. /\ Slack!WorkerOK(w) /\ Slack!ThreadOK(T) /\ sent[m].thread = T /\ n # NoNetwork
        /\ m \in Slack!Message
    BY <1>1, <1>2, <1>3, SlackParts, BusyWorker, SentTypes, SlackAssumption
  <1>6. sly_data' = [sly_data EXCEPT ![T] = m]
    BY <1>2, <1>3 DEF Slack!SetSlyData
  <1>7. UNCHANGED <<networks, contexts, sent, answered, clashed>>
    BY DEF Slack!SetSlyData
  <1>8. \E a \in {"clear", "connect"} : Slack!Goto(w, a)
    BY DEF Slack!SetSlyData, Slack!AfterSetup
  <1>9. PICK k \in Slack!Busy :
            /\ worker' = [worker EXCEPT ![w] = k] /\ k # Slack!Idle /\ k.msg = worker[w].msg
            /\ k.net = n /\ k.context = worker[w].context /\ k.at \in {"clear", "connect"}
    BY <1>1, <1>4, <1>8, Goings
  <1>10. worker'[w] = k /\ \A v \in Workers \ {w} : worker'[v] = worker[v]
    BY <1>9, SlackParts
  <1>11. sly_data'[T] = m /\ \A t \in Threads \ {T} : sly_data'[t] = sly_data[t]
    BY <1>6, SlackParts
  <1>12. OnlyThread(T)
    BY <1>7, <1>11, SlackParts DEF OnlyThread, Slack!ClashInv
  <1>13. Slack!TypeOK'
    BY <1>5, <1>6, <1>7, <1>9, SlackParts DEF Slack!TypeOK
  <1>14. /\ Slack!Openings(T)' = Slack!Openings(T)
         /\ \A x : Slack!DataOf(x)' = Slack!DataOf(x)
         /\ \A x : Slack!OfThread(x, T)' <=> Slack!OfThread(x, T)
         /\ \A x : Slack!Stored(x)' = Slack!Stored(x)
    BY <1>7 DEF Slack!Openings, Slack!DataOf, Slack!OfThread, Slack!Stored
  <1>15. Slack!thread(w)' = T
    BY <1>2, <1>7, <1>9, <1>10 DEF Slack!thread
  <1>16. Slack!WorkerOK(w)'
    <2>1. \A x \in worker[w].context : Slack!OfThread(x, T)
      BY <1>2, <1>5 DEF Slack!WorkerOK
    <2>2. Slack!Open(T) => networks[T] = n
      BY <1>1, <1>2, <1>4, <1>5 DEF Slack!WorkerOK
    <2> QED
      BY <1>3, <1>7, <1>9, <1>10, <1>14, <1>15, <2>1, <2>2 DEF Slack!WorkerOK, Slack!Open
  <1>17. Slack!ThreadOK(T)'
    <2>1. SUFFICES ASSUME Slack!Open(T) PROVE Slack!ThreadOK(T)'
      BY <1>7 DEF Slack!ThreadOK, Slack!Open
    <2>2. networks[T] = n /\ m \in Slack!Openings(T) /\ Slack!DataOf(m) = m
      BY <1>1, <1>2, <1>3, <1>4, <1>5, <2>1 DEF Slack!WorkerOK
    <2>3. PICK o \in Slack!Message : Slack!Openings(T) = {o}
      BY <1>5, <2>1, <2>2 DEF Slack!ThreadOK
    <2>4. Slack!Openings(T) = {m}
      BY <2>2, <2>3
    <2>5. \A a \in answered : sent[a[1]].thread = T =>
              networks[T] = a[2] /\ a[1] \in Slack!Stored(<<T, a[2]>>)
      BY <1>5, <2>1 DEF Slack!ThreadOK
    <2> QED
      BY <1>5, <1>7, <1>11, <1>14, <2>2, <2>4, <2>5 DEF Slack!ThreadOK, Slack!Message
  <1>18. k.msg = worker[w].msg /\ worker' = [worker EXCEPT ![w] = k]
    BY <1>9
  <1>19. sent' = sent /\ clashed' = clashed /\ answered \subseteq answered'
    BY <1>7
  <1> QED
    BY <1>1, <1>2, <1>12, <1>13, <1>16, <1>17, <1>18, <1>19, WorkerGoesOn

\* clear_old_contexts: the context in use stays.
LEMMA SlackClearOld ==
  ASSUME Slack!SlackInv, NEW w \in Workers, Slack!ClearOld(w)
  PROVE  Slack!SlackInv'
  <1>1. Slack!IsBusy(w) /\ worker[w].at = "clear"
    BY DEF Slack!ClearOld, Slack!IsBusy, Slack!Idle
  <1>2. PICK T \in Threads : T = Slack!thread(w)
    BY <1>1, BusyWorker
  <1>3. PICK n \in Networks : n = worker[w].net
    BY <1>1, BusyWorker DEF Slack!WorkerOK
  <1>4. Slack!WorkerOK(w) /\ Slack!ThreadOK(T)
    BY <1>1, <1>2, SlackParts, BusyWorker
  <1>5. contexts' = [q \in {q \in DOMAIN contexts : q[1] = T => q = <<T, n>>} |-> contexts[q]]
    BY <1>2, <1>3 DEF Slack!ClearOld, Slack!key
  <1>6. UNCHANGED <<networks, sly_data, sent, answered, clashed>>
    BY DEF Slack!ClearOld
  <1>7. Slack!Goto(w, "read")
    BY DEF Slack!ClearOld
  <1>8. PICK k \in Slack!Busy :
            /\ worker' = [worker EXCEPT ![w] = k] /\ k # Slack!Idle /\ k.msg = worker[w].msg
            /\ k.net = n /\ k.context = worker[w].context /\ k.at = "read"
    BY <1>1, <1>3, <1>7, Goings
  <1>9. worker'[w] = k /\ \A v \in Workers \ {w} : worker'[v] = worker[v]
    BY <1>8, SlackParts
  <1>10. /\ DOMAIN contexts' \subseteq DOMAIN contexts
         /\ \A q \in DOMAIN contexts' : contexts'[q] = contexts[q]
         /\ \A q \in DOMAIN contexts : q[1] # T \/ q = <<T, n>> => q \in DOMAIN contexts'
    BY <1>5
  <1>11. OnlyThread(T)
    <2>1. ASSUME NEW q \in Threads \X Networks, q[1] # T
          PROVE  /\ q \in DOMAIN contexts' <=> q \in DOMAIN contexts
                 /\ q \in DOMAIN contexts => contexts'[q] = contexts[q]
      <3>1. q \in DOMAIN contexts' <=> q \in DOMAIN contexts
        BY <1>10, <2>1
      <3>2. q \in DOMAIN contexts => contexts'[q] = contexts[q]
        BY <1>10, <3>1
      <3> QED
        BY <3>1, <3>2
    <2> QED
      BY <1>6, <1>10, <2>1, SlackParts DEF OnlyThread, Slack!ClashInv
  <1>12. Slack!TypeOK'
    BY <1>6, <1>8, <1>10, SlackParts DEF Slack!TypeOK
  <1>13. Slack!thread(w)' = T /\ \A x : Slack!OfThread(x, T)' <=> Slack!OfThread(x, T)
    BY <1>2, <1>6, <1>8, <1>9 DEF Slack!thread, Slack!OfThread
  <1>14. Slack!WorkerOK(w)'
    <2>1. worker[w].msg \in DOMAIN sent /\ \A x \in worker[w].context : Slack!OfThread(x, T)
      BY <1>2, <1>4 DEF Slack!WorkerOK
    <2>2. Slack!Open(T) => networks[T] = n
      BY <1>1, <1>2, <1>3, <1>4 DEF Slack!WorkerOK
    <2> QED
      BY <1>6, <1>8, <1>9, <1>13, <2>1, <2>2 DEF Slack!WorkerOK, Slack!Open
  <1>15. Slack!ThreadOK(T)'
    <2>1. Slack!Stored(<<T, n>>)' = Slack!Stored(<<T, n>>)
      BY <1>10 DEF Slack!Stored
    <2>2. ASSUME Slack!Open(T), NEW a \in answered', sent[a[1]].thread = T
          PROVE  networks[T] = a[2] /\ a[1] \in Slack!Stored(<<T, a[2]>>)'
      <3>1. networks[T] = a[2] /\ a[1] \in Slack!Stored(<<T, a[2]>>)
        BY <1>4, <1>6, <2>2 DEF Slack!ThreadOK
      <3>2. networks[T] = n
        BY <1>1, <1>2, <1>3, <1>4, <2>2 DEF Slack!WorkerOK
      <3> QED
        BY <2>1, <3>1, <3>2
    <2>3. \A v \in Workers : Slack!IsBusy(v) /\ worker[v].at \in {"lookup", "setup", "data"} =>
              Slack!IsBusy(v)' /\ worker'[v] = worker[v]
      BY <1>1, <1>9 DEF Slack!IsBusy
    <2>4. /\ networks'[T] = networks[T] /\ sly_data'[T] = sly_data[T]
          /\ sent' = sent /\ clashed' = clashed
      BY <1>6
    <2> QED
      BY <1>4, <2>2, <2>3, <2>4, ThreadKeeps
  <1>16. k.msg = worker[w].msg /\ worker' = [worker EXCEPT ![w] = k]
    BY <1>8
  <1>17. sent' = sent /\ clashed' = clashed /\ answered \subseteq answered'
    BY <1>6
  <1> QED
    BY <1>1, <1>2, <1>11, <1>12, <1>14, <1>15, <1>16, <1>17, WorkerGoesOn

\* The answer is stored with the context it was asked with: nothing was stored meanwhile.
LEMMA SlackStoreContext ==
  ASSUME Slack!SlackInv, NEW w \in Workers, Slack!StoreContext(w)
  PROVE  Slack!SlackInv'
  <1>1. Slack!IsBusy(w) /\ worker[w].at = "call"
    BY DEF Slack!StoreContext, Slack!IsBusy, Slack!Idle
  <1>2. PICK T \in Threads : T = Slack!thread(w)
    BY <1>1, BusyWorker
  <1>3. PICK m \in DOMAIN sent : m = worker[w].msg
    BY <1>1, BusyWorker
  <1>4. PICK n \in Networks : n = worker[w].net
    BY <1>1, BusyWorker DEF Slack!WorkerOK
  <1>5. /\ Slack!WorkerOK(w) /\ Slack!ThreadOK(T) /\ sent[m].thread = T
        /\ m \in Slack!Message /\ worker[w] \in Slack!Busy
    BY <1>1, <1>2, <1>3, SlackParts, BusyWorker, SentTypes
  <1>6. PICK c \in SUBSET Slack!Message : c = worker[w].context
    BY <1>5 DEF Slack!Busy
  <1>7. contexts' = [q \in DOMAIN contexts \cup {<<T, n>>} |->
                         IF q = <<T, n>> THEN c \cup {m} ELSE contexts[q]]
    BY <1>2, <1>3, <1>4, <1>6 DEF Slack!StoreContext, Slack!key
  <1>8. /\ UNCHANGED <<networks, sly_data, sent, clashed>>
        /\ worker' = [worker EXCEPT ![w] = Slack!Idle]
    BY DEF Slack!StoreContext, Slack!Done
  <1>9. answered' = answered \cup {<<m, n>>}
    BY <1>3, <1>4 DEF Slack!StoreContext
  <1>10. worker'[w] = Slack!Idle /\ \A v \in Workers \ {w} : worker'[v] = worker[v]
    BY <1>8, SlackParts
  <1>11. /\ DOMAIN contexts' = DOMAIN contexts \cup {<<T, n>>}
         /\ contexts'[<<T, n>>] = c \cup {m}
         /\ \A q \in DOMAIN contexts : q # <<T, n>> => contexts'[q] = contexts[q]
    BY <1>7
  <1>12. \A x \in c \cup {m} : Slack!OfThread(x, T)
    BY <1>2, <1>5, <1>6 DEF Slack!WorkerOK, Slack!OfThread
  <1>13. OnlyThread(T)
    <2>1. ASSUME NEW q \in Threads \X Networks, q[1] # T
          PROVE  /\ q \in DOMAIN contexts' <=> q \in DOMAIN contexts
                 /\ q \in DOMAIN contexts => contexts'[q] = contexts[q]
      <3>1. q # <<T, n>>
        BY <2>1
      <3>2. q \in DOMAIN contexts' <=> q \in DOMAIN contexts
        BY <1>11, <3>1
      <3>3. q \in DOMAIN contexts => contexts'[q] = contexts[q]
        BY <1>11, <3>1
      <3> QED
        BY <3>2, <3>3
    <2>2. ASSUME NEW q \in DOMAIN contexts', q[1] = T, NEW x \in contexts'[q]
          PROVE  Slack!OfThread(x, T)
      <3>1. CASE q = <<T, n>>
        BY <1>11, <1>12, <2>2, <3>1
      <3>2. CASE q # <<T, n>>
        BY <1>11, <2>2, <3>2, SlackParts DEF Slack!ClashInv
      <3> QED
        BY <3>1, <3>2
    <2>3. \A a \in answered' \ answered : a[1] \in DOMAIN sent /\ sent[a[1]].thread = T
      BY <1>5, <1>9
    <2> QED
      BY <1>8, <2>1, <2>2, <2>3 DEF OnlyThread
  <1>14. Slack!TypeOK'
    <2>1. DOMAIN contexts' \subseteq Threads \X Networks
      BY <1>11, SlackParts
    <2>2. \A q \in DOMAIN contexts' : contexts'[q] \subseteq Slack!Message
      BY <1>5, <1>11, SlackParts
    <2>3. answered' \subseteq Slack!Message \X Networks
      BY <1>5, <1>9, SlackParts
    <2> QED
      BY <1>8, <2>1, <2>2, <2>3, SlackParts DEF Slack!TypeOK
  <1>15. Slack!ThreadOK(T)'
    <2>1. Slack!Stored(<<T, n>>)' = c \cup {m}
      BY <1>11 DEF Slack!Stored
    <2>2. ASSUME Slack!Open(T), NEW a \in answered', sent[a[1]].thread = T
          PROVE  networks[T] = a[2] /\ a[1] \in Slack!Stored(<<T, a[2]>>)'
      <3>1. networks[T] = n /\ c = Slack!Stored(<<T, n>>)
        BY <1>1, <1>2, <1>4, <1>5, <1>6, <2>2 DEF Slack!WorkerOK, Slack!key
      <3>2. CASE a \in answered
        <4>1. networks[T] = a[2] /\ a[1] \in Slack!Stored(<<T, a[2]>>)
          BY <1>5, <2>2, <3>2 DEF Slack!ThreadOK
        <4> QED
          BY <2>1, <3>1, <4>1
      <3>3. CASE a = <<m, n>>
        BY <2>1, <3>1, <3>3
      <3> QED
        BY <1>9, <2>2, <3>2, <3>3
    <2>3. \A v \in Workers : Slack!IsBusy(v) /\ worker[v].at \in {"lookup", "setup", "data"} =>
              Slack!IsBusy(v)' /\ worker'[v] = worker[v]
      BY <1>1, <1>10 DEF Slack!IsBusy
    <2>4. /\ networks'[T] = networks[T] /\ sly_data'[T] = sly_data[T]
          /\ sent' = sent /\ clashed' = clashed
      BY <1>8
    <2> QED
      BY <1>5, <2>2, <2>3, <2>4, ThreadKeeps
  <1>16. sent' = sent /\ clashed' = clashed /\ answered \subseteq answered'
    BY <1>8, <1>9
  <1>17. PICK k \in {Slack!Idle} : worker' = [worker EXCEPT ![w] = k] /\ k = Slack!Idle
    BY <1>8
  <1> QED
    BY <1>1, <1>2, <1>13, <1>14, <1>15, <1>16, <1>17, WorkerGoesOn

\* An idle worker takes a message, new or delivered again: two at a thread have clashed, and
\* a message that names a network comes to a thread that has none.
LEMMA SlackTakes ==
  ASSUME Slack!SlackInv, NEW w \in Workers, worker[w] = Slack!Idle, NEW m \in Slack!Message,
         NEW t \in Threads, Slack!Take(w, m, t),
         sent' \in Seq([thread : Threads, command : Slack!Command]), Len(sent') <= MaxEvents,
         DOMAIN sent' = DOMAIN sent \cup {m}, \A x \in DOMAIN sent : sent'[x] = sent[x],
         sent'[m].thread = t,
         networks[t] # NoNetwork /\ m \notin DOMAIN sent => sent'[m].command.word = NoNetwork
  PROVE  Slack!SlackInv'
  <1>1. UNCHANGED <<networks, sly_data, contexts, answered>>
    BY DEF Slack!Take
  <1>2. PICK k \in Slack!Busy :
            worker' = [worker EXCEPT ![w] = k] /\ k.at = "lookup" /\ k.msg = m /\ k.context = {}
    <2> DEFINE j == [at |-> "lookup", msg |-> m, net |-> NoNetwork, context |-> {}, sly_data |-> 0]
    <2>1. j \in Slack!Busy
      BY DEF Slack!Busy
    <2>2. worker' = [worker EXCEPT ![w] = j]
      BY DEF Slack!Take
    <2>3. j.at = "lookup" /\ j.msg = m /\ j.context = {}
      OBVIOUS
    <2> HIDE DEF j
    <2> QED
      BY <2>1, <2>2, <2>3
  <1>3. worker'[w] = k /\ \A v \in Workers \ {w} : worker'[v] = worker[v]
    BY <1>2, SlackParts
  <1>4. k # Slack!Idle
    BY <1>2 DEF Slack!Idle
  <1>5. /\ clashed \subseteq clashed' /\ clashed' \subseteq clashed \cup {t}
        /\ \A v \in Workers : Slack!IsBusy(v) /\ Slack!thread(v) = t => t \in clashed'
    BY DEF Slack!Take, Slack!IsBusy
  <1>6. \A v \in Workers : Slack!IsBusy(v) =>
            /\ v # w /\ worker'[v] = worker[v] /\ Slack!IsBusy(v)'
            /\ worker[v].msg \in DOMAIN sent /\ Slack!thread(v)' = Slack!thread(v)
            /\ Slack!WorkerOK(v) /\ Slack!thread(v) \in Threads
    <2> SUFFICES ASSUME NEW v \in Workers, Slack!IsBusy(v)
                 PROVE  /\ v # w /\ worker'[v] = worker[v] /\ Slack!IsBusy(v)'
                        /\ worker[v].msg \in DOMAIN sent /\ Slack!thread(v)' = Slack!thread(v)
                        /\ Slack!WorkerOK(v) /\ Slack!thread(v) \in Threads
      OBVIOUS
    <2>1. v # w
      BY DEF Slack!IsBusy
    <2>2. worker'[v] = worker[v]
      BY <1>3, <2>1
    <2> QED
      BY <2>1, <2>2, BusyWorker DEF Slack!IsBusy, Slack!thread
  <1>7. \A v \in Workers : Slack!IsBusy(v)' => v = w \/ Slack!IsBusy(v)
    BY <1>3 DEF Slack!IsBusy
  <1>8. Slack!IsBusy(w)' /\ Slack!thread(w)' = t
    BY <1>2, <1>3, <1>4 DEF Slack!IsBusy, Slack!thread
  <1>9. /\ \A x, s : Slack!OfThread(x, s) => Slack!OfThread(x, s)'
        /\ \A s : Slack!Openings(s) \subseteq Slack!Openings(s)'
        /\ \A x \in DOMAIN sent : Slack!DataOf(x)' = Slack!DataOf(x)
        /\ \A q : Slack!Stored(q)' = Slack!Stored(q)
    BY <1>1 DEF Slack!OfThread, Slack!Openings, Slack!DataOf, Slack!Stored
  <1>10. Slack!TypeOK'
    <2>1. clashed' \subseteq Threads
      BY <1>5, SlackParts
    <2>2. worker' \in [Workers -> {Slack!Idle} \cup Slack!Busy]
      BY <1>2, SlackParts
    <2> QED
      BY <1>1, <2>1, <2>2, SlackParts DEF Slack!TypeOK
  <1>11. Slack!ClashInv'
    <2>1. ASSUME NEW u \in Workers, NEW v \in Workers, Slack!IsBusy(u)', Slack!IsBusy(v)', u # v,
                 Slack!thread(u)' = Slack!thread(v)'
          PROVE  Slack!thread(u)' \in clashed'
      <3>1. CASE Slack!IsBusy(u) /\ Slack!IsBusy(v)
        <4>1. Slack!thread(u) \in clashed /\ Slack!thread(u)' = Slack!thread(u)
          BY <1>6, <2>1, <3>1, SlackParts DEF Slack!ClashInv
        <4> QED
          BY <1>5, <4>1
      <3>2. CASE u = w /\ Slack!IsBusy(v)
        BY <1>5, <1>6, <1>8, <2>1, <3>2
      <3>3. CASE v = w /\ Slack!IsBusy(u)
        BY <1>5, <1>6, <1>8, <2>1, <3>3
      <3> QED
        BY <1>7, <2>1, <3>1, <3>2, <3>3
    <2>2. \A q \in DOMAIN contexts' : \A x \in contexts'[q] : Slack!OfThread(x, q[1])'
      BY <1>1, <1>9, SlackParts DEF Slack!ClashInv
    <2>3. \A a \in answered' : a[1] \in DOMAIN sent'
      BY <1>1, SlackParts DEF Slack!ClashInv
    <2> QED
      BY <2>1, <2>2, <2>3 DEF Slack!ClashInv
  <1>12. ASSUME NEW v \in Workers, Slack!IsBusy(v)' PROVE Slack!WorkerOK(v)'
    <2>1. CASE v = w
      BY <1>2, <1>3, <2>1 DEF Slack!WorkerOK
    <2>2. CASE Slack!IsBusy(v)
      <3>1. /\ Slack!WorkerOK(v) /\ worker'[v] = worker[v] /\ Slack!thread(v)' = Slack!thread(v)
            /\ worker[v].msg \in DOMAIN sent
        BY <1>6, <2>2
      <3>2. Slack!key(v)' = Slack!key(v) /\ Slack!Stored(Slack!key(v))' = Slack!Stored(Slack!key(v))
        BY <1>1, <3>1 DEF Slack!key, Slack!Stored
      <3>3. Slack!Open(Slack!thread(v))' => Slack!Open(Slack!thread(v))
        BY <1>5, <3>1 DEF Slack!Open
      <3> QED
        BY <1>1, <1>9, <3>1, <3>2, <3>3 DEF Slack!WorkerOK
    <2> QED
      BY <1>7, <1>12, <2>1, <2>2
  <1>13. ASSUME NEW s \in Threads, s # t PROVE Slack!ThreadOK(s)'
    <2>1. SUFFICES ASSUME Slack!Open(s)' PROVE Slack!ThreadOK(s)'
      BY DEF Slack!ThreadOK
    <2>2. Slack!Open(s) /\ Slack!ThreadOK(s)
      BY <1>5, <2>1, SlackParts DEF Slack!Open
    <2>3. Slack!Openings(s)' = Slack!Openings(s) /\ Slack!Openings(s) \subseteq DOMAIN sent
      BY <1>13 DEF Slack!Openings
    <2>4. \A a \in answered : sent'[a[1]] = sent[a[1]]
      BY SlackParts DEF Slack!ClashInv
    <2>5. networks[s] = NoNetwork =>
              /\ sly_data[s] = 0
              /\ \A x \in Slack!Openings(s)' : \E v \in Workers :
                     Slack!IsBusy(v)' /\ worker'[v].msg = x /\ worker'[v].at \in {"lookup", "setup"}
      BY <1>6, <2>2, <2>3 DEF Slack!ThreadOK
    <2>6. ASSUME networks[s] # NoNetwork
          PROVE  \E o \in Slack!Message :
                     /\ Slack!Openings(s)' = {o}
                     /\ \/ sly_data[s] = Slack!DataOf(o)'
                        \/ \E v \in Workers :
                               Slack!IsBusy(v)' /\ worker'[v].msg = o /\ worker'[v].at = "data"
      <3>1. PICK o \in Slack!Message :
                /\ Slack!Openings(s) = {o}
                /\ \/ sly_data[s] = Slack!DataOf(o)
                   \/ \E v \in Workers : Slack!IsBusy(v) /\ worker[v].msg = o /\ worker[v].at = "data"
        BY <2>2, <2>6 DEF Slack!ThreadOK
      <3>2. Slack!DataOf(o)' = Slack!DataOf(o)
        BY <1>9, <2>3, <3>1
      <3> QED
        BY <1>6, <2>3, <3>1, <3>2
    <2>7. \A a \in answered : sent'[a[1]].thread = s =>
              networks[s] = a[2] /\ a[1] \in Slack!Stored(<<s, a[2]>>)'
      BY <1>9, <2>2, <2>4 DEF Slack!ThreadOK
    <2> QED
      BY <1>1, <2>5, <2>6, <2>7 DEF Slack!ThreadOK, Slack!Message
  <1>14. Slack!ThreadOK(t)'
    <2>1. SUFFICES ASSUME Slack!Open(t)' PROVE Slack!ThreadOK(t)'
      BY DEF Slack!ThreadOK
    <2>2. /\ Slack!Open(t) /\ Slack!ThreadOK(t)
          /\ \A v \in Workers : Slack!IsBusy(v) => Slack!thread(v) # t
      BY <1>5, <2>1, SlackParts DEF Slack!Open
    <2>3. Slack!Openings(t)' \subseteq Slack!Openings(t) \cup {m} /\ Slack!Openings(t) \subseteq DOMAIN sent
      BY DEF Slack!Openings
    <2>4. \A a \in answered : sent'[a[1]] = sent[a[1]]
      BY SlackParts DEF Slack!ClashInv
    <2>5. networks[t] = NoNetwork =>
              /\ sly_data[t] = 0
              /\ \A x \in Slack!Openings(t)' : \E v \in Workers :
                     Slack!IsBusy(v)' /\ worker'[v].msg = x /\ worker'[v].at \in {"lookup", "setup"}
      BY <1>2, <1>3, <1>6, <1>8, <2>2, <2>3 DEF Slack!ThreadOK
    <2>6. ASSUME networks[t] # NoNetwork
          PROVE  \E o \in Slack!Message :
                     Slack!Openings(t)' = {o} /\ sly_data[t] = Slack!DataOf(o)'
      <3>1. PICK o \in Slack!Message :
                /\ Slack!Openings(t) = {o}
                /\ \/ sly_data[t] = Slack!DataOf(o)
                   \/ \E v \in Workers : Slack!IsBusy(v) /\ worker[v].msg = o /\ worker[v].at = "data"
        BY <2>2, <2>6 DEF Slack!ThreadOK
      <3>2. o \in DOMAIN sent /\ sent[o].thread = t
        BY <3>1 DEF Slack!Openings
      <3>3. sly_data[t] = Slack!DataOf(o)'
        BY <1>9, <2>2, <3>1, <3>2 DEF Slack!thread
      <3>4. Slack!Openings(t)' = Slack!Openings(t)
        BY <2>6 DEF Slack!Openings
      <3> QED
        BY <3>1, <3>3, <3>4
    <2>7. \A a \in answered : sent'[a[1]].thread = t =>
              networks[t] = a[2] /\ a[1] \in Slack!Stored(<<t, a[2]>>)'
      BY <1>9, <2>2, <2>4 DEF Slack!ThreadOK
    <2> QED
      BY <1>1, <2>5, <2>6, <2>7 DEF Slack!ThreadOK, Slack!Message
  <1> QED
    BY <1>10, <1>11, <1>12, <1>13, <1>14 DEF Slack!SlackInv

\* Commands of the messages are what the thread's first message can say.
LEMMA SlackEvent ==
  ASSUME Slack!SlackInv, NEW w \in Workers, NEW t \in Threads, NEW command \in Commands,
         Slack!Event(w, t, command)
  PROVE  Slack!SlackInv'
  <1> DEFINE m == Len(sent) + 1
             e == [thread |-> t, command |-> command]
  <1>1. worker[w] = Slack!Idle /\ Len(sent) < MaxEvents /\ sent' = Append(sent, e)
        /\ Slack!Take(w, m, t) /\ (networks[t] # NoNetwork => command.word = NoNetwork)
    BY DEF Slack!Event
  <1>2. e \in [thread : Threads, command : Slack!Command] /\ e.thread = t /\ e.command = command
    BY SlackAssumption DEF Slack!Command
  <1> HIDE DEF e
  <1>3. Len(sent) \in Nat /\ DOMAIN sent = 1 .. Len(sent) /\ MaxEvents \in Nat
    BY SentTypes
  <1>4. /\ sent' \in Seq([thread : Threads, command : Slack!Command]) /\ Len(sent') = m
        /\ \A x \in 1 .. Len(sent) : sent'[x] = sent[x]
        /\ sent'[m] = e
    BY <1>1, <1>2, SlackParts, AppendProperties
  <1>5. m \in Slack!Message /\ m \notin DOMAIN sent /\ Len(sent') <= MaxEvents
    BY <1>1, <1>3, <1>4 DEF Slack!Message
  <1>6. DOMAIN sent' = DOMAIN sent \cup {m}
    <2>1. DOMAIN sent' = 1 .. m
      BY <1>4, LenProperties
    <2> QED
      BY <1>3, <2>1
  <1>7. \A x \in DOMAIN sent : sent'[x] = sent[x]
    BY <1>3, <1>4
  <1>8. /\ sent'[m].thread = t
        /\ networks[t] # NoNetwork /\ m \notin DOMAIN sent => sent'[m].command.word = NoNetwork
    BY <1>1, <1>2, <1>4
  <1> HIDE DEF m
  <1> QED
    BY <1>1, <1>4, <1>5, <1>6, <1>7, <1>8, SlackTakes

LEMMA SlackAgain ==
  ASSUME Slack!SlackInv, NEW w \in Workers, NEW m \in Slack!Message, Slack!Again(w, m)
  PROVE  Slack!SlackInv'
  <1> DEFINE t == sent[m].thread
  <1>1. worker[w] = Slack!Idle /\ m \in DOMAIN sent /\ Slack!Take(w, m, t) /\ sent' = sent
    BY DEF Slack!Again
  <1>2. t \in Threads /\ Len(sent) <= MaxEvents
    BY <1>1, SentTypes
  <1>3. PICK T \in Threads : T = t
    BY <1>2
  <1>4. DOMAIN sent' = DOMAIN sent \cup {m} /\ \A x \in DOMAIN sent : sent'[x] = sent[x]
    BY <1>1
  <1>5. /\ sent' \in Seq([thread : Threads, command : Slack!Command]) /\ Len(sent') <= MaxEvents
        /\ sent'[m].thread = T
        /\ networks[T] # NoNetwork /\ m \notin DOMAIN sent => sent'[m].command.word = NoNetwork
    BY <1>1, <1>2, <1>3, SlackParts
  <1>6. worker[w] = Slack!Idle /\ Slack!Take(w, m, T)
    BY <1>1, <1>3
  <1> HIDE DEF t
  <1> QED
    BY <1>4, <1>5, <1>6, SlackTakes

LEMMA SlackBegins ==
  ASSUME Slack!Init
  PROVE  Slack!SlackInv
  <1>1. Slack!TypeOK
    <2>1. sent \in Seq([thread : Threads, command : Slack!Command]) /\ Len(sent) = 0
      BY EmptySeq DEF Slack!Init
    <2>2. Len(sent) <= MaxEvents
      BY <2>1, BoundsAssumption
    <2>3. DOMAIN contexts = {}
      BY DEF Slack!Init
    <2> QED
      BY <2>1, <2>2, <2>3 DEF Slack!Init, Slack!TypeOK
  <1>2. DOMAIN contexts = {} /\ DOMAIN sent = {}
    BY DEF Slack!Init
  <1>3. Slack!ClashInv /\ \A w \in Workers : ~Slack!IsBusy(w)
    BY <1>2 DEF Slack!Init, Slack!ClashInv, Slack!IsBusy
  <1>4. \A t \in Threads : Slack!ThreadOK(t)
    BY <1>2 DEF Slack!Init, Slack!ThreadOK, Slack!Openings
  <1> QED
    BY <1>1, <1>3, <1>4 DEF Slack!SlackInv

LEMMA SlackStays ==
  ASSUME Slack!SlackInv, UNCHANGED slackVars
  PROVE  Slack!SlackInv'
  <1>1. UNCHANGED <<networks, sly_data, contexts, worker, sent, answered, clashed>>
    BY DEF slackVars
  <1>2. Slack!TypeOK' /\ Slack!ClashInv'
    BY <1>1, SlackParts DEF Slack!TypeOK, Slack!ClashInv, Slack!IsBusy, Slack!thread, Slack!OfThread
  <1>3. ASSUME NEW w \in Workers, Slack!IsBusy(w)' PROVE Slack!WorkerOK(w)'
    BY <1>1, <1>3, SlackParts
    DEF Slack!WorkerOK, Slack!IsBusy, Slack!thread, Slack!key, Slack!OfThread, Slack!Open,
        Slack!Openings, Slack!DataOf, Slack!Stored
  <1>4. ASSUME NEW t \in Threads PROVE Slack!ThreadOK(t)'
    BY <1>1, SlackParts
    DEF Slack!ThreadOK, Slack!IsBusy, Slack!Open, Slack!Openings, Slack!DataOf, Slack!Stored
  <1> QED
    BY <1>2, <1>3, <1>4 DEF Slack!SlackInv

LEMMA SlackMoves == [Next]_vars => [Slack!Next]_slackVars
  BY DEF Next, JwksStep, BoardStep, AuthStep, DrawerStep, BridgeStep, DesignStep, SlackStep,
         MemoryStep, VectorsStep, NewsStep, SettingsStep, FeedbackStep, BlocksStep, Still, vars

LEMMA SlackNext == Slack!SlackInv /\ [Next]_vars => Slack!SlackInv'
  <1> SUFFICES ASSUME Slack!SlackInv, [Slack!Next]_slackVars PROVE Slack!SlackInv'
    BY SlackMoves
  <1>1. CASE Slack!Next
    <2>1. PICK w \in Workers :
              \/ \E t \in Threads, command \in Commands : Slack!Event(w, t, command)
              \/ \E m \in Slack!Message : Slack!Again(w, m)
              \/ Slack!Step(w)
      BY <1>1 DEF Slack!Next
    <2>2. CASE Slack!Step(w)
      BY <2>2, SlackLookup, SlackSetNetwork, SlackSetSlyData, SlackEnds, SlackClearOld, SlackReads,
         SlackStoreContext DEF Slack!Step
    <2> QED
      BY <2>1, <2>2, SlackEvent, SlackAgain
  <1> QED
    BY <1>1, SlackStays

\* The message that named a thread's network is the first that names one, and the only one.
LEMMA OpeningIs ==
  ASSUME NEW t, NEW o \in Nat, Slack!Openings(t) = {o}
  PROVE  Slack!Opening(t) = o
  <1>1. Slack!Opening(t) = Slack!Min({o})
    BY DEF Slack!Opening, Slack!Openings
  <1>2. Slack!Min({o}) = o
    BY DEF Slack!Min
  <1> QED
    BY <1>1, <1>2

LEMMA SlackTurns ==
  ASSUME Slack!SlackInv
  PROVE  Slack!TurnsKept
  <1>1. \A q \in DOMAIN contexts : \A m \in contexts[q] : sent[m].thread = q[1]
    BY SlackParts DEF Slack!ClashInv, Slack!OfThread
  <1>2. ASSUME NEW a \in answered, sent[a[1]].thread \notin clashed
        PROVE  /\ <<sent[a[1]].thread, a[2]>> \in DOMAIN contexts
               /\ a[1] \in contexts[<<sent[a[1]].thread, a[2]>>]
    <2>1. PICK t \in Threads : t = sent[a[1]].thread
      BY SlackParts, SentTypes DEF Slack!ClashInv
    <2>2. a[1] \in Slack!Stored(<<t, a[2]>>)
      BY <1>2, <2>1, SlackParts DEF Slack!ThreadOK, Slack!Open
    <2> QED
      BY <2>1, <2>2 DEF Slack!Stored
  <1> QED
    BY <1>1, <1>2 DEF Slack!TurnsKept

LEMMA SlackDataSent ==
  ASSUME Slack!SlackInv
  PROVE  Slack!SlyDataSent
  <1> SUFFICES ASSUME NEW w \in Workers, worker[w].at = "call", Slack!thread(w) \notin clashed
               PROVE  worker[w].sly_data = Slack!DataOf(Slack!Opening(Slack!thread(w)))
    BY DEF Slack!SlyDataSent, Slack!DataOf
  <1>1. Slack!IsBusy(w)
    BY DEF Slack!IsBusy, Slack!Idle
  <1>2. PICK t \in Threads : t = Slack!thread(w)
    BY <1>1, BusyWorker
  <1>3. /\ Slack!Open(t) /\ Slack!WorkerOK(w) /\ Slack!ThreadOK(t)
        /\ \A v \in Workers : Slack!IsBusy(v) /\ Slack!thread(v) = t => v = w
    BY <1>1, <1>2, BusyWorker, SlackParts DEF Slack!Open
  <1>4. networks[t] # NoNetwork /\ worker[w].sly_data = sly_data[t]
    BY <1>2, <1>3, SlackAssumption DEF Slack!WorkerOK
  <1>5. PICK o \in Slack!Message :
            /\ Slack!Openings(t) = {o}
            /\ \/ sly_data[t] = Slack!DataOf(o)
               \/ \E v \in Workers : Slack!IsBusy(v) /\ worker[v].msg = o /\ worker[v].at = "data"
    BY <1>3, <1>4 DEF Slack!ThreadOK
  <1>6. sent[o].thread = t
    BY <1>5 DEF Slack!Openings
  <1>7. sly_data[t] = Slack!DataOf(o)
    BY <1>3, <1>5, <1>6 DEF Slack!thread
  <1>8. Slack!Opening(t) = o
    BY <1>5, OpeningIs DEF Slack!Message
  <1> QED
    BY <1>2, <1>4, <1>7, <1>8

LEMMA SlackFixed ==
  ASSUME Slack!SlackInv, [Next]_vars
  PROVE  [\A t \in Threads : networks[t] # NoNetwork /\ t \notin clashed
              => networks'[t] = networks[t]]_(Slack!slackVars)
  <1>1. [Slack!Next]_slackVars
    BY SlackMoves
  <1>2. CASE UNCHANGED slackVars
    BY <1>2 DEF slackVars, Slack!slackVars
  <1>3. ASSUME NEW w \in Workers, Slack!SetNetwork(w), NEW t \in Threads, networks[t] # NoNetwork,
               t \notin clashed
        PROVE  networks'[t] = networks[t]
    <2>1. Slack!IsBusy(w) /\ worker[w].at = "setup"
      BY <1>3 DEF Slack!SetNetwork, Slack!IsBusy, Slack!Idle
    <2>2. Slack!thread(w) # t
      BY <1>3, <2>1, BusyWorker DEF Slack!WorkerOK, Slack!Open
    <2> QED
      BY <1>3, <2>2, SlackParts DEF Slack!SetNetwork
  <1>4. CASE Slack!Next
    BY <1>3, <1>4
    DEF Slack!Next, Slack!Step, Slack!Event, Slack!Again, Slack!Take, Slack!Lookup, Slack!SetSlyData,
        Slack!Acknowledge, Slack!ClearOld, Slack!GetContext, Slack!GetSlyData, Slack!StoreContext,
        Slack!Fails
  <1> QED
    BY <1>1, <1>2, <1>4

\* A Slack thread is one conversation with one network: its contexts hold its own messages and
\* every one of them that was answered, its network is called with the sly_data of the message
\* that named it, and it keeps that network, unless two of its messages were handled at once
\* (handle_message and conversation_manager of the Slack app).
THEOREM ThreadsAreKept == Spec => ThreadKept
  <1>1. Init => Slack!SlackInv
    BY SlackBegins DEF Init
  <1>2. Slack!SlackInv => Slack!TurnsKept /\ Slack!SlyDataSent
    BY SlackTurns, SlackDataSent
  <1>3. Slack!SlackInv /\ [Next]_vars
        => [\A t \in Threads : networks[t] # NoNetwork /\ t \notin clashed
                => networks'[t] = networks[t]]_(Slack!slackVars)
    BY SlackFixed
  <1> QED
    BY <1>1, <1>2, <1>3, SlackNext, PTL DEF Spec, ThreadKept, Slack!ThreadKept, Slack!NetworkFixed

-----------------------------------------------------------------------------
(* LogBridge                                                               *)

LEMMA BridgeSets == \A S : Bridge!Cardinality(S) = Cardinality(S)
  BY DEF Bridge!Cardinality, Cardinality

LEMMA UpTo ==
  ASSUME NEW n \in Nat
  PROVE  IsFiniteSet(1..n) /\ Cardinality(1..n) = n
  <1>1. IsFiniteSet(1..n) /\ Cardinality(1..n) = IF 1 > n THEN 0 ELSE n - 1 + 1
    BY FS_Interval
  <1> QED
    BY <1>1

\* Line i of stream s is the j-th of the k-th block of the log, or of the block that is
\* held back if k is 0.
AtIn(blocksOf, held, s, k, j, i) ==
    \/ /\ k \in DOMAIN blocksOf /\ blocksOf[k].of = s /\ ~blocksOf[k].trace
       /\ j \in DOMAIN blocksOf[k].lines /\ blocksOf[k].lines[j] = i
    \/ k = 0 /\ j \in DOMAIN held /\ held[j] = i

\* The first n lines are in one place each, apart from blank ones.
OnceIn(blocksOf, held, s, lines, n) ==
    /\ \A k, j, l, m, i : AtIn(blocksOf, held, s, k, j, i) /\ AtIn(blocksOf, held, s, l, m, i) => k = l /\ j = m
    /\ \A i : (\E k, j : AtIn(blocksOf, held, s, k, j, i)) <=> i \in 1..n /\ ~lines[i].blank

OpenedIn(lines, held, k) == {j \in 1..k : lines[held[j]].net = 1}
ShutIn(lines, held, k)   == {j \in 1..k : lines[held[j]].net = -1}
NetOf(lines, held, k)    == Cardinality(OpenedIn(lines, held, k)) - Cardinality(ShutIn(lines, held, k))

\* A block is held back behind a brace that is not closed.
OpenIn(lines, held) ==
    held # <<>> => /\ lines[held[1]].opens
                   /\ \A k \in DOMAIN held : NetOf(lines, held, k) > 0

LEMMA OpenedFinite ==
  ASSUME NEW lines, NEW held, NEW k \in Nat
  PROVE  /\ IsFiniteSet(OpenedIn(lines, held, k)) /\ Cardinality(OpenedIn(lines, held, k)) \in Nat
         /\ IsFiniteSet(ShutIn(lines, held, k)) /\ Cardinality(ShutIn(lines, held, k)) \in Nat
         /\ NetOf(lines, held, k) \in Int
  <1>1. IsFiniteSet(1..k)
    BY FS_Interval
  <1>2. OpenedIn(lines, held, k) \subseteq 1..k /\ ShutIn(lines, held, k) \subseteq 1..k
    BY DEF OpenedIn, ShutIn
  <1>3. /\ IsFiniteSet(OpenedIn(lines, held, k)) /\ Cardinality(OpenedIn(lines, held, k)) \in Nat
        /\ IsFiniteSet(ShutIn(lines, held, k)) /\ Cardinality(ShutIn(lines, held, k)) \in Nat
    BY <1>1, <1>2, FS_Subset, FS_CardinalityType
  <1> QED
    BY <1>3 DEF NetOf

\* What the module says of a stream, in these terms.
LEMMA AccountedIs ==
  ASSUME Bridge!TypeOK
  PROVE  Bridge!LinesAccounted <=>
            \A s \in Streams : /\ OnceIn(log, Bridge!Held(s), s, printed[s], Bridge!Shown(s))
                               /\ OpenIn(printed[s], Bridge!Held(s))
  <1>1. ASSUME NEW s \in Streams
        PROVE  /\ Bridge!IsInjective(Bridge!LineAt(s))
               /\ Bridge!Range(Bridge!LineAt(s)) = {i \in 1..Bridge!Shown(s) : ~printed[s][i].blank}
               <=> OnceIn(log, Bridge!Held(s), s, printed[s], Bridge!Shown(s))
    <2> DEFINE At(k, j, i) == AtIn(log, Bridge!Held(s), s, k, j, i)
               P == Bridge!Places(s)
               own == {k \in DOMAIN log : log[k].of = s /\ ~log[k].trace}
               F == Bridge!LineAt(s)
    <2>0. P = (UNION {{k} \X DOMAIN log[k].lines : k \in own}) \cup ({0} \X DOMAIN Bridge!Held(s))
      BY DEF Bridge!Places
    <2>1. /\ DOMAIN F = P
          /\ \A p \in P : F[p] = IF p[1] = 0 THEN Bridge!Held(s)[p[2]] ELSE log[p[1]].lines[p[2]]
      BY DEF Bridge!LineAt
    <2>2. 0 \notin DOMAIN log
      BY DEF Bridge!TypeOK
    <2>3. ASSUME NEW p \in P PROVE \E k, j : p = <<k, j>> /\ At(k, j, F[p])
      <3>1. CASE p \in {0} \X DOMAIN Bridge!Held(s)
        <4>1. PICK j \in DOMAIN Bridge!Held(s) : p = <<0, j>>
          BY <3>1
        <4>2. F[p] = Bridge!Held(s)[j]
          BY <2>1, <2>3, <4>1
        <4> QED
          BY <4>1, <4>2 DEF AtIn
      <3>2. CASE p \notin {0} \X DOMAIN Bridge!Held(s)
        <4>0. PICK S \in {{k} \X DOMAIN log[k].lines : k \in own} : p \in S
          BY <2>0, <2>3, <3>2
        <4>1. PICK k \in own : p \in {k} \X DOMAIN log[k].lines
          BY <4>0
        <4>2. PICK j \in DOMAIN log[k].lines : p = <<k, j>>
          BY <4>1
        <4>3. F[p] = log[k].lines[j]
          BY <2>1, <2>2, <2>3, <4>1, <4>2
        <4>4. At(k, j, F[p])
          BY <4>1, <4>2, <4>3 DEF AtIn
        <4> QED
          BY <4>2, <4>4
      <3> QED
        BY <3>1, <3>2
    <2>4. ASSUME NEW k, NEW j, NEW i, At(k, j, i) PROVE <<k, j>> \in P /\ F[<<k, j>>] = i
      <3>1. CASE k = 0
        <4>1. j \in DOMAIN Bridge!Held(s) /\ Bridge!Held(s)[j] = i
          BY <2>2, <2>4, <3>1 DEF AtIn
        <4>2. <<k, j>> \in {0} \X DOMAIN Bridge!Held(s)
          BY <3>1, <4>1
        <4>3. <<k, j>> \in P
          BY <2>0, <4>2
        <4> QED
          BY <2>1, <3>1, <4>1, <4>3
      <3>2. CASE k # 0
        <4>1. /\ k \in DOMAIN log /\ log[k].of = s /\ ~log[k].trace
              /\ j \in DOMAIN log[k].lines /\ log[k].lines[j] = i
          BY <2>4, <3>2 DEF AtIn
        <4>2. <<k, j>> \in {k} \X DOMAIN log[k].lines /\ k \in own
          BY <4>1
        <4> DEFINE S == {k} \X DOMAIN log[k].lines
        <4> HIDE DEF own, P, S
        <4>3. S \in {{l} \X DOMAIN log[l].lines : l \in own}
          BY <4>2 DEF S
        <4>4. <<k, j>> \in P
          BY <2>0, <4>2, <4>3 DEF S
        <4> USE DEF P
        <4> QED
          BY <2>1, <4>4, <3>2, <4>1, <4>3
      <3> QED
        BY <3>1, <3>2
    <2> HIDE DEF At, P, F
    <2>5. Bridge!IsInjective(F) <=> \A k, j, l, m, i : At(k, j, i) /\ At(l, m, i) => k = l /\ j = m
      <3>1. ASSUME Bridge!IsInjective(F), NEW k, NEW j, NEW l, NEW m, NEW i, At(k, j, i), At(l, m, i)
            PROVE  k = l /\ j = m
        <4>1. <<k, j>> \in DOMAIN F /\ <<l, m>> \in DOMAIN F /\ F[<<k, j>>] = F[<<l, m>>]
          BY <2>1, <2>4, <3>1
        <4>2. <<k, j>> = <<l, m>>
          BY <3>1, <4>1 DEF Bridge!IsInjective
        <4> QED
          BY <4>2
      <3>2. ASSUME \A k, j, l, m, i : At(k, j, i) /\ At(l, m, i) => k = l /\ j = m,
                   NEW p \in P, NEW q \in P, F[p] = F[q]
            PROVE  p = q
        <4>1. PICK k, j : p = <<k, j>> /\ At(k, j, F[p])
          BY <2>3
        <4>2. PICK l, m : q = <<l, m>> /\ At(l, m, F[q])
          BY <2>3
        <4> QED
          BY <3>2, <4>1, <4>2
      <3> QED
        BY <2>1, <3>1, <3>2 DEF Bridge!IsInjective
    <2>6. \A i : i \in Bridge!Range(F) <=> \E k, j : At(k, j, i)
      <3>1. ASSUME NEW i \in Bridge!Range(F) PROVE \E k, j : At(k, j, i)
        <4>1. PICK p \in P : F[p] = i
          BY <2>1 DEF Bridge!Range
        <4> QED
          BY <2>3, <4>1
      <3>2. ASSUME NEW i, NEW k, NEW j, At(k, j, i) PROVE i \in Bridge!Range(F)
        <4>1. <<k, j>> \in DOMAIN F /\ F[<<k, j>>] = i
          BY <2>1, <2>4, <3>2
        <4> QED
          BY <4>1 DEF Bridge!Range
      <3> QED
        BY <3>1, <3>2
    <2>7. (Bridge!Range(F) = {i \in 1..Bridge!Shown(s) : ~printed[s][i].blank}) <=>
             \A i : (\E k, j : At(k, j, i)) <=> i \in 1..Bridge!Shown(s) /\ ~printed[s][i].blank
      BY <2>6
    <2> QED
      BY <2>5, <2>7 DEF OnceIn, At, F
  <1>2. ASSUME NEW s \in Streams
        PROVE  OpenIn(printed[s], Bridge!Held(s)) <=>
                  (Bridge!Held(s) # <<>> =>
                       /\ printed[s][Bridge!Held(s)[1]].opens
                       /\ \A k \in DOMAIN Bridge!Held(s) :
                              Bridge!Cardinality(Bridge!Opened(s, k)) > Bridge!Cardinality(Bridge!Shut(s, k)))
    <2>1. DOMAIN Bridge!Held(s) \subseteq Nat
      BY DEF Bridge!TypeOK, Bridge!Held
    <2>2. ASSUME NEW k \in Nat
          PROVE  NetOf(printed[s], Bridge!Held(s), k) > 0 <=>
                     Bridge!Cardinality(Bridge!Opened(s, k)) > Bridge!Cardinality(Bridge!Shut(s, k))
      <3>1. Bridge!Opened(s, k) = OpenedIn(printed[s], Bridge!Held(s), k)
            /\ Bridge!Shut(s, k) = ShutIn(printed[s], Bridge!Held(s), k)
        BY DEF Bridge!Opened, OpenedIn, Bridge!Shut, ShutIn
      <3> QED
        BY <3>1, OpenedFinite, BridgeSets DEF NetOf
    <2> QED
      BY <2>1, <2>2 DEF OpenIn
  <1> QED
    BY <1>1, <1>2 DEF Bridge!LinesAccounted

\* What a block more in the log adds, and a line more in the one that is held back.
LEMMA AtAppended ==
  ASSUME NEW T, NEW lg \in Seq(T), NEW b \in T, NEW held, NEW s, NEW k, NEW j, NEW i
  PROVE  AtIn(Append(lg, b), held, s, k, j, i) <=>
            \/ AtIn(lg, held, s, k, j, i)
            \/ k = Len(lg) + 1 /\ b.of = s /\ ~b.trace /\ j \in DOMAIN b.lines /\ b.lines[j] = i
  <1> DEFINE lh == Append(lg, b)
  <1>1. DOMAIN lh = 1..(Len(lg) + 1) /\ DOMAIN lg = 1..Len(lg) /\ Len(lg) \in Nat
        /\ lh[Len(lg) + 1] = b /\ \A l \in 1..Len(lg) : lh[l] = lg[l]
    OBVIOUS
  <1> HIDE DEF lh
  <1>2. CASE k \in 1..Len(lg)
    <2>1. k # Len(lg) + 1 /\ k # 0 /\ lh[k] = lg[k] /\ k \in DOMAIN lh /\ k \in DOMAIN lg
      BY <1>1, <1>2
    <2> QED
      BY <2>1 DEF AtIn, lh
  <1>3. CASE k = Len(lg) + 1
    <2>1. k \notin DOMAIN lg /\ k \in DOMAIN lh /\ k # 0 /\ lh[k] = b
      BY <1>1, <1>3
    <2> QED
      BY <1>3, <2>1 DEF AtIn, lh
  <1>4. CASE k \notin DOMAIN lh
    <2>1. k \notin DOMAIN lg /\ k # Len(lg) + 1
      BY <1>1, <1>4
    <2> QED
      BY <1>4, <2>1 DEF AtIn, lh
  <1> QED
    BY <1>1, <1>2, <1>3, <1>4

LEMMA AtHeld ==
  ASSUME NEW T, NEW held \in Seq(T), NEW x \in T, NEW lg, NEW s, NEW k, NEW j, NEW i
  PROVE  AtIn(lg, Append(held, x), s, k, j, i) <=>
            AtIn(lg, held, s, k, j, i) \/ (k = 0 /\ j = Len(held) + 1 /\ i = x)
  <1>1. j \in DOMAIN Append(held, x) /\ Append(held, x)[j] = i <=>
            (j \in DOMAIN held /\ held[j] = i) \/ (j = Len(held) + 1 /\ i = x)
    OBVIOUS
  <1> QED
    BY <1>1 DEF AtIn

\* A line that is read goes to one place: none if it is blank, a block of its own ...
LEMMA OnceBlank ==
  ASSUME NEW lg, NEW held, NEW s, NEW lines, NEW n \in Nat,
         OnceIn(lg, held, s, lines, n), lines[n + 1].blank
  PROVE  OnceIn(lg, held, s, lines, n + 1)
  <1>1. \A i : (i \in 1..(n + 1) /\ ~lines[i].blank) <=> (i \in 1..n /\ ~lines[i].blank)
    OBVIOUS
  <1> QED
    BY <1>1 DEF OnceIn

\* ... or the block that is held back.
OneMore(lg, held, s, lh, heldThen, c, d, x) ==
    \A k, j, i : AtIn(lh, heldThen, s, k, j, i) <=>
                     AtIn(lg, held, s, k, j, i) \/ (k = c /\ j = d /\ i = x)

LEMMA OnceAdded ==
  ASSUME NEW lg, NEW held, NEW s, NEW lines, NEW n \in Nat, NEW lh, NEW heldThen, NEW c, NEW d,
         OnceIn(lg, held, s, lines, n), ~lines[n + 1].blank,
         OneMore(lg, held, s, lh, heldThen, c, d, n + 1)
  PROVE  OnceIn(lh, heldThen, s, lines, n + 1)
  <1>0. \A k, j, i : AtIn(lh, heldThen, s, k, j, i) <=>
                         AtIn(lg, held, s, k, j, i) \/ (k = c /\ j = d /\ i = n + 1)
    BY DEF OneMore
  <1>1. \A i : (i \in 1..(n + 1) /\ ~lines[i].blank) <=> ((i \in 1..n /\ ~lines[i].blank) \/ i = n + 1)
    OBVIOUS
  <1>2. \A k, j, i : AtIn(lg, held, s, k, j, i) => i # n + 1
    BY DEF OnceIn
  <1>3. ASSUME NEW k, NEW j, NEW l, NEW m, NEW i,
               AtIn(lh, heldThen, s, k, j, i), AtIn(lh, heldThen, s, l, m, i)
        PROVE  k = l /\ j = m
    <2>1. CASE i = n + 1
      BY <1>0, <1>2, <1>3, <2>1
    <2>2. CASE i # n + 1
      <3>1. AtIn(lg, held, s, k, j, i) /\ AtIn(lg, held, s, l, m, i)
        BY <1>0, <1>3, <2>2
      <3> QED
        BY <3>1 DEF OnceIn
    <2> QED
      BY <2>1, <2>2
  <1>4. ASSUME NEW i PROVE (\E k, j : AtIn(lh, heldThen, s, k, j, i)) <=> i \in 1..(n + 1) /\ ~lines[i].blank
    <2>1. (\E k, j : AtIn(lg, held, s, k, j, i)) <=> i \in 1..n /\ ~lines[i].blank
      BY DEF OnceIn
    <2>2. (\E k, j : AtIn(lh, heldThen, s, k, j, i)) <=>
             (\E k, j : AtIn(lg, held, s, k, j, i)) \/ i = n + 1
      BY <1>0
    <2> QED
      BY <1>1, <2>1, <2>2
  <1> QED
    BY <1>3, <1>4 DEF OnceIn

LEMMA OnceLogged ==
  ASSUME NEW T, NEW lg \in Seq(T), NEW b \in T, NEW held, NEW s, NEW lines, NEW n \in Nat,
         OnceIn(lg, held, s, lines, n), ~lines[n + 1].blank,
         b.of = s, ~b.trace, b.lines = <<n + 1>>
  PROVE  OnceIn(Append(lg, b), held, s, lines, n + 1)
  <1>1. DOMAIN b.lines = {1} /\ b.lines[1] = n + 1
    OBVIOUS
  <1>2. \A k, j, i : AtIn(Append(lg, b), held, s, k, j, i) <=>
             AtIn(lg, held, s, k, j, i) \/ (k = Len(lg) + 1 /\ j = 1 /\ i = n + 1)
    BY <1>1, AtAppended
  <1>3. OneMore(lg, held, s, Append(lg, b), held, Len(lg) + 1, 1, n + 1)
    BY <1>2 DEF OneMore
  <1> QED
    BY <1>3, OnceAdded

LEMMA OnceHeld ==
  ASSUME NEW T, NEW held \in Seq(T), NEW lg, NEW s, NEW lines, NEW n \in Nat, n + 1 \in T,
         OnceIn(lg, held, s, lines, n), ~lines[n + 1].blank
  PROVE  OnceIn(lg, Append(held, n + 1), s, lines, n + 1)
  <1>1. \A k, j, i : AtIn(lg, Append(held, n + 1), s, k, j, i) <=>
             AtIn(lg, held, s, k, j, i) \/ (k = 0 /\ j = Len(held) + 1 /\ i = n + 1)
    BY AtHeld
  <1>2. OneMore(lg, held, s, lg, Append(held, n + 1), 0, Len(held) + 1, n + 1)
    BY <1>1 DEF OneMore
  <1> QED
    BY <1>2, OnceAdded

\* The line that completes the block: all of it goes to the log.
LEMMA OnceClosed ==
  ASSUME NEW T, NEW U, NEW lg \in Seq(T), NEW b \in T, NEW held \in Seq(U), NEW s, NEW lines, NEW n \in Nat,
         n + 1 \in U, OnceIn(lg, held, s, lines, n), ~lines[n + 1].blank,
         b.of = s, ~b.trace, b.lines = Append(held, n + 1)
  PROVE  OnceIn(Append(lg, b), <<>>, s, lines, n + 1)
  <1> DEFINE At(k, j, i) == AtIn(lg, held, s, k, j, i)
             Then(k, j, i) == AtIn(Append(lg, b), Append(held, n + 1), s, k, j, i)
             Now(k, j, i) == AtIn(Append(lg, b), <<>>, s, k, j, i)
             c == Len(lg) + 1
             d == Len(held) + 1
  <1>1. c \in Nat /\ c > 0 /\ DOMAIN lg = 1..Len(lg) /\ 0 \notin DOMAIN lg
    OBVIOUS
  <1>2. ASSUME NEW k, NEW j, NEW i
        PROVE  Now(k, j, i) <=> \/ At(k, j, i) /\ k # 0
                                \/ k = c /\ At(0, j, i)
                                \/ k = c /\ j = d /\ i = n + 1
    <2>1. Now(k, j, i) <=> \/ AtIn(lg, <<>>, s, k, j, i)
                           \/ k = c /\ j \in DOMAIN b.lines /\ b.lines[j] = i
      BY AtAppended
    <2>2. AtIn(lg, <<>>, s, k, j, i) <=> At(k, j, i) /\ k # 0
      BY <1>1 DEF AtIn
    <2>3. j \in DOMAIN b.lines /\ b.lines[j] = i <=> (j \in DOMAIN held /\ held[j] = i) \/ (j = d /\ i = n + 1)
      OBVIOUS
    <2>4. j \in DOMAIN held /\ held[j] = i <=> At(0, j, i)
      BY <1>1 DEF AtIn
    <2> HIDE DEF Now, At
    <2> QED
      BY <2>1, <2>2, <2>3, <2>4
  <1>3. /\ \A k, j, l, m, i : At(k, j, i) /\ At(l, m, i) => k = l /\ j = m
        /\ \A i : (\E k, j : At(k, j, i)) <=> i \in 1..n /\ ~lines[i].blank
    BY DEF OnceIn
  <1> HIDE DEF Now, At, c, d
  <1>4. \A i : (i \in 1..(n + 1) /\ ~lines[i].blank) <=> ((i \in 1..n /\ ~lines[i].blank) \/ i = n + 1)
    OBVIOUS
  <1>5. \A k, j, i : At(k, j, i) => i # n + 1
    BY <1>3
  <1>6. ASSUME NEW k, NEW j, NEW l, NEW m, NEW i, Now(k, j, i), Now(l, m, i)
        PROVE  k = l /\ j = m
    <2>1. CASE i = n + 1
      BY <1>2, <1>5, <1>6, <2>1
    <2>2. CASE i # n + 1
      <3>1. \/ At(k, j, i) /\ k # 0
            \/ k = c /\ At(0, j, i)
        BY <1>2, <1>6, <2>2
      <3>2. \/ At(l, m, i) /\ l # 0
            \/ l = c /\ At(0, m, i)
        BY <1>2, <1>6, <2>2
      <3> QED
        BY <1>3, <3>1, <3>2
    <2> QED
      BY <2>1, <2>2
  <1>7. ASSUME NEW i PROVE (\E k, j : Now(k, j, i)) <=> i \in 1..(n + 1) /\ ~lines[i].blank
    <2>1. (\E k, j : Now(k, j, i)) <=> (\E k, j : At(k, j, i)) \/ i = n + 1
      BY <1>2
    <2> QED
      BY <1>3, <1>4, <2>1
  <1> QED
    BY <1>6, <1>7 DEF OnceIn, Now

\* Entries of another stream, and tracebacks, are in no line's place.
LEMMA OnceOther ==
  ASSUME NEW T, NEW lg \in Seq(T), NEW b \in T, NEW held, NEW s, NEW lines, NEW n \in Nat,
         OnceIn(lg, held, s, lines, n), b.of # s \/ b.trace
  PROVE  OnceIn(Append(lg, b), held, s, lines, n)
  <1>1. \A k, j, i : AtIn(Append(lg, b), held, s, k, j, i) <=> AtIn(lg, held, s, k, j, i)
    BY AtAppended
  <1> QED
    BY <1>1 DEF OnceIn

\* The count of braces goes with the lines that are held back.
LEMMA NetAdded ==
  ASSUME NEW T, NEW lines, NEW held \in Seq(T), NEW x \in T, lines[x].net \in -1..1
  PROVE  /\ NetOf(lines, Append(held, x), Len(held) + 1) = NetOf(lines, held, Len(held)) + lines[x].net
         /\ \A k \in 1..Len(held) : NetOf(lines, Append(held, x), k) = NetOf(lines, held, k)
  <1> DEFINE n == Len(held)
             hh == Append(held, x)
             O == OpenedIn(lines, held, n)
             S == ShutIn(lines, held, n)
             O2 == OpenedIn(lines, hh, n + 1)
             S2 == ShutIn(lines, hh, n + 1)
  <1>1. n \in Nat /\ hh[n + 1] = x /\ \A j \in 1..n : hh[j] = held[j]
    OBVIOUS
  <1> HIDE DEF hh, n
  <1>2. \A k \in 1..n : NetOf(lines, hh, k) = NetOf(lines, held, k)
    <2> SUFFICES ASSUME NEW k \in 1..n PROVE NetOf(lines, hh, k) = NetOf(lines, held, k)
      OBVIOUS
    <2>1. \A j \in 1..k : hh[j] = held[j]
      BY <1>1
    <2>2. OpenedIn(lines, hh, k) = OpenedIn(lines, held, k) /\ ShutIn(lines, hh, k) = ShutIn(lines, held, k)
      BY <2>1 DEF OpenedIn, ShutIn
    <2> QED
      BY <2>2 DEF NetOf
  <1>3. \A j : j \in 1..n + 1 <=> j \in 1..n \/ j = n + 1
    BY <1>1
  <1>4. /\ O2 = IF lines[x].net = 1 THEN O \cup {n + 1} ELSE O
        /\ S2 = IF lines[x].net = -1 THEN S \cup {n + 1} ELSE S
    BY <1>1, <1>3 DEF OpenedIn, ShutIn
  <1>5. n + 1 \notin O /\ n + 1 \notin S
    BY <1>1 DEF OpenedIn, ShutIn
  <1>6. IsFiniteSet(O) /\ IsFiniteSet(S) /\ Cardinality(O) \in Nat /\ Cardinality(S) \in Nat
    BY <1>1, OpenedFinite
  <1>7. NetOf(lines, held, n) = Cardinality(O) - Cardinality(S) /\ NetOf(lines, hh, n + 1) = Cardinality(O2) - Cardinality(S2)
    BY DEF NetOf
  <1> HIDE DEF O, S, O2, S2
  <1>8. Cardinality(O \cup {n + 1}) = Cardinality(O) + 1 /\ Cardinality(S \cup {n + 1}) = Cardinality(S) + 1
    BY <1>5, <1>6, FS_AddElement
  <1>9. NetOf(lines, hh, n + 1) = NetOf(lines, held, n) + lines[x].net
    <2>1. CASE lines[x].net = 1
      BY <2>1, <1>4, <1>6, <1>7, <1>8
    <2>2. CASE lines[x].net = 0
      BY <2>2, <1>4, <1>6, <1>7
    <2>3. CASE lines[x].net = -1
      BY <2>3, <1>4, <1>6, <1>7, <1>8
    <2> QED
      BY <2>1, <2>2, <2>3
  <1> QED
    BY <1>2, <1>9 DEF hh, n

\* The lines of a stream in the log file: the first n without those that are gone, in order.
OwnIn(ls, s) == {k \in DOMAIN ls : ls[k][1] = s}
MirrorIn(ls, s, n, missing) ==
    /\ \A j, k \in OwnIn(ls, s) : j < k => ls[j][2] < ls[k][2]
    /\ {ls[k][2] : k \in OwnIn(ls, s)} = (1..n) \ missing
    /\ missing \subseteq 1..n

\* One line more in the file.
LEMMA OwnAppended ==
  ASSUME NEW T, NEW ls \in Seq(T), NEW x \in T, NEW s
  PROVE  /\ OwnIn(Append(ls, x), s) = OwnIn(ls, s) \cup (IF x[1] = s THEN {Len(ls) + 1} ELSE {})
         /\ \A k \in OwnIn(ls, s) : k \in 1..Len(ls) /\ Append(ls, x)[k] = ls[k]
         /\ Append(ls, x)[Len(ls) + 1] = x
  <1> DEFINE lt == Append(ls, x)
             m == Len(ls)
  <1>1. /\ m \in Nat /\ DOMAIN lt = 1..(m + 1) /\ DOMAIN ls = 1..m
        /\ lt[m + 1] = x /\ \A i \in 1..m : lt[i] = ls[i]
    OBVIOUS
  <1> HIDE DEF lt, m
  <1>2. \A k : k \in 1..(m + 1) <=> k \in 1..m \/ k = m + 1
    BY ONLY <1>1
  <1>3. OwnIn(ls, s) \subseteq 1..m
    BY <1>1 DEF OwnIn
  <1>4. OwnIn(lt, s) = OwnIn(ls, s) \cup (IF x[1] = s THEN {m + 1} ELSE {})
    BY <1>1, <1>2 DEF OwnIn
  <1> QED
    BY <1>1, <1>3, <1>4 DEF lt, m

\* A line of another stream is behind those that were there.
LEMMA MirrorOther ==
  ASSUME NEW T, NEW ls \in Seq(T), NEW x \in T, NEW s, NEW n, NEW missing,
         MirrorIn(ls, s, n, missing), x[1] # s
  PROVE  MirrorIn(Append(ls, x), s, n, missing)
  <1> DEFINE lt == Append(ls, x)
             own == OwnIn(ls, s)
  <1>1. OwnIn(lt, s) = own \cup (IF x[1] = s THEN {Len(ls) + 1} ELSE {}) /\ \A k \in own : lt[k] = ls[k]
    BY OwnAppended
  <1>2. /\ \A j, k \in own : j < k => ls[j][2] < ls[k][2]
        /\ {ls[k][2] : k \in own} = (1..n) \ missing
        /\ missing \subseteq 1..n
    BY DEF MirrorIn
  <1> HIDE DEF lt, own
  <1>3. OwnIn(lt, s) = own
    BY <1>1
  <1>4. {lt[k][2] : k \in own} = {ls[k][2] : k \in own}
    BY <1>1
  <1>5. \A j, k \in own : j < k => lt[j][2] < lt[k][2]
    BY <1>1, <1>2
  <1> QED
    BY <1>2, <1>3, <1>4, <1>5 DEF MirrorIn, lt

\* Its own next line goes on where they ended.
LEMMA MirrorOn ==
  ASSUME NEW T, NEW ls \in Seq(T), NEW x \in T, NEW s, NEW n \in Nat, NEW missing,
         MirrorIn(ls, s, n, missing), x[1] = s, x[2] = n + 1
  PROVE  MirrorIn(Append(ls, x), s, n + 1, missing)
  <1> DEFINE lt == Append(ls, x)
             m == Len(ls)
  <1>1. /\ m \in Nat /\ OwnIn(lt, s) = OwnIn(ls, s) \cup {m + 1} /\ lt[m + 1] = x
        /\ \A k \in OwnIn(ls, s) : k \in 1..m /\ lt[k] = ls[k]
    BY OwnAppended
  <1> HIDE DEF lt, m
  <1>2. /\ \A j, k \in OwnIn(ls, s) : j < k => ls[j][2] < ls[k][2]
        /\ {ls[k][2] : k \in OwnIn(ls, s)} = (1..n) \ missing
        /\ missing \subseteq 1..n
    BY DEF MirrorIn
  <1>3. ASSUME NEW j \in OwnIn(lt, s), NEW k \in OwnIn(lt, s), j < k PROVE lt[j][2] < lt[k][2]
    <2>1. j # m + 1
      BY ONLY <1>1, <1>3
    <2>2. j \in OwnIn(ls, s) /\ lt[j][2] = ls[j][2] /\ ls[j][2] \in 1..n
      BY <1>1, <1>2, <2>1
    <2>3. CASE k = m + 1
      <3>1. lt[k][2] = n + 1
        BY <1>1, <2>3
      <3> QED
        BY ONLY <2>2, <3>1, n \in Nat
    <2>4. CASE k \in OwnIn(ls, s)
      BY <1>1, <1>2, <1>3, <2>2, <2>4
    <2> QED
      BY <1>1, <2>3, <2>4
  <1>4. {lt[k][2] : k \in OwnIn(lt, s)} = {ls[k][2] : k \in OwnIn(ls, s)} \cup {n + 1}
    BY <1>1
  <1>5. (1..(n + 1)) \ missing = ((1..n) \ missing) \cup {n + 1} /\ missing \subseteq 1..(n + 1)
    BY <1>2
  <1> QED
    BY <1>2, <1>3, <1>4, <1>5 DEF MirrorIn, lt

\* Or it is gone.
LEMMA MirrorLess ==
  ASSUME NEW ls, NEW s, NEW n \in Nat, NEW missing, MirrorIn(ls, s, n, missing)
  PROVE  MirrorIn(ls, s, n + 1, missing \cup {n + 1})
  <1>1. missing \subseteq 1..n
    BY DEF MirrorIn
  <1>2. /\ (1..(n + 1)) \ (missing \cup {n + 1}) = (1..n) \ missing
        /\ missing \cup {n + 1} \subseteq 1..(n + 1)
    BY <1>1
  <1> QED
    BY <1>2 DEF MirrorIn

\* The lines behind those that were read make no difference.
LEMMA OnceSame ==
  ASSUME NEW lg, NEW held, NEW s, NEW lines, NEW then, NEW n \in Nat,
         OnceIn(lg, held, s, lines, n), \A i \in 1..n : then[i] = lines[i]
  PROVE  OnceIn(lg, held, s, then, n)
  BY DEF OnceIn

LEMMA HeldRead ==
  ASSUME NEW lg, NEW held, NEW s, NEW lines, NEW n \in Nat, OnceIn(lg, held, s, lines, n)
  PROVE  \A j \in DOMAIN held : held[j] \in 1..n
  <1> SUFFICES ASSUME NEW j \in DOMAIN held PROVE held[j] \in 1..n
    OBVIOUS
  <1>1. AtIn(lg, held, s, 0, j, held[j])
    BY DEF AtIn
  <1> QED
    BY <1>1 DEF OnceIn

LEMMA OpenSame ==
  ASSUME NEW T, NEW held \in Seq(T), NEW lines, NEW then, OpenIn(lines, held),
         \A j \in DOMAIN held : then[held[j]] = lines[held[j]]
  PROVE  /\ OpenIn(then, held)
         /\ NetOf(then, held, Len(held)) = NetOf(lines, held, Len(held))
  <1>1. ASSUME NEW k \in 0..Len(held) PROVE NetOf(then, held, k) = NetOf(lines, held, k)
    <2>1. OpenedIn(then, held, k) = OpenedIn(lines, held, k) /\ ShutIn(then, held, k) = ShutIn(lines, held, k)
      BY DEF OpenedIn, ShutIn
    <2> QED
      BY <2>1 DEF NetOf
  <1>2. held # <<>> => 1 \in DOMAIN held
    OBVIOUS
  <1> QED
    BY <1>1, <1>2 DEF OpenIn

\* The invariant of a stream.
StreamInv(s) ==
    /\ Len(printed[s]) <= MaxLines /\ pipe[s] <= Len(printed[s]) /\ file.pending[s] <= pipe[s]
    /\ ended[s] = "closed" => file.pending[s] = 0 /\ (broke[s] = "no" => pipe[s] = Len(printed[s]))
    /\ broke[s] = "within" => pipe[s] > 0
    /\ stream[s].collecting = (stream[s].buffer # <<>>)
    /\ stream[s].balance = NetOf(printed[s], stream[s].buffer, Len(stream[s].buffer))
    /\ OnceIn(log, stream[s].buffer, s, printed[s], Bridge!Shown(s))
    /\ OpenIn(printed[s], stream[s].buffer)
    /\ MirrorIn(file.lines, s, pipe[s] - file.pending[s], lost[s])

BlockType  == [of : Streams, lines : Seq(1..MaxLines), trace : BOOLEAN]
StreamType == [collecting : BOOLEAN, buffer : Seq(1..MaxLines), balance : Int, trace : 0..MaxLines]

LEMMA BridgeParts ==
  ASSUME Bridge!TypeOK, NEW s \in Streams
  PROVE  /\ MaxLines \in Nat /\ pipe[s] \in Nat /\ pipe[s] \in 0..MaxLines
         /\ printed[s] \in Seq(Bridge!Lines) /\ Len(printed[s]) \in Nat /\ printed \in [Streams -> Seq(Bridge!Lines)]
         /\ pipe \in [Streams -> 0..MaxLines] /\ ended \in [Streams -> {"open", "eof", "closed"}]
         /\ stream \in [Streams -> StreamType] /\ stream[s] \in StreamType
         /\ stream[s].buffer \in Seq(1..MaxLines)
         /\ Len(stream[s].buffer) \in Nat /\ stream[s].balance \in Int /\ stream[s].trace \in 0..MaxLines
         /\ file.pending[s] \in Nat /\ file.pending \in [Streams -> 0..MaxLines]
         /\ file.lines \in Seq(Streams \X (1..MaxLines)) /\ log \in Seq(BlockType)
         /\ broke \in [Streams -> {"no", "between", "within"}]
         /\ lost \in [Streams -> SUBSET (1..MaxLines)]
  <1>1. MaxLines \in Nat
    BY BoundsAssumption
  <1>2. stream[s] \in StreamType /\ stream \in [Streams -> StreamType]
    BY DEF Bridge!TypeOK, StreamType
  <1>3. /\ stream[s].buffer \in Seq(1..MaxLines) /\ stream[s].balance \in Int /\ stream[s].trace \in 0..MaxLines
    BY <1>2 DEF StreamType
  <1>4. file.pending \in [Streams -> 0..MaxLines] /\ file.lines \in Seq(Streams \X (1..MaxLines))
    BY DEF Bridge!TypeOK
  <1>5. log \in Seq(BlockType)
    BY DEF Bridge!TypeOK, BlockType
  <1>6. /\ printed \in [Streams -> Seq(Bridge!Lines)] /\ pipe \in [Streams -> 0..MaxLines]
        /\ ended \in [Streams -> {"open", "eof", "closed"}]
        /\ broke \in [Streams -> {"no", "between", "within"}]
        /\ lost \in [Streams -> SUBSET (1..MaxLines)]
    BY DEF Bridge!TypeOK
  <1> QED
    BY <1>1, <1>2, <1>3, <1>4, <1>5, <1>6

LEMMA BridgeTypes ==
  ASSUME printed' \in [Streams -> Seq(Bridge!Lines)], pipe' \in [Streams -> 0..MaxLines],
         stream' \in [Streams -> StreamType], log' \in Seq(BlockType),
         file' \in [lines : Seq(Streams \X (1..MaxLines)), pending : [Streams -> 0..MaxLines]],
         ended' \in [Streams -> {"open", "eof", "closed"}],
         broke' \in [Streams -> {"no", "between", "within"}], lost' \in [Streams -> SUBSET (1..MaxLines)]
  PROVE  Bridge!TypeOK'
  BY DEF Bridge!TypeOK, StreamType, BlockType

LEMMA LinesAre == \A l \in Bridge!Lines : l.net \in -1..1 /\ l.net \in Int /\ l.blank \in BOOLEAN /\ l.opens \in BOOLEAN
  <1> DEFINE p == Bridge!plain
  <1>1. p \in Bridge!Shape
    BY DEF Bridge!Shape, Bridge!plain
  <1> HIDE DEF p
  <1>2. [p EXCEPT !.blank = TRUE] \in Bridge!Shape
    BY <1>1 DEF Bridge!Shape
  <1>3. [p EXCEPT !.opens = TRUE, !.net = 1] \in Bridge!Shape
    <2> DEFINE r == [p EXCEPT !.opens = TRUE]
    <2>1. r \in Bridge!Shape
      BY <1>1 DEF Bridge!Shape
    <2> HIDE DEF r
    <2>2. [r EXCEPT !.net = 1] \in Bridge!Shape
      BY <2>1 DEF Bridge!Shape
    <2> QED
      BY <2>2 DEF r
  <1>4. [p EXCEPT !.net = -1] \in Bridge!Shape
    BY <1>1 DEF Bridge!Shape
  <1>5. [p EXCEPT !.opens = TRUE] \in Bridge!Shape
    BY <1>1 DEF Bridge!Shape
  <1>6. [p EXCEPT !.report = TRUE] \in Bridge!Shape
    BY <1>1 DEF Bridge!Shape
  <1>7. [p EXCEPT !.json = TRUE] \in Bridge!Shape
    BY <1>1 DEF Bridge!Shape
  <1>8. [p EXCEPT !.json = TRUE, !.opens = TRUE, !.trace = TRUE] \in Bridge!Shape
    BY <1>1 DEF Bridge!Shape
  <1>9. Bridge!Lines \subseteq Bridge!Shape
    BY <1>1, <1>2, <1>3, <1>4, <1>5, <1>6, <1>7, <1>8, Zenon DEF Bridge!Lines, p
  <1>10. \A l \in Bridge!Shape : l.net \in -1..1 /\ l.net \in Int /\ l.blank \in BOOLEAN /\ l.opens \in BOOLEAN
    BY DEF Bridge!Shape
  <1> QED
    BY <1>9, <1>10

\* The log's and the file's growth aside, a stream goes on as it was.
LEMMA StreamElsewhere ==
  ASSUME NEW t \in Streams, StreamInv(t),
         printed'[t] = printed[t], pipe'[t] = pipe[t], stream'[t].buffer = stream[t].buffer,
         stream'[t].collecting = stream[t].collecting, stream'[t].balance = stream[t].balance,
         ended'[t] = ended[t], file'.pending[t] = file.pending[t],
         broke'[t] = broke[t], lost'[t] = lost[t],
         OnceIn(log', stream[t].buffer, t, printed[t], Bridge!Shown(t)),
         MirrorIn(file'.lines, t, pipe[t] - file.pending[t], lost[t])
  PROVE  StreamInv(t)'
  BY DEF StreamInv, Bridge!Shown

LEMMA StreamSame ==
  ASSUME NEW t \in Streams, StreamInv(t), log' = log, file'.lines = file.lines,
         printed'[t] = printed[t], pipe'[t] = pipe[t], stream'[t].buffer = stream[t].buffer,
         stream'[t].collecting = stream[t].collecting, stream'[t].balance = stream[t].balance,
         file'.pending[t] = file.pending[t], ended'[t] = "closed" => ended[t] = "closed",
         broke'[t] = broke[t], lost'[t] = lost[t]
  PROVE  StreamInv(t)'
  BY DEF StreamInv, Bridge!Shown

\* What was handled is what was read, or one line less.
LEMMA ShownIs ==
  ASSUME Bridge!TypeOK, NEW s \in Streams, StreamInv(s)
  PROVE  Bridge!Shown(s) \in Nat /\ Bridge!Shown(s) <= pipe[s]
  <1>1. pipe[s] \in Nat /\ (broke[s] = "within" => pipe[s] > 0)
    BY BridgeParts DEF StreamInv
  <1> QED
    BY <1>1 DEF Bridge!Shown

BridgeOK == Bridge!TypeOK /\ \A s \in Streams : StreamInv(s)

LEMMA BridgeWriteLine ==
  ASSUME BridgeOK, NEW s \in Streams, Bridge!WriteLine(s)
  PROVE  BridgeOK'
  <1>1. Bridge!TypeOK /\ StreamInv(s)
    BY DEF BridgeOK
  <1>2. PICK l \in Bridge!Lines : printed' = [printed EXCEPT ![s] = Append(@, l)]
    BY DEF Bridge!WriteLine
  <1>3. /\ UNCHANGED <<pipe, stream, file, log, ended, broke, lost>> /\ ended[s] = "open"
        /\ Cardinality(Bridge!Printed) < MaxLines
    BY BridgeSets DEF Bridge!WriteLine
  <1> DEFINE p == printed[s]
             q == Append(p, l)
  <1>4. p \in Seq(Bridge!Lines) /\ Len(p) \in Nat /\ printed \in [Streams -> Seq(Bridge!Lines)] /\ MaxLines \in Nat
    BY <1>1, BridgeParts
  <1>5. q \in Seq(Bridge!Lines) /\ Len(q) = Len(p) + 1 /\ \A i \in 1..Len(p) : q[i] = p[i]
    BY <1>4
  <1>6. printed'[s] = q /\ printed' \in [Streams -> Seq(Bridge!Lines)] /\ \A t \in Streams \ {s} : printed'[t] = printed[t]
    BY <1>2, <1>4, <1>5
  <1>7. Bridge!TypeOK'
    <2>1. /\ pipe' \in [Streams -> 0..MaxLines] /\ stream' \in [Streams -> StreamType] /\ log' \in Seq(BlockType)
          /\ file' \in [lines : Seq(Streams \X (1..MaxLines)), pending : [Streams -> 0..MaxLines]]
          /\ ended' \in [Streams -> {"open", "eof", "closed"}]
          /\ broke' \in [Streams -> {"no", "between", "within"}]
          /\ lost' \in [Streams -> SUBSET (1..MaxLines)]
      BY <1>1, <1>3 DEF Bridge!TypeOK, StreamType, BlockType
    <2> QED
      BY <1>6, <2>1, BridgeTypes
  <1>8. Len(p) < MaxLines
    <2>1. {s} \X DOMAIN p \subseteq Bridge!Printed
      BY DEF Bridge!Printed
    <2>2. IsFiniteSet(Bridge!Printed)
      <3>1. ASSUME NEW t \in Streams PROVE DOMAIN printed[t] \subseteq 1..MaxLines
        <4>1. Len(printed[t]) <= MaxLines /\ Len(printed[t]) \in Nat /\ DOMAIN printed[t] = 1..Len(printed[t])
          BY <1>4 DEF BridgeOK, StreamInv
        <4> QED
          BY <1>4, <4>1
      <3>2. Bridge!Printed \subseteq Streams \X (1..MaxLines)
        BY <3>1 DEF Bridge!Printed
      <3>3. IsFiniteSet(1..MaxLines)
        BY <1>4, FS_Interval
      <3>4. IsFiniteSet(Streams \X (1..MaxLines))
        BY <3>3, StreamsAssumption, FS_Product
      <3> QED
        BY <3>2, <3>4, FS_Subset
    <2>3. Cardinality({s} \X DOMAIN p) = Len(p)
      <3>1. IsFiniteSet({s}) /\ Cardinality({s}) = 1
        BY FS_Singleton
      <3>2. DOMAIN p = 1..Len(p) /\ IsFiniteSet(1..Len(p))
        BY <1>4, FS_Interval
      <3> HIDE DEF p
      <3>3. Cardinality(1..Len(p)) = Len(p)
        <4>1. Len(p) \in Nat
          BY <1>4
        <4> QED
          BY <4>1, UpTo
      <3>4. Cardinality({s} \X (1..Len(p))) = Cardinality({s}) * Cardinality(1..Len(p))
        BY <3>1, <3>2, FS_Product
      <3> QED
        BY <1>4, <3>1, <3>2, <3>3, <3>4
    <2>4. Cardinality({s} \X DOMAIN p) <= Cardinality(Bridge!Printed) /\ Cardinality(Bridge!Printed) \in Nat
      BY <2>1, <2>2, FS_Subset, FS_CardinalityType
    <2> QED
      BY <1>3, <1>4, <2>3, <2>4
  <1> HIDE DEF p, q
  <1>9. StreamInv(s)'
    <2>1. /\ Len(p) <= MaxLines /\ pipe[s] <= Len(p) /\ file.pending[s] <= pipe[s] /\ pipe[s] \in Nat
          /\ stream[s].collecting = (stream[s].buffer # <<>>)
          /\ stream[s].balance = NetOf(p, stream[s].buffer, Len(stream[s].buffer))
          /\ OnceIn(log, stream[s].buffer, s, p, Bridge!Shown(s))
          /\ OpenIn(p, stream[s].buffer)
          /\ MirrorIn(file.lines, s, pipe[s] - file.pending[s], lost[s])
          /\ broke[s] = "within" => pipe[s] > 0
          /\ stream[s].buffer \in Seq(1..MaxLines)
          /\ Bridge!Shown(s) \in Nat /\ Bridge!Shown(s) <= pipe[s]
      BY <1>1, BridgeParts, ShownIs DEF StreamInv, p
    <2>2. \A i \in 1..Bridge!Shown(s) : q[i] = p[i]
      BY <1>4, <1>5, <2>1
    <2>3. OnceIn(log, stream[s].buffer, s, q, Bridge!Shown(s))
      BY <2>1, <2>2, OnceSame
    <2>4. \A j \in DOMAIN stream[s].buffer : stream[s].buffer[j] \in 1..Bridge!Shown(s)
      BY <2>1, HeldRead
    <2>5. \A j \in DOMAIN stream[s].buffer : q[stream[s].buffer[j]] = p[stream[s].buffer[j]]
      BY <2>2, <2>4
    <2>6. OpenIn(q, stream[s].buffer)
          /\ NetOf(q, stream[s].buffer, Len(stream[s].buffer)) = NetOf(p, stream[s].buffer, Len(stream[s].buffer))
      BY <2>1, <2>5, OpenSame
    <2>7. Len(q) <= MaxLines /\ pipe[s] <= Len(q)
      BY <1>4, <1>5, <1>8, <2>1
    <2> QED
      BY <1>3, <1>6, <2>1, <2>3, <2>6, <2>7 DEF StreamInv, Bridge!Shown
  <1>10. ASSUME NEW t \in Streams \ {s} PROVE StreamInv(t)'
    <2>1. StreamInv(t)
      BY DEF BridgeOK
    <2> QED
      BY <1>3, <1>6, <2>1, StreamSame
  <1> QED
    BY <1>7, <1>9, <1>10 DEF BridgeOK

LEMMA BridgeEndOfFile ==
  ASSUME BridgeOK, NEW s \in Streams, Bridge!EndOfFile(s)
  PROVE  BridgeOK'
  <1>1. Bridge!TypeOK /\ UNCHANGED <<printed, pipe, stream, file, log, broke, lost>> /\ ended' = [ended EXCEPT ![s] = "eof"]
    BY DEF BridgeOK, Bridge!EndOfFile
  <1>2. ended' \in [Streams -> {"open", "eof", "closed"}] /\ \A t \in Streams : ended'[t] = "closed" => ended[t] = "closed"
    BY <1>1 DEF Bridge!TypeOK
  <1>3. Bridge!TypeOK'
    BY <1>1, <1>2 DEF Bridge!TypeOK
  <1>4. ASSUME NEW t \in Streams PROVE StreamInv(t)'
    <2>1. StreamInv(t)
      BY DEF BridgeOK
    <2> QED
      BY <1>1, <1>2, <2>1, StreamSame
  <1> QED
    BY <1>3, <1>4 DEF BridgeOK

\* The traceback is no line.
LEMMA BridgeShowTrace ==
  ASSUME BridgeOK, NEW s \in Streams, Bridge!ShowTrace(s)
  PROVE  BridgeOK'
  <1> DEFINE b == [Bridge!Block(s, <<stream[s].trace>>) EXCEPT !.trace = TRUE]
  <1>1. /\ Bridge!TypeOK /\ UNCHANGED <<printed, pipe, file, ended, broke, lost>>
        /\ log' = Append(log, b) /\ stream' = [stream EXCEPT ![s].trace = 0] /\ stream[s].trace # 0
    BY DEF BridgeOK, Bridge!ShowTrace
  <1>2. /\ stream \in [Streams -> StreamType] /\ log \in Seq(BlockType) /\ stream[s].trace \in 1..MaxLines
        /\ MaxLines \in Nat
    BY <1>1, BridgeParts
  <1>3. b \in BlockType /\ b.trace
    <2> DEFINE ls == <<stream[s].trace>>
    <2>1. ls \in Seq(1..MaxLines)
      BY <1>2
    <2> HIDE DEF ls
    <2>2. Bridge!Block(s, ls) \in BlockType
      BY <2>1 DEF Bridge!Block, BlockType
    <2> DEFINE c == Bridge!Block(s, ls)
    <2> HIDE DEF c
    <2>3. [c EXCEPT !.trace = TRUE] \in BlockType /\ [c EXCEPT !.trace = TRUE].trace
      BY <2>2 DEF BlockType, c
    <2> QED
      BY <2>3 DEF c, ls
  <1> HIDE DEF b
  <1>4. /\ stream' \in [Streams -> StreamType]
        /\ \A t \in Streams : /\ stream'[t].buffer = stream[t].buffer
                              /\ stream'[t].collecting = stream[t].collecting
                              /\ stream'[t].balance = stream[t].balance
    <2> DEFINE st == stream[s]
               su == [st EXCEPT !.trace = 0]
    <2>1. st \in StreamType /\ stream' = [stream EXCEPT ![s] = su]
      BY <1>1, <1>2
    <2> HIDE DEF st
    <2>2. su \in StreamType
      <3>1. 0 \in 0..MaxLines
        BY <1>2
      <3> QED
        BY <2>1, <3>1 DEF StreamType
    <2>3. su.buffer = st.buffer /\ su.collecting = st.collecting /\ su.balance = st.balance
      BY <2>1 DEF StreamType
    <2> HIDE DEF su
    <2> QED
      BY <1>2, <2>1, <2>2, <2>3 DEF st
  <1>5. log' \in Seq(BlockType)
    BY <1>1, <1>2, <1>3
  <1>6. Bridge!TypeOK'
    BY <1>1, <1>4, <1>5 DEF Bridge!TypeOK, StreamType, BlockType
  <1>7. ASSUME NEW t \in Streams PROVE StreamInv(t)'
    <2>1. StreamInv(t) /\ OnceIn(log, stream[t].buffer, t, printed[t], Bridge!Shown(t))
          /\ Bridge!Shown(t) \in Nat
      BY <1>1, ShownIs DEF BridgeOK, StreamInv
    <2>2. OnceIn(log', stream[t].buffer, t, printed[t], Bridge!Shown(t))
      BY <1>1, <1>2, <1>3, <2>1, OnceOther
    <2>3. MirrorIn(file'.lines, t, pipe[t] - file.pending[t], lost[t])
      BY <1>1, <2>1 DEF StreamInv
    <2> QED
      BY <1>1, <1>4, <2>1, <2>2, <2>3, StreamElsewhere
  <1> QED
    BY <1>6, <1>7 DEF BridgeOK

\* A line leaves the buffer of a stream: of the others' nothing changes.
LEMMA LineTaken ==
  ASSUME BridgeOK, NEW s \in Streams, file.pending[s] > 0
  PROVE  /\ Bridge!Taken(s) \in [Streams -> 0..MaxLines]
         /\ Bridge!Taken(s)[s] <= pipe[s] /\ \A t \in Streams \ {s} : Bridge!Taken(s)[t] = file.pending[t]
         /\ pipe[s] - Bridge!Taken(s)[s] = (pipe[s] - file.pending[s]) + 1
         /\ Bridge!First(s) = (pipe[s] - file.pending[s]) + 1 /\ pipe[s] - file.pending[s] \in Nat
         /\ Bridge!First(s) \in 1..MaxLines
         /\ ended[s] # "closed"
         /\ file.lines \in Seq(Streams \X (1..MaxLines))
         /\ \A t \in Streams : MirrorIn(file.lines, t, pipe[t] - file.pending[t], lost[t])
  <1> DEFINE p == file.pending[s]
             q == pipe[s]
  <1>1. /\ Bridge!TypeOK /\ \A t \in Streams : StreamInv(t)
        /\ p \in Nat /\ p > 0 /\ q \in Nat /\ MaxLines \in Nat /\ q <= MaxLines /\ p <= q
        /\ file.pending \in [Streams -> 0..MaxLines] /\ ended[s] # "closed"
        /\ file.lines \in Seq(Streams \X (1..MaxLines))
    <2>1. Bridge!TypeOK /\ \A t \in Streams : StreamInv(t)
      BY DEF BridgeOK
    <2>2. /\ p \in Nat /\ q \in Nat /\ MaxLines \in Nat /\ q \in 0..MaxLines
          /\ file.pending \in [Streams -> 0..MaxLines]
          /\ file.lines \in Seq(Streams \X (1..MaxLines))
      BY <2>1, BridgeParts
    <2>3. p <= q /\ (ended[s] = "closed" => p = 0)
      BY <2>1 DEF StreamInv
    <2> QED
      BY <2>1, <2>2, <2>3
  <1>2. Bridge!Taken(s) = [file.pending EXCEPT ![s] = p - 1] /\ Bridge!First(s) = q - p + 1
    BY DEF Bridge!Taken, Bridge!First
  <1> HIDE DEF p, q
  <1>3. p - 1 \in 0..MaxLines /\ p - 1 <= q /\ q - (p - 1) = (q - p) + 1 /\ q - p \in Nat
        /\ q - p + 1 \in 1..MaxLines
    BY ONLY <1>1
  <1>4. /\ Bridge!Taken(s) \in [Streams -> 0..MaxLines] /\ Bridge!Taken(s)[s] = p - 1
        /\ \A t \in Streams \ {s} : Bridge!Taken(s)[t] = file.pending[t]
    BY <1>1, <1>2, <1>3
  <1>5. \A t \in Streams : MirrorIn(file.lines, t, pipe[t] - file.pending[t], lost[t])
    BY <1>1 DEF StreamInv
  <1> QED
    BY <1>1, <1>2, <1>3, <1>4, <1>5 DEF p, q

LEMMA BridgeWriteOut ==
  ASSUME BridgeOK, NEW s \in Streams, Bridge!WriteOut(s)
  PROVE  BridgeOK'
  <1> DEFINE x == <<s, Bridge!First(s)>>
             n == pipe[s] - file.pending[s]
             T == Streams \X (1..MaxLines)
  <1>1. /\ Bridge!TypeOK /\ UNCHANGED <<printed, pipe, stream, log, ended, broke, lost>>
        /\ file' = [lines |-> Append(file.lines, x), pending |-> Bridge!Taken(s)]
        /\ file.pending[s] > 0 /\ \A t \in Streams : StreamInv(t)
    BY DEF BridgeOK, Bridge!WriteOut
  <1>2. /\ Bridge!Taken(s) \in [Streams -> 0..MaxLines]
        /\ Bridge!Taken(s)[s] <= pipe[s] /\ \A t \in Streams \ {s} : Bridge!Taken(s)[t] = file.pending[t]
        /\ pipe[s] - Bridge!Taken(s)[s] = n + 1 /\ x[2] = n + 1 /\ n \in Nat
        /\ Bridge!First(s) \in 1..MaxLines /\ x[1] = s
        /\ ended[s] # "closed" /\ file.lines \in Seq(T)
        /\ \A t \in Streams : MirrorIn(file.lines, t, pipe[t] - file.pending[t], lost[t])
    BY <1>1, LineTaken
  <1>3. x \in T
    BY <1>2
  <1> HIDE DEF x, T
  <1>4. file'.lines = Append(file.lines, x) /\ file'.pending = Bridge!Taken(s)
        /\ file' \in [lines : Seq(T), pending : [Streams -> 0..MaxLines]]
    BY <1>1, <1>2, <1>3
  <1>5. Bridge!TypeOK'
    BY <1>1, <1>4 DEF Bridge!TypeOK, T
  <1>6. StreamInv(s)'
    <2>1. MirrorIn(file.lines, s, n, lost[s])
      BY <1>2
    <2> HIDE DEF n
    <2>2. MirrorIn(Append(file.lines, x), s, n + 1, lost[s])
      BY <1>2, <1>3, <2>1, MirrorOn
    <2> QED
      BY <1>1, <1>2, <1>4, <2>2 DEF StreamInv, Bridge!Shown
  <1>7. ASSUME NEW t \in Streams \ {s} PROVE StreamInv(t)'
    <2>1. StreamInv(t) /\ MirrorIn(Append(file.lines, x), t, pipe[t] - file.pending[t], lost[t])
      <3>1. MirrorIn(file.lines, t, pipe[t] - file.pending[t], lost[t]) /\ x[1] # t
        BY <1>2
      <3> QED
        BY <1>1, <1>2, <1>3, <3>1, MirrorOther
    <2> QED
      BY <1>1, <1>2, <1>4, <2>1 DEF StreamInv, Bridge!Shown
  <1> QED
    BY <1>5, <1>6, <1>7 DEF BridgeOK

LEMMA BridgeWriteFails ==
  ASSUME BridgeOK, NEW s \in Streams, Bridge!WriteFails(s)
  PROVE  BridgeOK'
  <1> DEFINE n == pipe[s] - file.pending[s]
  <1>1. /\ Bridge!TypeOK /\ UNCHANGED <<printed, pipe, stream, log, ended, broke>>
        /\ file' = [file EXCEPT !.pending = Bridge!Taken(s)]
        /\ lost' = [lost EXCEPT ![s] = @ \cup {Bridge!First(s)}]
        /\ file.pending[s] > 0 /\ \A t \in Streams : StreamInv(t)
        /\ lost \in [Streams -> SUBSET (1..MaxLines)]
    BY DEF BridgeOK, Bridge!WriteFails, Bridge!TypeOK
  <1>2. /\ Bridge!Taken(s) \in [Streams -> 0..MaxLines]
        /\ Bridge!Taken(s)[s] <= pipe[s] /\ \A t \in Streams \ {s} : Bridge!Taken(s)[t] = file.pending[t]
        /\ pipe[s] - Bridge!Taken(s)[s] = n + 1 /\ Bridge!First(s) = n + 1 /\ n \in Nat
        /\ Bridge!First(s) \in 1..MaxLines
        /\ ended[s] # "closed"
        /\ \A t \in Streams : MirrorIn(file.lines, t, pipe[t] - file.pending[t], lost[t])
    BY <1>1, LineTaken
  <1>3. /\ file'.lines = file.lines /\ file'.pending = Bridge!Taken(s)
        /\ file' \in [lines : Seq(Streams \X (1..MaxLines)), pending : [Streams -> 0..MaxLines]]
    BY <1>1, <1>2 DEF Bridge!TypeOK
  <1>4. /\ lost' \in [Streams -> SUBSET (1..MaxLines)] /\ lost'[s] = lost[s] \cup {n + 1}
        /\ \A t \in Streams \ {s} : lost'[t] = lost[t]
    BY <1>1, <1>2
  <1>5. Bridge!TypeOK'
    BY <1>1, <1>3, <1>4 DEF Bridge!TypeOK
  <1>6. StreamInv(s)'
    <2>1. MirrorIn(file.lines, s, n, lost[s])
      BY <1>2
    <2> HIDE DEF n
    <2>2. MirrorIn(file.lines, s, n + 1, lost[s] \cup {n + 1})
      BY <1>2, <2>1, MirrorLess
    <2> QED
      BY <1>1, <1>2, <1>3, <1>4, <2>2 DEF StreamInv, Bridge!Shown
  <1>7. ASSUME NEW t \in Streams \ {s} PROVE StreamInv(t)'
    BY <1>1, <1>2, <1>3, <1>4 DEF StreamInv, Bridge!Shown
  <1> QED
    BY <1>5, <1>6, <1>7 DEF BridgeOK

LEMMA BridgeCloseStream ==
  ASSUME BridgeOK, NEW s \in Streams, Bridge!CloseStream(s)
  PROVE  BridgeOK'
  <1>1. /\ Bridge!TypeOK /\ UNCHANGED <<printed, pipe, stream, log, file, broke, lost>>
        /\ ended' = [ended EXCEPT ![s] = "closed"] /\ file.pending[s] = 0
        /\ broke[s] = "no" => pipe[s] = Len(printed[s])
        /\ \A t \in Streams : StreamInv(t)
    BY DEF BridgeOK, Bridge!CloseStream
  <1>2. ended' \in [Streams -> {"open", "eof", "closed"}] /\ \A t \in Streams \ {s} : ended'[t] = ended[t]
    BY <1>1 DEF Bridge!TypeOK
  <1>3. Bridge!TypeOK'
    BY <1>1, <1>2 DEF Bridge!TypeOK
  <1>4. StreamInv(s)'
    BY <1>1, <1>2 DEF StreamInv, Bridge!Shown
  <1>5. ASSUME NEW t \in Streams \ {s} PROVE StreamInv(t)'
    BY <1>1, <1>2 DEF StreamInv, Bridge!Shown
  <1> QED
    BY <1>3, <1>4, <1>5 DEF BridgeOK

\* A line is read and mirrored.
LEMMA LineRead ==
  ASSUME BridgeOK, NEW s \in Streams, Bridge!ReadLine(s)
  PROVE  /\ pipe' \in [Streams -> 0..MaxLines] /\ pipe'[s] = pipe[s] + 1
         /\ \A t \in Streams \ {s} : pipe'[t] = pipe[t]
         /\ file' \in [lines : Seq(Streams \X (1..MaxLines)), pending : [Streams -> 0..MaxLines]]
         /\ file'.lines = file.lines /\ \A t \in Streams \ {s} : file'.pending[t] = file.pending[t]
         /\ file'.pending[s] <= pipe'[s] /\ pipe'[s] <= Len(printed[s]) /\ pipe'[s] > 0
         /\ MirrorIn(file'.lines, s, pipe'[s] - file'.pending[s], lost[s])
         /\ broke[s] = "no" /\ ended[s] # "closed" /\ Bridge!Shown(s) = pipe[s]
  <1> DEFINE n == pipe[s]
             pf == file.pending[s]
             pe == [file.pending EXCEPT ![s] = pf + 1]
  <1>1. /\ Bridge!TypeOK /\ MaxLines \in Nat /\ n \in Nat /\ pf \in Nat /\ Len(printed[s]) \in Nat
        /\ pipe \in [Streams -> 0..MaxLines] /\ file.pending \in [Streams -> 0..MaxLines]
        /\ file.lines \in Seq(Streams \X (1..MaxLines))
    BY BridgeParts DEF BridgeOK
  <1>2. /\ broke[s] = "no" /\ n < Len(printed[s]) /\ pipe' = [pipe EXCEPT ![s] = n + 1]
        /\ file' = [file EXCEPT !.pending[s] = @ + 1]
    BY DEF Bridge!ReadLine
  <1>3. /\ Len(printed[s]) <= MaxLines /\ pf <= n /\ MirrorIn(file.lines, s, n - pf, lost[s])
        /\ ended[s] = "closed" => (broke[s] = "no" => n = Len(printed[s]))
    BY DEF BridgeOK, StreamInv
  <1> HIDE DEF pf
  <1>4. file'.lines = file.lines /\ file'.pending = pe /\ file' = [lines |-> file.lines, pending |-> pe]
    <2>1. file = [lines |-> file.lines, pending |-> file.pending]
      BY <1>1 DEF Bridge!TypeOK
    <2> QED
      BY <1>2, <2>1 DEF pf
  <1> HIDE DEF n
  <1>5. /\ pf + 1 \in 0..MaxLines /\ n + 1 \in 0..MaxLines /\ (n + 1) - (pf + 1) = n - pf
        /\ pf + 1 <= n + 1 /\ n + 1 <= Len(printed[s]) /\ n + 1 > 0
    BY ONLY <1>1, <1>2, <1>3
  <1>6. pe \in [Streams -> 0..MaxLines] /\ pe[s] = pf + 1 /\ \A t \in Streams \ {s} : pe[t] = file.pending[t]
    BY <1>1, <1>5
  <1>7. /\ pipe' \in [Streams -> 0..MaxLines] /\ pipe'[s] = n + 1
        /\ \A t \in Streams \ {s} : pipe'[t] = pipe[t]
    BY <1>1, <1>2, <1>5
  <1> HIDE DEF pe
  <1>8. file' \in [lines : Seq(Streams \X (1..MaxLines)), pending : [Streams -> 0..MaxLines]]
    BY <1>1, <1>4, <1>6
  <1>9. ended[s] # "closed" /\ Bridge!Shown(s) = n
    BY <1>1, <1>2, <1>3 DEF Bridge!Shown, n
  <1> QED
    BY <1>2, <1>3, <1>4, <1>5, <1>6, <1>7, <1>8, <1>9 DEF n

\* A thread that breaks leaves what it handled as it is.
LEMMA BridgeDrainRaises ==
  ASSUME BridgeOK, NEW s \in Streams, Bridge!DrainRaises(s)
  PROVE  BridgeOK'
  <1>1. /\ Bridge!TypeOK /\ UNCHANGED <<printed, stream, log, ended, lost>> /\ \A t \in Streams : StreamInv(t)
        /\ broke[s] = "no" /\ ended[s] # "closed" /\ broke \in [Streams -> {"no", "between", "within"}]
    BY BridgeParts DEF BridgeOK, Bridge!DrainRaises
  <1>2. CASE broke' = [broke EXCEPT ![s] = "between"] /\ UNCHANGED <<pipe, file>>
    <2>1. /\ broke' \in [Streams -> {"no", "between", "within"}] /\ broke'[s] = "between"
          /\ \A t \in Streams \ {s} : broke'[t] = broke[t]
      BY <1>1, <1>2
    <2>2. Bridge!TypeOK'
      BY <1>1, <1>2, <2>1 DEF Bridge!TypeOK
    <2>3. \A t \in Streams : StreamInv(t)'
      BY <1>1, <1>2, <2>1 DEF StreamInv, Bridge!Shown
    <2> QED
      BY <2>2, <2>3 DEF BridgeOK
  <1>3. CASE Bridge!ReadLine(s) /\ broke' = [broke EXCEPT ![s] = "within"]
    <2>1. /\ broke' \in [Streams -> {"no", "between", "within"}] /\ broke'[s] = "within"
          /\ \A t \in Streams \ {s} : broke'[t] = broke[t]
      BY <1>1, <1>3
    <2>2. /\ pipe' \in [Streams -> 0..MaxLines] /\ pipe'[s] = pipe[s] + 1
          /\ \A t \in Streams \ {s} : pipe'[t] = pipe[t]
          /\ file' \in [lines : Seq(Streams \X (1..MaxLines)), pending : [Streams -> 0..MaxLines]]
          /\ file'.lines = file.lines /\ \A t \in Streams \ {s} : file'.pending[t] = file.pending[t]
          /\ file'.pending[s] <= pipe'[s] /\ pipe'[s] <= Len(printed[s]) /\ pipe'[s] > 0
          /\ MirrorIn(file'.lines, s, pipe'[s] - file'.pending[s], lost[s])
          /\ Bridge!Shown(s) = pipe[s]
      BY <1>3, LineRead
    <2>3. Bridge!TypeOK'
      BY <1>1, <2>1, <2>2 DEF Bridge!TypeOK
    <2>4. pipe[s] \in Nat /\ (pipe[s] + 1) - 1 = pipe[s]
      BY <1>1, BridgeParts
    <2>5. Bridge!Shown(s)' = Bridge!Shown(s)
      BY <2>1, <2>2, <2>4 DEF Bridge!Shown
    <2>6. StreamInv(s)'
      BY <1>1, <2>1, <2>2, <2>5 DEF StreamInv
    <2>7. ASSUME NEW t \in Streams \ {s} PROVE StreamInv(t)'
      BY <1>1, <2>1, <2>2 DEF StreamInv, Bridge!Shown
    <2> QED
      BY <2>3, <2>6, <2>7 DEF BridgeOK
  <1> QED
    BY <1>2, <1>3 DEF Bridge!DrainRaises

\* What becomes of a line: it is blank, shown, held back or the last of its block.
Handled(s, i, l, B) ==
    \/ /\ l.blank /\ log' = log /\ stream'[s].buffer = B
       /\ stream'[s].collecting = stream[s].collecting /\ stream'[s].balance = stream[s].balance
    \/ /\ ~l.blank /\ log' = Append(log, Bridge!Block(s, <<i>>)) /\ stream'[s].buffer = B
       /\ stream'[s].collecting = stream[s].collecting /\ stream'[s].balance = stream[s].balance
    \/ /\ ~l.blank /\ log' = log /\ stream'[s].buffer = Append(B, i) /\ stream'[s].collecting = TRUE
       /\ stream'[s].balance = stream[s].balance + l.net /\ stream'[s].balance > 0
       /\ B = <<>> => l.opens
    \/ /\ ~l.blank /\ log' = Append(log, Bridge!Block(s, Append(B, i))) /\ stream'[s].buffer = <<>>
       /\ stream'[s].collecting = FALSE /\ stream'[s].balance = 0

Grown(st, i, l) == IF st.collecting THEN Bridge!Added(st, i, l) ELSE Bridge!Started(st, i, l)

LEMMA NewBlock ==
  ASSUME NEW st \in StreamType, NEW i \in 1..MaxLines, NEW l, l.net \in Int,
         st.collecting = (st.buffer # <<>>), st.buffer = <<>> => st.balance = 0
  PROVE  /\ Grown(st, i, l) \in StreamType /\ Grown(st, i, l).buffer = Append(st.buffer, i)
         /\ Grown(st, i, l).collecting = TRUE
         /\ Grown(st, i, l).balance = st.balance + l.net /\ Grown(st, i, l).trace = st.trace
  <1> DEFINE new == Grown(st, i, l)
  <1>1. st.buffer \in Seq(1..MaxLines) /\ st.balance \in Int /\ st.collecting \in BOOLEAN
    BY DEF StreamType
  <1>2. CASE st.collecting = TRUE
    <2> DEFINE b == Append(st.buffer, i)
               r == [st EXCEPT !.buffer = b]
    <2>1. b \in Seq(1..MaxLines)
      BY <1>1
    <2>2. new = Bridge!Added(st, i, l)
      BY <1>2 DEF Grown
    <2> HIDE DEF b, new
    <2>3. r \in StreamType /\ r.buffer = b /\ r.balance = st.balance /\ r.collecting = TRUE /\ r.trace = st.trace
      BY <1>2, <2>1 DEF StreamType
    <2>4. new = [r EXCEPT !.balance = @ + l.net]
      BY <2>2 DEF Bridge!Added, b
    <2> HIDE DEF r
    <2>5. r.balance + l.net \in Int
      BY <1>1, <2>3
    <2>6. /\ new \in StreamType /\ new.buffer = r.buffer /\ new.collecting = r.collecting
          /\ new.balance = r.balance + l.net /\ new.trace = r.trace
      BY <2>3, <2>4, <2>5 DEF StreamType
    <2> QED
      BY <2>3, <2>6 DEF b, new
  <1>3. CASE st.collecting = FALSE
    <2> DEFINE b == <<i>>
               r == [st EXCEPT !.buffer = b]
               q == [r EXCEPT !.balance = l.net]
    <2>1. b \in Seq(1..MaxLines) /\ st.buffer = <<>> /\ b = Append(st.buffer, i)
      <3>1. st.buffer = <<>>
        BY <1>3
      <3>2. b = Append(<<>>, i)
        OBVIOUS
      <3>3. b \in Seq(1..MaxLines)
        OBVIOUS
      <3> QED
        BY <3>1, <3>2, <3>3
    <2>2. new = Bridge!Started(st, i, l)
      BY <1>3 DEF Grown
    <2> HIDE DEF b, new
    <2>3. r \in StreamType /\ r.buffer = b /\ r.trace = st.trace
      BY <2>1 DEF StreamType
    <2>4. new = [q EXCEPT !.collecting = TRUE]
      BY <2>2 DEF Bridge!Started, b
    <2> HIDE DEF r
    <2>5. q \in StreamType /\ q.buffer = b /\ q.balance = l.net /\ q.trace = st.trace
      BY <2>3 DEF StreamType
    <2> HIDE DEF q
    <2>6. /\ new \in StreamType /\ new.buffer = b /\ new.collecting = TRUE
          /\ new.balance = l.net /\ new.trace = st.trace
      BY <2>4, <2>5 DEF StreamType
    <2>7. l.net = st.balance + l.net
      BY <2>1
    <2> QED
      BY <2>1, <2>6, <2>7 DEF new
  <1> QED
    BY <1>1, <1>2, <1>3

LEMMA LineHandled ==
  ASSUME BridgeOK, NEW s \in Streams, Bridge!HandleLine(s)
  PROVE  /\ stream' \in [Streams -> StreamType] /\ log' \in Seq(BlockType)
         /\ \A t \in Streams \ {s} : stream'[t] = stream[t]
         /\ Handled(s, pipe[s] + 1, printed[s][pipe[s] + 1], stream[s].buffer)
         /\ \A ls : Bridge!Block(s, ls).of = s /\ ~Bridge!Block(s, ls).trace /\ Bridge!Block(s, ls).lines = ls
         /\ \A ls \in Seq(1..MaxLines) : Bridge!Block(s, ls) \in BlockType
         /\ pipe[s] + 1 \in 1..MaxLines /\ pipe[s] + 1 \in 1..Len(printed[s])
         /\ printed[s][pipe[s] + 1] \in Bridge!Lines
  <1> DEFINE i == pipe[s] + 1
             l == printed[s][i]
             st == stream[s]
             new == Grown(st, i, l)
             done == IF st.collecting THEN Bridge!Complete(new, l) ELSE new.balance <= 0
  <1>1. /\ Bridge!TypeOK /\ st \in StreamType /\ stream \in [Streams -> StreamType] /\ log \in Seq(BlockType)
        /\ MaxLines \in Nat /\ pipe[s] \in Nat /\ Len(printed[s]) \in Nat /\ printed[s] \in Seq(Bridge!Lines)
        /\ pipe[s] < Len(printed[s]) /\ st.buffer \in Seq(1..MaxLines) /\ st.balance \in Int
    BY BridgeParts DEF BridgeOK, Bridge!HandleLine, Bridge!ReadLine
  <1>2. /\ st.collecting = (st.buffer # <<>>) /\ Len(printed[s]) <= MaxLines
        /\ st.balance = NetOf(printed[s], st.buffer, Len(st.buffer))
    BY DEF BridgeOK, StreamInv
  <1>4. \/ l.blank /\ UNCHANGED <<stream, log>>
        \/ ~l.blank /\ l.json /\ Bridge!Log(s, <<i>>)
           /\ stream' = [stream EXCEPT ![s] = Bridge!WithTrace(st, i, l.trace)]
        \/ ~l.blank /\ ~l.json /\ Bridge!Reassemble(s, i, l)
    BY DEF Bridge!HandleLine
  <1>5. i \in 1..MaxLines /\ i \in 1..Len(printed[s]) /\ i \in Nat
    BY <1>1, <1>2
  <1>6. l \in Bridge!Lines /\ l.net \in Int
    <2>1. l \in Bridge!Lines
      BY <1>1, <1>5
    <2> QED
      BY <2>1, LinesAre
  <1>7. st.buffer = <<>> => st.balance = 0
    <2>1. OpenedIn(printed[s], <<>>, 0) = {} /\ ShutIn(printed[s], <<>>, 0) = {}
      BY DEF OpenedIn, ShutIn
    <2>2. /\ Cardinality(OpenedIn(printed[s], <<>>, 0)) = 0
          /\ Cardinality(ShutIn(printed[s], <<>>, 0)) = 0
      BY <2>1, FS_EmptySet, Zenon
    <2>3. NetOf(printed[s], <<>>, 0) = 0
      BY <2>2 DEF NetOf
    <2>4. Len(<<>>) = 0
      OBVIOUS
    <2> QED
      BY <1>2, <2>3, <2>4
  <1>8. /\ \A ls : Bridge!Block(s, ls).of = s /\ ~Bridge!Block(s, ls).trace /\ Bridge!Block(s, ls).lines = ls
        /\ \A ls \in Seq(1..MaxLines) : Bridge!Block(s, ls) \in BlockType
    BY DEF Bridge!Block, BlockType
  <1>9. <<i>> \in Seq(1..MaxLines) /\ Append(st.buffer, i) \in Seq(1..MaxLines)
    BY <1>1, <1>5
  <1>a. ASSUME NEW su \in StreamType, NEW trace
        PROVE  /\ Bridge!WithTrace(su, i, trace) \in StreamType
               /\ Bridge!WithTrace(su, i, trace).buffer = su.buffer
               /\ Bridge!WithTrace(su, i, trace).collecting = su.collecting
               /\ Bridge!WithTrace(su, i, trace).balance = su.balance
    <2> DEFINE sv == [su EXCEPT !.trace = i]
    <2>1. i \in 0..MaxLines
      BY <1>1, <1>5
    <2> HIDE DEF i
    <2>2. sv \in StreamType /\ sv.buffer = su.buffer /\ sv.collecting = su.collecting /\ sv.balance = su.balance
      BY <2>1 DEF StreamType
    <2> HIDE DEF sv
    <2>3. Bridge!WithTrace(su, i, trace) = sv \/ Bridge!WithTrace(su, i, trace) = su
      BY DEF Bridge!WithTrace, sv
    <2> QED
      BY <2>2, <2>3
  <1> HIDE DEF i, l, st
  <1>10. /\ new \in StreamType /\ new.buffer = Append(st.buffer, i) /\ new.collecting = TRUE
         /\ new.balance = st.balance + l.net /\ new.trace = st.trace
    BY <1>1, <1>2, <1>5, <1>6, <1>7, NewBlock
  <1> HIDE DEF new, done
  <1>11. /\ stream' \in [Streams -> StreamType] /\ log' \in Seq(BlockType)
         /\ \A t \in Streams \ {s} : stream'[t] = stream[t]
         /\ Handled(s, i, l, stream[s].buffer)
    <2>1. CASE l.blank /\ UNCHANGED <<stream, log>>
      BY <1>1, <2>1 DEF Handled
    <2>2. CASE ~l.blank /\ l.json /\ Bridge!Log(s, <<i>>)
               /\ stream' = [stream EXCEPT ![s] = Bridge!WithTrace(st, i, l.trace)]
      <3>1. log' = Append(log, Bridge!Block(s, <<i>>)) /\ log' \in Seq(BlockType)
        <4>1. log' = Append(log, Bridge!Block(s, <<i>>))
          BY <2>2 DEF Bridge!Log
        <4>2. Bridge!Block(s, <<i>>) \in BlockType
          BY <1>8, <1>9
        <4> QED
          BY <1>1, <4>1, <4>2
      <3>2. /\ stream' \in [Streams -> StreamType] /\ \A t \in Streams \ {s} : stream'[t] = stream[t]
            /\ stream'[s].buffer = stream[s].buffer
            /\ stream'[s].collecting = stream[s].collecting /\ stream'[s].balance = stream[s].balance
        <4> DEFINE su == Bridge!WithTrace(st, i, l.trace)
        <4>1. /\ su \in StreamType /\ su.buffer = st.buffer
              /\ su.collecting = st.collecting /\ su.balance = st.balance
          BY <1>1, <1>a
        <4> HIDE DEF su
        <4>2. stream' = [stream EXCEPT ![s] = su]
          BY <2>2 DEF su
        <4> QED
          BY <1>1, <4>1, <4>2 DEF st
      <3> QED
        BY <2>2, <3>1, <3>2 DEF Handled
    <2>3. CASE ~l.blank /\ ~l.json /\ Bridge!Reassemble(s, i, l)
      <3>1. \/ ~st.collecting /\ ~l.opens /\ UNCHANGED stream /\ Bridge!Log(s, <<i>>)
            \/ /\ st.collecting \/ l.opens
               /\ \/ ~done /\ UNCHANGED log /\ stream' = [stream EXCEPT ![s] = new]
                  \/ /\ done /\ Bridge!Log(s, new.buffer)
                     /\ \E trace \in BOOLEAN :
                            stream' = [stream EXCEPT ![s] = Bridge!WithTrace(Bridge!Flushed(new), i, trace)]
        BY <2>3 DEF Bridge!Reassemble, new, done, st, Grown
      <3>2. CASE ~st.collecting /\ ~l.opens /\ UNCHANGED stream /\ Bridge!Log(s, <<i>>)
        <4>1. log' = Append(log, Bridge!Block(s, <<i>>)) /\ log' \in Seq(BlockType)
          <5>1. log' = Append(log, Bridge!Block(s, <<i>>))
            BY <3>2 DEF Bridge!Log
          <5>2. Bridge!Block(s, <<i>>) \in BlockType
            BY <1>8, <1>9
          <5> QED
            BY <1>1, <5>1, <5>2
        <4> QED
          BY <1>1, <2>3, <3>2, <4>1 DEF Handled
      <3>3. CASE /\ st.collecting \/ l.opens
                 /\ \/ ~done /\ UNCHANGED log /\ stream' = [stream EXCEPT ![s] = new]
                    \/ /\ done /\ Bridge!Log(s, new.buffer)
                       /\ \E trace \in BOOLEAN :
                              stream' = [stream EXCEPT ![s] = Bridge!WithTrace(Bridge!Flushed(new), i, trace)]
        <4>1. CASE done
          <5>a. PICK trace \in BOOLEAN :
                    stream' = [stream EXCEPT ![s] = Bridge!WithTrace(Bridge!Flushed(new), i, trace)]
            BY <3>3, <4>1
          <5> DEFINE fl == Bridge!Flushed(new)
                     ft == Bridge!WithTrace(fl, i, trace)
          <5>1. log' = Append(log, Bridge!Block(s, Append(st.buffer, i))) /\ log' \in Seq(BlockType)
            <6>1. log' = Append(log, Bridge!Block(s, Append(st.buffer, i)))
              BY <1>10, <3>3, <4>1 DEF Bridge!Log
            <6>2. Bridge!Block(s, Append(st.buffer, i)) \in BlockType
              BY <1>8, <1>9
            <6> QED
              BY <1>1, <6>1, <6>2
          <5>2. fl \in StreamType /\ fl.buffer = <<>> /\ fl.collecting = FALSE /\ fl.balance = 0
            <6> DEFINE a == [new EXCEPT !.buffer = <<>>]
                       b == [a EXCEPT !.balance = 0]
            <6>0. <<>> \in Seq(1..MaxLines)
              OBVIOUS
            <6>1. a \in StreamType /\ a.buffer = <<>>
              BY <1>10, <6>0 DEF StreamType
            <6>2. fl = [b EXCEPT !.collecting = FALSE]
              BY DEF Bridge!Flushed
            <6> HIDE DEF a, fl
            <6>3. b \in StreamType /\ b.buffer = <<>> /\ b.balance = 0
              BY <6>1 DEF StreamType
            <6> HIDE DEF b
            <6> QED
              BY <6>2, <6>3 DEF StreamType
          <5>b. /\ ft \in StreamType /\ ft.buffer = fl.buffer /\ ft.collecting = fl.collecting
                /\ ft.balance = fl.balance
            BY <1>a, <5>2
          <5>3. stream' = [stream EXCEPT ![s] = ft]
            BY <5>a
          <5> HIDE DEF fl, ft
          <5>4. stream' \in [Streams -> StreamType] /\ stream'[s] = ft /\ \A t \in Streams \ {s} : stream'[t] = stream[t]
            BY <1>1, <5>b, <5>3
          <5> QED
            BY <2>3, <5>1, <5>2, <5>b, <5>4 DEF Handled, st
        <4>2. CASE ~done
          <5>1. stream' = [stream EXCEPT ![s] = new] /\ log' = log
            BY <3>3, <4>2
          <5>2. stream' \in [Streams -> StreamType] /\ stream'[s] = new /\ \A t \in Streams \ {s} : stream'[t] = stream[t]
            BY <1>1, <1>10, <5>1
          <5>3. new.balance > 0
            <6>1. ~(new.balance <= 0)
              BY <4>2 DEF done, Bridge!Complete
            <6>2. new.balance \in Int
              BY <1>10 DEF StreamType
            <6> QED
              BY <6>1, <6>2
          <5>4. st.buffer = <<>> => l.opens
            BY <1>2, <3>3
          <5> QED
            BY <1>1, <1>10, <2>3, <5>1, <5>2, <5>3, <5>4 DEF Handled, st
        <4> QED
          BY <4>1, <4>2
      <3> QED
        BY <3>1, <3>2, <3>3
    <2> QED
      BY <1>4, <2>1, <2>2, <2>3 DEF l
  <1> QED
    BY <1>5, <1>6, <1>8, <1>11 DEF i, l

LEMMA NetEmpty ==
  ASSUME NEW lines
  PROVE  NetOf(lines, <<>>, Len(<<>>)) = 0 /\ OpenIn(lines, <<>>)
  <1>1. OpenedIn(lines, <<>>, 0) = {} /\ ShutIn(lines, <<>>, 0) = {}
    BY DEF OpenedIn, ShutIn
  <1>2. /\ Cardinality(OpenedIn(lines, <<>>, 0)) = 0
        /\ Cardinality(ShutIn(lines, <<>>, 0)) = 0
    BY <1>1, FS_EmptySet, Zenon
  <1>3. NetOf(lines, <<>>, 0) = 0
    BY <1>2 DEF NetOf
  <1>4. Len(<<>>) = 0
    OBVIOUS
  <1> QED
    BY <1>3, <1>4 DEF OpenIn

LEMMA OpenAdded ==
  ASSUME NEW T, NEW lines, NEW held \in Seq(T), NEW x \in T, lines[x].net \in -1..1,
         OpenIn(lines, held), held = <<>> => lines[x].opens,
         NetOf(lines, held, Len(held)) + lines[x].net > 0
  PROVE  /\ OpenIn(lines, Append(held, x))
         /\ NetOf(lines, Append(held, x), Len(held) + 1) = NetOf(lines, held, Len(held)) + lines[x].net
  <1> DEFINE then == Append(held, x)
  <1>1. /\ DOMAIN then = 1..(Len(held) + 1) /\ Len(held) \in Nat
        /\ held # <<>> => then[1] = held[1] /\ 1 \in DOMAIN held
        /\ held = <<>> => then[1] = x
    OBVIOUS
  <1>2. /\ NetOf(lines, then, Len(held) + 1) = NetOf(lines, held, Len(held)) + lines[x].net
        /\ \A k \in 1..Len(held) : NetOf(lines, then, k) = NetOf(lines, held, k)
    BY NetAdded
  <1>3. lines[then[1]].opens
    BY <1>1 DEF OpenIn
  <1>4. ASSUME NEW k \in DOMAIN then PROVE NetOf(lines, then, k) > 0
    <2>1. CASE k = Len(held) + 1
      BY <1>2, <2>1
    <2>2. CASE k \in 1..Len(held)
      <3>1. k \in DOMAIN held /\ held # <<>>
        BY <2>2
      <3> HIDE DEF then
      <3> QED
        BY <1>2, <2>2, <3>1 DEF OpenIn
    <2> QED
      BY <1>1, <1>4, <2>1, <2>2
  <1> QED
    BY <1>2, <1>3, <1>4 DEF OpenIn

LEMMA BridgeHandleLine ==
  ASSUME BridgeOK, NEW s \in Streams, Bridge!HandleLine(s)
  PROVE  BridgeOK'
  <1> DEFINE n == pipe[s]
             i == pipe[s] + 1
             p == printed[s]
             l == p[i]
             B == stream[s].buffer
             bl == stream[s].balance
             ab == Bridge!Block(s, <<i>>)
             cb == Bridge!Block(s, Append(B, i))
  <1>1. /\ Bridge!TypeOK /\ n \in Nat /\ bl \in Int /\ B \in Seq(1..MaxLines) /\ log \in Seq(BlockType)
        /\ broke \in [Streams -> {"no", "between", "within"}]
        /\ lost \in [Streams -> SUBSET (1..MaxLines)]
    BY BridgeParts DEF BridgeOK
  <1>2. /\ Bridge!ReadLine(s) /\ UNCHANGED <<printed, ended, broke, lost>>
    BY DEF Bridge!HandleLine
  <1>r. /\ pipe' \in [Streams -> 0..MaxLines] /\ pipe'[s] = i
        /\ \A t \in Streams \ {s} : pipe'[t] = pipe[t]
        /\ file' \in [lines : Seq(Streams \X (1..MaxLines)), pending : [Streams -> 0..MaxLines]]
        /\ file'.lines = file.lines /\ \A t \in Streams \ {s} : file'.pending[t] = file.pending[t]
        /\ file'.pending[s] <= pipe'[s] /\ pipe'[s] <= Len(p) /\ pipe'[s] > 0
        /\ MirrorIn(file'.lines, s, pipe'[s] - file'.pending[s], lost[s])
        /\ broke[s] = "no" /\ ended[s] # "closed" /\ Bridge!Shown(s) = n
    BY <1>2, LineRead
  <1>3. /\ Len(p) <= MaxLines /\ stream[s].collecting = (B # <<>>)
        /\ bl = NetOf(p, B, Len(B))
        /\ OnceIn(log, B, s, p, n) /\ OpenIn(p, B)
    BY <1>r DEF BridgeOK, StreamInv
  <1>4. /\ stream' \in [Streams -> StreamType] /\ log' \in Seq(BlockType)
        /\ \A t \in Streams \ {s} : stream'[t] = stream[t]
        /\ Handled(s, i, l, B) /\ i \in 1..MaxLines /\ i \in 1..Len(p) /\ l \in Bridge!Lines
    BY LineHandled
  <1>5. /\ ab.of = s /\ ~ab.trace /\ ab.lines = <<i>> /\ ab \in BlockType
        /\ cb.of = s /\ ~cb.trace /\ cb.lines = Append(B, i) /\ cb \in BlockType
    <2>1. <<i>> \in Seq(1..MaxLines) /\ Append(B, i) \in Seq(1..MaxLines)
      BY <1>1, <1>4
    <2> QED
      <3>1. /\ \A ls : Bridge!Block(s, ls).of = s /\ ~Bridge!Block(s, ls).trace /\ Bridge!Block(s, ls).lines = ls
            /\ \A ls \in Seq(1..MaxLines) : Bridge!Block(s, ls) \in BlockType
        BY LineHandled
      <3> QED
        BY <2>1, <3>1
  <1>6. l.net \in -1..1 /\ l.net \in Int
    BY <1>4, LinesAre
  <1> HIDE DEF l, p, B, bl, ab, cb
  <1>10. Bridge!TypeOK'
    <2>1. /\ printed' \in [Streams -> Seq(Bridge!Lines)] /\ ended' \in [Streams -> {"open", "eof", "closed"}]
          /\ broke' \in [Streams -> {"no", "between", "within"}] /\ lost' \in [Streams -> SUBSET (1..MaxLines)]
      BY <1>1, <1>2 DEF Bridge!TypeOK
    <2> QED
      BY <1>4, <1>r, <2>1, BridgeTypes
  <1>12. /\ stream'[s].collecting = (stream'[s].buffer # <<>>)
         /\ stream'[s].balance = NetOf(p, stream'[s].buffer, Len(stream'[s].buffer))
         /\ OnceIn(log', stream'[s].buffer, s, p, n + 1) /\ OpenIn(p, stream'[s].buffer)
         /\ log' = log \/ log' = Append(log, ab) \/ log' = Append(log, cb)
    <2> HIDE DEF n
    <2> DEFINE x == n + 1
    <2>0. x = i
      BY DEF n
    <2> HIDE DEF i
    <2>1. CASE /\ l.blank /\ log' = log /\ stream'[s].buffer = B
               /\ stream'[s].collecting = stream[s].collecting /\ stream'[s].balance = stream[s].balance
      <3>1. OnceIn(log, B, s, p, n + 1)
        BY <1>1, <1>3, <2>0, <2>1, OnceBlank DEF l
      <3> QED
        BY <1>3, <2>1, <3>1 DEF bl
    <2>2. CASE /\ ~l.blank /\ log' = Append(log, Bridge!Block(s, <<i>>)) /\ stream'[s].buffer = B
               /\ stream'[s].collecting = stream[s].collecting /\ stream'[s].balance = stream[s].balance
      <3>1. log' = Append(log, ab)
        BY <2>2 DEF ab
      <3>2. OnceIn(Append(log, ab), B, s, p, n + 1)
        BY <1>1, <1>3, <1>5, <2>0, <2>2, OnceLogged DEF l
      <3> QED
        BY <1>3, <2>2, <3>1, <3>2 DEF bl
    <2>3. CASE /\ ~l.blank /\ log' = log /\ stream'[s].buffer = Append(B, i) /\ stream'[s].collecting = TRUE
               /\ stream'[s].balance = stream[s].balance + l.net /\ stream'[s].balance > 0
               /\ B = <<>> => l.opens
      <3>1. OnceIn(log, Append(B, n + 1), s, p, n + 1)
        <4>1. n + 1 \in 1..MaxLines /\ ~p[n + 1].blank
          BY <1>4, <2>0, <2>3 DEF l
        <4> QED
          BY <1>1, <1>3, <4>1, OnceHeld
      <3>2. OpenIn(p, Append(B, i)) /\ NetOf(p, Append(B, i), Len(B) + 1) = NetOf(p, B, Len(B)) + l.net
        <4>1. p[i].net \in -1..1 /\ (B = <<>> => p[i].opens)
          BY <1>6, <2>3 DEF l
        <4>2. NetOf(p, B, Len(B)) + p[i].net > 0
          BY <1>3, <2>3 DEF l, bl
        <4>3. OpenIn(p, B) /\ B \in Seq(1..MaxLines) /\ i \in 1..MaxLines
          BY <1>1, <1>3, <1>4
        <4>4. /\ OpenIn(p, Append(B, i))
              /\ NetOf(p, Append(B, i), Len(B) + 1) = NetOf(p, B, Len(B)) + p[i].net
          BY <4>1, <4>2, <4>3, OpenAdded
        <4> QED
          BY <4>4 DEF l
      <3>3. Len(Append(B, i)) = Len(B) + 1 /\ Append(B, i) # <<>>
        <4>1. B \in Seq(1..MaxLines) /\ i \in 1..MaxLines
          BY <1>1, <1>4
        <4> QED
          BY <4>1
      <3> QED
        BY <1>3, <2>0, <2>3, <3>1, <3>2, <3>3 DEF bl
    <2>4. CASE /\ ~l.blank /\ log' = Append(log, Bridge!Block(s, Append(B, i))) /\ stream'[s].buffer = <<>>
               /\ stream'[s].collecting = FALSE /\ stream'[s].balance = 0
      <3>1. log' = Append(log, cb)
        BY <2>4 DEF cb
      <3>2. OnceIn(Append(log, cb), <<>>, s, p, n + 1)
        <4>1. n + 1 \in 1..MaxLines /\ ~p[n + 1].blank /\ cb.lines = Append(B, n + 1)
          BY <1>4, <1>5, <2>0, <2>4 DEF l
        <4> QED
          BY <1>1, <1>3, <1>5, <4>1, OnceClosed
      <3> QED
        BY <2>4, <3>1, <3>2, NetEmpty
    <2> QED
      BY <1>4, <2>1, <2>2, <2>3, <2>4 DEF Handled
  <1>13. StreamInv(s)'
    <2>1. ended'[s] # "closed" /\ printed'[s] = p /\ lost'[s] = lost[s] /\ broke'[s] = "no"
      BY <1>2, <1>r DEF p
    <2>2. Bridge!Shown(s)' = i
      BY <1>r, <2>1 DEF Bridge!Shown
    <2> QED
      BY <1>3, <1>r, <1>12, <2>1, <2>2 DEF StreamInv
  <1>14. ASSUME NEW t \in Streams \ {s} PROVE StreamInv(t)'
    <2> DEFINE m == Bridge!Shown(t)
    <2>1. StreamInv(t) /\ OnceIn(log, stream[t].buffer, t, printed[t], m) /\ m \in Nat
          /\ MirrorIn(file.lines, t, pipe[t] - file.pending[t], lost[t])
      BY <1>1, ShownIs DEF BridgeOK, StreamInv
    <2> HIDE DEF m
    <2>2. OnceIn(log', stream[t].buffer, t, printed[t], m)
      <3>1. CASE log' = log
        BY <2>1, <3>1
      <3>2. ASSUME NEW b \in BlockType, b.of = s, log' = Append(log, b)
            PROVE  OnceIn(log', stream[t].buffer, t, printed[t], m)
        BY <1>1, <2>1, <3>2, OnceOther
      <3> QED
        BY <1>5, <1>12, <3>1, <3>2
    <2>3. /\ printed'[t] = printed[t] /\ ended'[t] = ended[t] /\ pipe'[t] = pipe[t] /\ stream'[t] = stream[t]
          /\ file'.pending[t] = file.pending[t] /\ file'.lines = file.lines
          /\ broke'[t] = broke[t] /\ lost'[t] = lost[t]
      BY <1>2, <1>4, <1>r
    <2> QED
      BY <2>1, <2>2, <2>3, StreamElsewhere DEF m
  <1> QED
    BY <1>10, <1>13, <1>14 DEF BridgeOK

\* What the runs check of the bridge.
LEMMA BridgeStates ==
  ASSUME BridgeOK
  PROVE  Bridge!LinesKept /\ Bridge!BridgeInv
  <1>1. Bridge!TypeOK /\ \A s \in Streams : StreamInv(s)
    BY DEF BridgeOK
  <1>2. Bridge!LinesAccounted
    <2>1. \A s \in Streams : /\ OnceIn(log, Bridge!Held(s), s, printed[s], Bridge!Shown(s))
                             /\ OpenIn(printed[s], Bridge!Held(s))
      BY <1>1 DEF StreamInv, Bridge!Held
    <2> QED
      BY <1>1, <2>1, AccountedIs
  <1>3. ASSUME NEW s \in Streams
        PROVE  /\ \A j, k \in Bridge!OwnLines(s) : j < k => file.lines[j][2] < file.lines[k][2]
               /\ Bridge!Mirrored(s) = (1..(pipe[s] - file.pending[s])) \ lost[s]
               /\ lost[s] \subseteq 1..(pipe[s] - file.pending[s])
               /\ ended[s] = "closed" =>
                      /\ Bridge!Mirrored(s) \cup lost[s] = 1..pipe[s]
                      /\ broke[s] = "no" => pipe[s] = Len(printed[s])
    <2>1. /\ MirrorIn(file.lines, s, pipe[s] - file.pending[s], lost[s]) /\ pipe[s] \in Nat
          /\ ended[s] = "closed" => file.pending[s] = 0 /\ (broke[s] = "no" => pipe[s] = Len(printed[s]))
      BY <1>1, BridgeParts DEF StreamInv
    <2>2. /\ Bridge!OwnLines(s) = OwnIn(file.lines, s)
          /\ Bridge!Mirrored(s) = {file.lines[k][2] : k \in OwnIn(file.lines, s)}
      BY DEF Bridge!OwnLines, Bridge!Mirrored, OwnIn
    <2>3. ended[s] = "closed" => pipe[s] - file.pending[s] = pipe[s]
      BY <2>1
    <2> QED
      BY <2>1, <2>2, <2>3 DEF MirrorIn
  <1>4. Bridge!MirrorWhole
    BY <1>3 DEF Bridge!MirrorWhole
  <1>5. Bridge!PipesInv
    BY <1>1, <1>3 DEF Bridge!PipesInv, StreamInv
  <1>6. Bridge!HeldInv
    <2>1. ASSUME NEW s \in Streams
          PROVE  /\ stream[s].collecting = (Bridge!Held(s) # <<>>)
                 /\ stream[s].balance = Bridge!Cardinality(Bridge!Opened(s, Len(Bridge!Held(s))))
                                            - Bridge!Cardinality(Bridge!Shut(s, Len(Bridge!Held(s))))
      <3> DEFINE held == stream[s].buffer
                 k == Len(held)
      <3>1. stream[s].collecting = (held # <<>>) /\ stream[s].balance = NetOf(printed[s], held, k)
        BY <1>1 DEF StreamInv
      <3>2. Bridge!Held(s) = held
        BY DEF Bridge!Held
      <3> HIDE DEF held
      <3>3. Bridge!Opened(s, k) = OpenedIn(printed[s], held, k) /\ Bridge!Shut(s, k) = ShutIn(printed[s], held, k)
        BY <3>2 DEF Bridge!Opened, Bridge!Shut, OpenedIn, ShutIn
      <3> HIDE DEF k
      <3>4. stream[s].balance = Bridge!Cardinality(Bridge!Opened(s, k)) - Bridge!Cardinality(Bridge!Shut(s, k))
        BY <3>1, <3>3, BridgeSets DEF NetOf
      <3> QED
        BY <3>1, <3>2, <3>4 DEF k
    <2> QED
      BY <2>1 DEF Bridge!HeldInv
  <1> QED
    BY <1>1, <1>2, <1>4, <1>5, <1>6 DEF Bridge!LinesKept, Bridge!BridgeInv

LEMMA BridgeBegins ==
  ASSUME Bridge!Init
  PROVE  BridgeOK
  <1>1. /\ printed = [s \in Streams |-> <<>>] /\ pipe = [s \in Streams |-> 0] /\ log = <<>>
        /\ stream = [s \in Streams |-> [collecting |-> FALSE, buffer |-> <<>>, balance |-> 0, trace |-> 0]]
        /\ file = [lines |-> <<>>, pending |-> [s \in Streams |-> 0]] /\ ended = [s \in Streams |-> "open"]
        /\ broke = [s \in Streams |-> "no"] /\ lost = [s \in Streams |-> {}]
    BY DEF Bridge!Init
  <1>2. MaxLines \in Nat /\ 0 \in 0..MaxLines
    BY BoundsAssumption
  <1>3. Bridge!TypeOK
    <2>1. <<>> \in Seq(Bridge!Lines) /\ <<>> \in Seq(BlockType) /\ <<>> \in Seq(1..MaxLines)
          /\ <<>> \in Seq(Streams \X (1..MaxLines))
      OBVIOUS
    <2>2. printed \in [Streams -> Seq(Bridge!Lines)] /\ pipe \in [Streams -> 0..MaxLines] /\ log \in Seq(BlockType)
          /\ ended \in [Streams -> {"open", "eof", "closed"}]
          /\ broke \in [Streams -> {"no", "between", "within"}] /\ lost \in [Streams -> SUBSET (1..MaxLines)]
      BY <1>1, <1>2, <2>1
    <2>3. stream \in [Streams -> StreamType]
      BY <1>1, <1>2, <2>1 DEF StreamType
    <2>4. file \in [lines : Seq(Streams \X (1..MaxLines)), pending : [Streams -> 0..MaxLines]]
      BY <1>1, <1>2, <2>1
    <2> QED
      BY <2>2, <2>3, <2>4 DEF Bridge!TypeOK, StreamType, BlockType
  <1>4. ASSUME NEW s \in Streams PROVE StreamInv(s)
    <2>1. /\ printed[s] = <<>> /\ pipe[s] = 0 /\ file.lines = <<>> /\ file.pending[s] = 0 /\ ended[s] = "open"
          /\ stream[s].buffer = <<>> /\ stream[s].collecting = FALSE /\ stream[s].balance = 0
          /\ broke[s] = "no" /\ lost[s] = {} /\ Bridge!Shown(s) = 0
      BY <1>1 DEF Bridge!Shown
    <2>2. OnceIn(<<>>, <<>>, s, <<>>, 0)
      BY DEF OnceIn, AtIn
    <2>3. MirrorIn(<<>>, s, 0, {})
      <3>1. OwnIn(<<>>, s) = {}
        BY DEF OwnIn
      <3>2. (1..0) \ {} = {}
        OBVIOUS
      <3> QED
        BY <3>1, <3>2 DEF MirrorIn
    <2>4. NetOf(<<>>, <<>>, Len(<<>>)) = 0 /\ OpenIn(<<>>, <<>>)
      BY NetEmpty
    <2>5. Len(<<>>) = 0 /\ 0 <= MaxLines /\ 0 - 0 = 0
      BY <1>2
    <2> QED
      <3>1. OnceIn(log, stream[s].buffer, s, printed[s], Bridge!Shown(s)) /\ OpenIn(printed[s], stream[s].buffer)
        BY <1>1, <2>1, <2>2, <2>4
      <3>2. MirrorIn(file.lines, s, pipe[s] - file.pending[s], lost[s])
        BY <2>1, <2>3, <2>5
      <3>3. stream[s].balance = NetOf(printed[s], stream[s].buffer, Len(stream[s].buffer))
        BY <2>1, <2>4
      <3>4. Len(printed[s]) <= MaxLines /\ pipe[s] <= Len(printed[s]) /\ file.pending[s] <= pipe[s]
        BY <2>1, <2>5
      <3> QED
        BY <2>1, <3>1, <3>2, <3>3, <3>4 DEF StreamInv
  <1> QED
    BY <1>3, <1>4 DEF BridgeOK

LEMMA BridgeStays ==
  ASSUME BridgeOK, UNCHANGED Bridge!bridgeVars
  PROVE  BridgeOK'
  <1>1. UNCHANGED <<printed, pipe, stream, file, log, ended, broke, lost>> /\ Bridge!TypeOK
    BY DEF Bridge!bridgeVars, BridgeOK
  <1>2. Bridge!TypeOK'
    BY <1>1 DEF Bridge!TypeOK
  <1>3. ASSUME NEW s \in Streams PROVE StreamInv(s)'
    <2>1. StreamInv(s)
      BY DEF BridgeOK
    <2> QED
      BY <1>1, <2>1, StreamSame
  <1> QED
    BY <1>2, <1>3 DEF BridgeOK

LEMMA BridgeNext ==
  ASSUME BridgeOK, Bridge!Next
  PROVE  BridgeOK'
  <1>1. PICK s \in Streams :
           \/ Bridge!WriteLine(s) \/ Bridge!EndOfFile(s) \/ Bridge!Drain(s) \/ Bridge!Mirror(s)
    BY DEF Bridge!Next
  <1>2. CASE Bridge!WriteLine(s)
    BY <1>2, BridgeWriteLine
  <1>3. CASE Bridge!EndOfFile(s)
    BY <1>3, BridgeEndOfFile
  <1>4. CASE Bridge!HandleLine(s)
    BY <1>4, BridgeHandleLine
  <1>5. CASE Bridge!ShowTrace(s)
    BY <1>5, BridgeShowTrace
  <1>6. CASE Bridge!DrainRaises(s)
    BY <1>6, BridgeDrainRaises
  <1>7. CASE Bridge!CloseStream(s)
    BY <1>7, BridgeCloseStream
  <1>8. CASE Bridge!WriteOut(s)
    BY <1>8, BridgeWriteOut
  <1>9. CASE Bridge!WriteFails(s)
    BY <1>9, BridgeWriteFails
  <1> QED
    BY <1>1, <1>2, <1>3, <1>4, <1>5, <1>6, <1>7, <1>8, <1>9 DEF Bridge!Drain, Bridge!Mirror

-----------------------------------------------------------------------------
(* Periphery                                                               *)

\* A step of Periphery is one of a component, for every component.
LEMMA ComponentSteps ==
  ASSUME [Next]_vars
  PROVE  /\ [Auth!Next]_authVars /\ [Board!Next]_dashboardVars /\ [Drawer!Next]_drawerVars
         /\ [Bridge!Next]_(Bridge!bridgeVars) /\ [Blocks!Next]_blockVars
  BY DEF Next, JwksStep, BoardStep, AuthStep, DrawerStep, BridgeStep, DesignStep, SlackStep,
         MemoryStep, VectorsStep, NewsStep, SettingsStep, FeedbackStep, BlocksStep, Still, vars,
         bridgeVars, Bridge!bridgeVars

LEMMA BridgeKept == BridgeOK /\ [Next]_vars => BridgeOK'
  BY ComponentSteps, BridgeNext, BridgeStays

\* Every line handled of a child process is logged once in a block of its stream, or held back
\* in one that a brace keeps open; the log file has the lines of a stream in order, without
\* those a write failed for, and after the close all that were read, which are all printed
\* ones unless an exception ended the thread (ProcessLogBridge); the blocks of an answer have its lines from the first prefix on, each
\* once and in order, under their prefix (parse_response_blocks), for all streams and answers.
THEOREM LinesAreKept == Spec => []LinesKept
  <1>1. Init => BridgeOK /\ Blocks!BlocksInv
    BY BridgeBegins, BlocksBegin DEF Init
  <1>2. BridgeOK /\ Blocks!BlocksInv /\ [Next]_vars => BridgeOK' /\ Blocks!BlocksInv'
    BY BridgeKept, BlocksNext, ComponentSteps
  <1>3. BridgeOK /\ Blocks!BlocksInv => LinesKept
    BY BridgeStates DEF LinesKept, Blocks!BlocksInv
  <1> QED
    BY <1>1, <1>2, <1>3, PTL DEF Spec

\* The state of every component around the chat keeps its shape, whichever of them is at work.
THEOREM ComponentTypes == Spec => []TypeOK
  <1> DEFINE I == /\ Auth!TypeOK /\ Auth!AuthInv /\ Board!BoardInv /\ Drawer!DrawerInv
                  /\ BridgeOK /\ Blocks!BlocksInv
             J == /\ Jwks!JwksInv /\ Settings!SettingsInv /\ Feedback!FeedbackInv
                  /\ Memory!TypeOK /\ Memory!OnlyStaleForgotten /\ Vectors!RagInv
                  /\ News!NewsInv /\ Design!DesignInv /\ Slack!SlackInv
  <1>1. Init => I /\ J
    <2>1. Init => I
      BY AuthTypesBegin, AuthBegins, BoardBegins, DrawerBegins, BridgeBegins, BlocksBegin DEF Init
    <2>2. Init => J
      BY JwksBegins, SettingsBegins, FeedbackBegins, MemoryBegins, RagBegins, NewsBegins,
         DesignBegins, SlackBegins DEF Init
    <2> QED
      BY <2>1, <2>2
  <1>2. I /\ [Next]_vars => I'
    <2> SUFFICES ASSUME I, [Next]_vars PROVE I'
      OBVIOUS
    <2>1. Auth!TypeOK' /\ Auth!AuthInv'
      BY ComponentSteps, AuthTypesKept, AuthNext
    <2>2. Board!BoardInv' /\ Drawer!DrawerInv' /\ BridgeOK' /\ Blocks!BlocksInv'
      BY ComponentSteps, BoardNext, DrawerNext, BridgeKept, BlocksNext
    <2> QED
      BY <2>1, <2>2
  <1>3. J /\ [Next]_vars => J'
    <2> SUFFICES ASSUME J, [Next]_vars PROVE J'
      OBVIOUS
    <2>1. Jwks!JwksInv' /\ Settings!SettingsInv' /\ Feedback!FeedbackInv'
      BY JwksNext, SettingsNext, FeedbackNext
    <2>2. Memory!TypeOK' /\ Memory!OnlyStaleForgotten'
      BY MemorySteps, MemoryKept
    <2>3. Vectors!RagInv' /\ News!NewsInv' /\ Design!DesignInv' /\ Slack!SlackInv'
      BY RagNext, NewsNext, DesignNext, SlackNext
    <2> QED
      BY <2>1, <2>2, <2>3
  <1>4. I /\ J => TypeOK
    BY DEF TypeOK, Jwks!JwksInv, Settings!SettingsInv, Feedback!FeedbackInv, Vectors!RagInv,
           News!NewsInv, Design!DesignInv, Slack!SlackInv, Board!BoardInv, Drawer!DrawerInv,
           BridgeOK, Blocks!BlocksInv
  <1> QED
    BY <1>1, <1>2, <1>3, <1>4, PTL DEF Spec
==============================================================================
