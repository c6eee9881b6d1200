------------------------------ MODULE VectorStores ------------------------------
(***************************************************************************)
(* base_rag.py and the tools built on it (PDF, web page, Docling and        *)
(* Confluence): a call answers a query from a vector store it finds, as a   *)
(* file or as a table of PostgreSQL, or builds from the documents at its    *)
(* urls.  Calls of several conversations run on one event loop and share    *)
(* files and tables by name only.  Documents are identified with the call's *)
(* urls; embedding and retrieval are abstracted to returning what the store *)
(* holds.                                                                   *)
(***************************************************************************)
EXTENDS Naturals, FiniteSets

CONSTANTS Calls, Urls,        \* concurrent calls, the urls one call may name
          Files, Tables,      \* vector_store_path, table_name (left out: "vectorstore")
          NoPath,             \* a call that names no file
          MaxCrashes          \* bound: crashes of the server

VARIABLES store,     \* per file and table: absent, cut or there, and the urls whose documents it holds
          call,      \* per call: where it is, what it was asked, the store it holds
          hurt,      \* places where a build lost its documents, or was cut
          met,       \* calls that met another at the same place
          crashes

ragVars == <<store, call, hurt, met, crashes>>

Places == Files \cup Tables
Idle   == [pc |-> "idle", place |-> NoPath, urls |-> {}, save |-> FALSE, found |-> FALSE,
           holds |-> {}]
\* A call whose store was there when it came.
Found(p, docs) == [pc |-> "query", place |-> p, urls |-> {}, save |-> FALSE, found |-> TRUE,
                   holds |-> docs]
Absent   == [is |-> "absent", of |-> {}]
Cut      == [is |-> "cut", of |-> {}]
There(u) == [is |-> "there", of |-> u]
Building == {"load", "init", "documents", "insert", "save", "query"}

goto(c, pc) == call' = [call EXCEPT ![c].pc = pc]
\* The call ends with a message or an exception.
Ends(c) == call' = [call EXCEPT ![c] = Idle]
Hurts(c) == hurt' = IF call[c].place = NoPath THEN hurt ELSE hurt \cup {call[c].place}

Init == /\ store = [p \in Places |-> Absent] /\ call = [c \in Calls |-> Idle]
        /\ hurt = {} /\ met = {} /\ crashes = 0

\* async_invoke: the arguments; Confluence never names a table.
Invoke(c) ==
    /\ call[c].pc \in {"idle", "answered"}
    /\ \E place \in Places \cup {NoPath}, u \in Urls, save \in BOOLEAN :
          /\ call' = [call EXCEPT ![c] =
                [pc |-> IF place \in Tables THEN "init" ELSE "load", place |-> place, urls |-> {u},
                 save |-> save /\ place \in Files, found |-> FALSE, holds |-> {}]]
          /\ LET others == {d \in Calls \ {c} : call[d].pc \in Building /\ call[d].place = place}
             IN  met' = IF place = NoPath \/ others = {} THEN met \ {c}
                        ELSE met \cup {c} \cup others
    /\ UNCHANGED <<store, hurt, crashes>>

\* _load_existing_vector_store: a file that does not parse is not a file that is missing.
Load(c) ==
    /\ call[c].pc = "load"
    /\ LET file == IF call[c].place = NoPath THEN Absent ELSE store[call[c].place]
       IN  \/ file = Absent /\ goto(c, "documents")
           \/ file = Cut /\ Ends(c)
           \/ /\ file.is = "there"
              /\ call' = [call EXCEPT ![c] = Found(call[c].place, file.of)]
    /\ UNCHANGED <<store, hurt, met, crashes>>

\* Mutant of InitTable: the documents are added to a table that exists as well.
InitTableAdds(c) ==
    /\ call[c].pc = "init"
    /\ store' = [store EXCEPT ![call[c].place] = There(@.of)]
    /\ goto(c, "documents")
    /\ UNCHANGED <<hurt, met, crashes>>

\* _create_postgres_vector_store: the table is made before there is anything to put
\* into it; a table that exists is taken as it is.
InitTable(c) ==
    /\ call[c].pc = "init"
    /\ LET p == call[c].place
       IN  IF store[p] = Absent
             THEN store' = [store EXCEPT ![p] = There({})] /\ goto(c, "documents")
             ELSE /\ call' = [call EXCEPT ![c] = Found(p, {})]
                  /\ UNCHANGED store
    /\ UNCHANGED <<hurt, met, crashes>>

\* The database cannot be reached or refuses the user: None, and a message.
InitFails(c) ==
    /\ call[c].pc = "init"
    /\ Ends(c)
    /\ UNCHANGED <<store, hurt, met, crashes>>

\* load_documents skips what it cannot load, possibly everything.
LoadDocuments(c) ==
    /\ call[c].pc = "documents"
    /\ \/ call' = [call EXCEPT ![c].holds = call[c].urls,
                               ![c].pc = IF call[c].place \in Tables THEN "insert" ELSE "save"]
          /\ UNCHANGED hurt
       \/ call' = [call EXCEPT ![c].holds = {},
                               ![c].pc = IF call[c].place \in Tables THEN "insert" ELSE "save"]
          /\ Hurts(c)
    /\ UNCHANGED <<store, met, crashes>>

\* An exception of the loader or of the embeddings, caught for a table if it is an
\* OSError; the table stays.
BuildFails(c) ==
    /\ call[c].pc \in {"documents", "insert"}
    /\ Ends(c)
    /\ Hurts(c)
    /\ UNCHANGED <<store, met, crashes>>

Insert(c) ==
    /\ call[c].pc = "insert"
    /\ LET p == call[c].place IN
       store' = [store EXCEPT ![p] = There(store[p].of \cup call[c].holds)]
    /\ goto(c, "query")
    /\ UNCHANGED <<hurt, met, crashes>>

\* _save_vector_store writes in place; an OSError is logged, whatever it left behind.
Save(c) ==
    /\ call[c].pc = "save"
    /\ call' = [call EXCEPT ![c].pc = "query", ![c].save = FALSE]
    /\ IF call[c].save
         THEN \/ store' = [store EXCEPT ![call[c].place] = There(call[c].holds)] /\ UNCHANGED hurt
              \/ \E left \in {Cut, store[call[c].place]} :
                    store' = [store EXCEPT ![call[c].place] = left] /\ Hurts(c)
         ELSE UNCHANGED <<store, hurt>>
    /\ UNCHANGED <<met, crashes>>

\* query_vectorstore: a table is read now, a store in memory is the one held.
Query(c) ==
    /\ call[c].pc = "query"
    /\ call' = [call EXCEPT ![c].pc = "answered",
                            ![c].holds = IF call[c].place \in Tables THEN store[call[c].place].of
                                         ELSE call[c].holds]
    /\ UNCHANGED <<store, hurt, met, crashes>>

\* The server dies; a file that was being written is cut.
Crash ==
    /\ crashes < MaxCrashes
    /\ crashes' = crashes + 1
    /\ call' = [c \in Calls |-> Idle] /\ met' = {}
    /\ LET at == {call[c].place : c \in {d \in Calls : call[d].pc \in Building}} \ {NoPath}
           writing == {call[c].place : c \in {d \in Calls : call[d].pc = "save" /\ call[d].save}}
       IN  /\ hurt' = hurt \cup at
           /\ \E cut \in SUBSET writing :
                 store' = [p \in Places |-> IF p \in cut THEN Cut ELSE store[p]]

Next == \/ \E c \in Calls : \/ Invoke(c) \/ Load(c) \/ InitTable(c) \/ InitFails(c)
                            \/ LoadDocuments(c) \/ BuildFails(c) \/ Insert(c) \/ Save(c)
                            \/ Query(c)
        \/ Crash

Spec == Init /\ [][Next]_ragVars

-----------------------------------------------------------------------------
\* Types: only a file can be cut.
States == {"idle", "answered"} \cup Building
Call   == [pc : States, place : Places \cup {NoPath}, urls : SUBSET Urls, save : BOOLEAN,
           found : BOOLEAN, holds : SUBSET Urls]
TypeOK ==
    /\ store \in [Places -> {Absent, Cut} \cup {There(u) : u \in SUBSET Urls}]
    /\ \A p \in Places : store[p] = Cut => p \in Files
    /\ call \in [Calls -> Call]
    /\ hurt \subseteq Places /\ met \subseteq Calls /\ crashes \in 0..MaxCrashes

Single(docs) == \A u, v \in docs : u = v

\* An answer comes from the documents of one call, never from a mixture of two: those
\* of the call itself if it did not find a store.  It comes from nothing only if a
\* build at its place lost its documents or, for a table, was still under way.
\* And a file that can no longer be read is the doing of a build that was cut.
AnswersSourced ==
    /\ \A c \in Calls : call[c].pc = "answered" =>
          /\ Single(call[c].holds)
          /\ ~call[c].found => call[c].holds \subseteq call[c].urls
          /\ call[c].holds = {} /\ call[c].place # NoPath =>
                \/ call[c].place \in hurt
                \/ call[c].found /\ call[c].place \in Tables /\ c \in met
    /\ \A p \in Places : store[p] = Cut => p \in hurt

-----------------------------------------------------------------------------
\* The inductive invariant behind it.  A call goes through the steps of its kind of
\* place, holds the documents of one call at most, and those of its own unless it
\* found a store.
Proper(k) ==
    /\ k.save => k.place \in Files
    /\ k.pc \in {"init", "insert"} => k.place \in Tables
    /\ k.pc \in {"load", "save"} => k.place \notin Tables
    /\ k.pc \in {"load", "init", "documents", "insert", "save"} => ~k.found
    /\ k.pc \in {"load", "init", "documents"} => k.urls # {}
    /\ Single(k.urls) /\ Single(k.holds)
    /\ ~k.found => k.holds \subseteq k.urls
CallsInv == \A c \in Calls : Proper(call[c])

\* Whoever holds nothing of what it loaded or read has been hurt, and so has a file
\* that holds nothing or was cut.
Holding(c) == call[c].pc \in {"insert", "save"} \/ (call[c].pc = "query" /\ call[c].place \notin Tables)
HoldersHurt == \A c \in Calls : Holding(c) /\ call[c].holds = {} /\ call[c].place # NoPath
                                   => call[c].place \in hurt
FilesHurt   == \A p \in Files : store[p] \in {Cut, There({})} => p \in hurt
OfOneCall   == \A p \in Places : Single(store[p].of)

\* A table has one owner, the call that made it, until that has read it: before it has
\* put its documents there the table is empty, and then it holds them.
Owns(c)  == call[c].place \in Tables /\ ~call[c].found /\ call[c].pc \in {"documents", "insert", "query"}
Fills(c) == Owns(c) /\ call[c].pc # "query"
OneOwner   == \A c, d \in Calls : Owns(c) /\ Owns(d) /\ call[c].place = call[d].place => c = d
OwnedHolds == \A c \in Calls : Owns(c) => store[call[c].place].of \subseteq call[c].urls
FilledSoon == \A c \in Calls : Fills(c) => store[call[c].place].of = {}
EmptyWhy   == \A p \in Tables : store[p].is = "there" /\ store[p].of = {} =>
                  p \in hurt \/ \E c \in Calls : Fills(c) /\ call[c].place = p
TableThere == \A c \in Calls : Owns(c) \/ (call[c].pc = "query" /\ call[c].place \in Tables)
                                  => store[call[c].place].is = "there"

\* Two calls that are at the same place have met.
MeetInv ==
    \A c, d \in Calls :
        c # d /\ {call[c].pc, call[d].pc} \subseteq Building /\ call[c].place = call[d].place
        /\ call[c].place # NoPath => c \in met

StoresInv == /\ HoldersHurt /\ FilesHurt /\ OfOneCall
             /\ OneOwner /\ OwnedHolds /\ FilledSoon /\ EmptyWhy /\ TableThere
RagInv == TypeOK /\ CallsInv /\ StoresInv /\ MeetInv /\ AnswersSourced
=============================================================================
