------------------------- MODULE NetworkMaterializer -------------------------
(***************************************************************************)
(* Custom agent networks live twice: as rows of agent_networks             *)
(* (agent_network_repo.py), and as HOCON files listed in the generated     *)
(* manifest, from which the agent library loads them                       *)
(* (network_materializer.py).  The routes of network_routes.py change the  *)
(* files inside the transaction that changes the row, and startup writes   *)
(* the files of all active rows again.                                     *)
(*                                                                         *)
(* A network is a pair of owner and slug, for which there is one row ever: *)
(* rows are archived, never deleted, and the pair is unique.  A handler    *)
(* keeps the lock of the row it wrote until its transaction ends.  The     *)
(* file operations have no await: handlers do not interleave there, but    *)
(* the process may die, or the operating system refuse, half way.          *)
(***************************************************************************)
EXTENDS Naturals, FiniteSets

CONSTANTS Networks,     \* networks of one user, by slug
          Contents,     \* HOCON contents
          NoRow,        \* the network was never created
          Archived,     \* its row is archived
          NoFile,       \* the file does not exist
          Torn,         \* the file was cut off while it was written
          Requests,     \* request handlers
          MaxNetworks,  \* MAX_NETWORKS_PER_USER
          FileNamed,    \* FileNamed[n]: networks in whose manifest line the file
                        \* name of n occurs as a piece of text
          Named         \* Named[n]: those in whose line the file name or the key does

ASSUME MaterializerAssumption ==
    /\ {NoFile, Torn, NoRow, Archived} \cap Contents = {}
    /\ NoFile # Torn /\ NoRow # Archived
    /\ MaxNetworks \in Nat
    /\ {FileNamed, Named} \subseteq [Networks -> SUBSET Networks]
    /\ \A n \in Networks : n \in FileNamed[n] /\ FileNamed[n] \subseteq Named[n]

VARIABLES
    row,    \* committed row of the network; an active one is its hocon_content
    file,   \* the network's HOCON file
    lines,  \* networks with a line in the generated manifest
    up,     \* the server: "up", "down", or "starting"
    todo,   \* networks that startup_materialize has yet to write
    req,    \* what each handler does
    hurt    \* history: networks whose file operations or commit failed since
            \* their files were last written

netVars == <<row, file, lines, up, todo, req, hurt>>

Idle == [at |-> "idle"]

\* A handler with its operation is about to write the row, about to change the
\* files, or about to commit.  "redelete" found the row archived already.
Work == [at : {"row", "files", "commit"}, op : {"create", "update", "delete", "redelete"},
         net : Networks, new : Contents]

TypeOK ==
    /\ row \in [Networks -> Contents \cup {NoRow, Archived}]
    /\ file \in [Networks -> Contents \cup {NoFile, Torn}]
    /\ lines \in SUBSET Networks
    /\ up \in {"up", "down", "starting"}
    /\ todo \in SUBSET Networks
    /\ req \in [Requests -> Work \cup {Idle}]
    /\ hurt \in SUBSET Networks

Init ==
    /\ row = [n \in Networks |-> NoRow]
    /\ file = [n \in Networks |-> NoFile]
    /\ lines = {}
    /\ up = "up"
    /\ todo = {}
    /\ req = [r \in Requests |-> Idle]
    /\ hurt = {}

Active == {n \in Networks : row[n] \in Contents}

\* The handler's transaction holds the lock of the row of n.
Locks(r, n) == /\ req[r].at \in {"files", "commit"}
               /\ req[r].op # "redelete"
               /\ req[r].net = n
Free(n) == \A r \in Requests : ~Locks(r, n)

goto(r, place) == req' = [req EXCEPT ![r].at = place]
finish(r)      == req' = [req EXCEPT ![r] = Idle]

-----------------------------------------------------------------------------
(* The routes, up to the statement that writes the row.                    *)

Begin(r, what, n, c) ==
    /\ up = "up"
    /\ req[r] = Idle
    /\ req' = [req EXCEPT ![r] = [at |-> "row", op |-> what, net |-> n, new |-> c]]
    /\ UNCHANGED <<row, file, lines, up, todo, hurt>>

\* create_network: the checks before the INSERT.
Create(r, n, c) ==
    /\ Cardinality(Active) < MaxNetworks
    /\ n \notin Active
    /\ Begin(r, "create", n, c)

\* update_network and delete_network: the row must be there to begin with.
Update(r, n, c) == n \in Active /\ Begin(r, "update", n, c)
Delete(r, n)    == \E c \in Contents : n \in Active /\ Begin(r, "delete", n, c)

\* Mutant of WriteRow: an archived row is committed before the files are removed.
WriteRowArchivesFirst(r) ==
    /\ req[r].at = "row"
    /\ LET n == req[r].net IN
       /\ Free(n)
       /\ CASE req[r].op = "create" -> IF row[n] = NoRow THEN goto(r, "files") ELSE finish(r)
            [] req[r].op = "update" -> IF n \in Active THEN goto(r, "files") ELSE finish(r)
            [] req[r].op = "delete" -> req' = [req EXCEPT ![r].at = "files", ![r].op = "redelete"]
       /\ row' = IF req[r].op = "delete" THEN [row EXCEPT ![n] = Archived] ELSE row
    /\ UNCHANGED <<file, lines, up, todo, hurt>>

\* The statement waits for the transaction that holds the row and then goes by
\* what that has committed.  A second row of the same slug is a conflict (400),
\* an update of a row archived meanwhile fails (500).
WriteRow(r) ==
    /\ req[r].at = "row"
    /\ LET n == req[r].net IN
       /\ Free(n)
       /\ CASE req[r].op = "create" -> IF row[n] = NoRow THEN goto(r, "files") ELSE finish(r)
            [] req[r].op = "update" -> IF n \in Active THEN goto(r, "files") ELSE finish(r)
            [] req[r].op = "delete" -> req' = [req EXCEPT ![r].at = "files",
                                               ![r].op = IF n \in Active THEN @ ELSE "redelete"]
    /\ UNCHANGED <<row, file, lines, up, todo, hurt>>

-----------------------------------------------------------------------------
(* The file operations.                                                    *)

Writes(r) == req[r].op \in {"create", "update"}

\* _register_in_manifest looks for the file name in the text of the manifest.
Registered(n) == lines \cap FileNamed[n] # {}

\* materialize: the file, then the line.
Write(n, c) ==
    /\ file' = [file EXCEPT ![n] = c]
    /\ lines' = IF Registered(n) THEN lines ELSE lines \cup {n}

\* dematerialize: the file, then every line with the file name or the key in it.
Remove(n) ==
    /\ file' = [file EXCEPT ![n] = NoFile]
    /\ lines' = lines \ Named[n]

\* Mutant of WriteCut: the line is registered before the file is written.
WriteCutLineFirst(n, c) ==
    /\ lines' = lines \cup {n}
    /\ file' \in {file, [file EXCEPT ![n] = Torn]}

\* The places where writing n can stop half way: before the file, in it, before
\* the manifest, or in the manifest, which is truncated to be written anew.
WriteCut(n, c) == \/ file' \in {file, [file EXCEPT ![n] = Torn]} /\ UNCHANGED lines
                  \/ /\ file' = [file EXCEPT ![n] = c]
                     /\ lines' \in IF Registered(n) THEN {lines} ELSE {lines, {}}

RemoveCut(n) == \/ UNCHANGED <<file, lines>>
                \/ file' = [file EXCEPT ![n] = NoFile] /\ lines' \in {lines, {}}

Materialize(r) ==
    /\ req[r].at = "files"
    /\ Writes(r)
    /\ Write(req[r].net, req[r].new)
    /\ hurt' = hurt \ {req[r].net}
    /\ goto(r, "commit")
    /\ UNCHANGED <<row, up, todo>>

Dematerialize(r) ==
    /\ req[r].at = "files"
    /\ ~Writes(r)
    /\ Remove(req[r].net)
    /\ hurt' = hurt \ {req[r].net}
    /\ goto(r, "commit")
    /\ UNCHANGED <<row, up, todo>>

Cut(r) == IF Writes(r) THEN WriteCut(req[r].net, req[r].new) ELSE RemoveCut(req[r].net)

\* The operating system refuses; the handler logs it and goes on to commit.
FilesRaise(r) ==
    /\ req[r].at = "files"
    /\ Cut(r)
    /\ hurt' = hurt \cup {req[r].net} \cup (lines \ lines')
    /\ goto(r, "commit")
    /\ UNCHANGED <<row, up, todo>>

\* get_db commits after the handler has returned.
Commit(r) ==
    /\ req[r].at = "commit"
    /\ row' = [row EXCEPT ![req[r].net] = CASE Writes(r) -> req[r].new
                                            [] req[r].op = "delete" -> Archived
                                            [] OTHER -> @]
    /\ finish(r)
    /\ UNCHANGED <<file, lines, up, todo, hurt>>

\* The commit fails: the row is as it was, the files are not.
CommitFails(r) ==
    /\ req[r].at = "commit"
    /\ hurt' = IF req[r].op = "redelete" THEN hurt ELSE hurt \cup {req[r].net}
    /\ finish(r)
    /\ UNCHANGED <<row, file, lines, up, todo>>

-----------------------------------------------------------------------------
(* Crash and startup.                                                      *)

\* The process dies, possibly in the middle of the file operations of a handler
\* or of startup.  The database rolls back what was not committed.
Crash ==
    /\ up # "down"
    /\ up' = "down"
    /\ req' = [r \in Requests |-> Idle]
    /\ todo' = {}
    /\ \/ UNCHANGED <<file, lines>>
       \/ \E r \in Requests : req[r].at = "files" /\ Cut(r)
       \/ \E n \in todo : WriteCut(n, row[n])
    /\ UNCHANGED <<row, hurt>>

Start ==
    /\ up = "down"
    /\ up' = "starting"
    /\ todo' = Active
    /\ UNCHANGED <<row, file, lines, req, hurt>>

\* startup_materialize writes one active network after the other.
MaterializeNext(n) ==
    /\ up = "starting"
    /\ n \in todo
    /\ Write(n, row[n])
    /\ todo' = todo \ {n}
    /\ hurt' = hurt \ {n}
    /\ UNCHANGED <<row, up, req>>

\* The query of the rows or the writing of a file raises: what has not been written
\* is skipped, the server starts anyway.
StartupRaises ==
    /\ up = "starting"
    /\ \E n \in todo : WriteCut(n, row[n])
    /\ hurt' = hurt \cup todo \cup (lines \ lines')
    /\ todo' = {}
    /\ UNCHANGED <<row, up, req>>

Serve ==
    /\ up = "starting"
    /\ todo = {}
    /\ up' = "up"
    /\ UNCHANGED <<row, file, lines, todo, req, hurt>>

-----------------------------------------------------------------------------
Next ==
    \/ \E r \in Requests, n \in Networks :
         \/ \E c \in Contents : Create(r, n, c) \/ Update(r, n, c)
         \/ Delete(r, n)
    \/ \E r \in Requests :
         \/ WriteRow(r) \/ Materialize(r) \/ Dematerialize(r) \/ FilesRaise(r)
         \/ Commit(r) \/ CommitFails(r)
    \/ Crash \/ Start \/ StartupRaises \/ Serve
    \/ \E n \in Networks : MaterializeNext(n)

Spec == Init /\ [][Next]_netVars

-----------------------------------------------------------------------------
\* No handler is between its file operations and the end of its transaction.
Quiet(n) == \A r \in Requests : ~(req[r].at = "commit" /\ req[r].net = n)

\* While the server is up and nothing is in flight for a network, what the agent
\* library can load is what the database says, whatever crashes came before, and
\* wherever they came: an active network is listed with its committed content, an
\* archived one is gone.  Networks whose files or commit failed are excepted
\* until they are written again, at the latest by a restart if they are active.
RegistryFollowsRows ==
    up = "up" => \A n \in Networks \ hurt : Quiet(n) =>
        /\ n \in Active => file[n] = row[n] /\ n \in lines
        /\ row[n] = Archived => file[n] = NoFile /\ n \notin lines

\* A line whose file is missing makes the manifest unreadable for everybody, and
\* so does one whose file is cut off.  No crash leaves the former behind, and the
\* latter only for a network that was never committed: the create of a slug died
\* after its files and the next create of that slug inside them.  Networks whose
\* file operation or commit failed, and those a restart skipped after a failure, are
\* excepted here as well, until their files are written again.
LineHasFile ==
    up = "up" => \A n \in lines \ hurt : /\ file[n] # NoFile
                                         /\ file[n] = Torn => row[n] = NoRow

-----------------------------------------------------------------------------
(* The inductive invariant behind the two.                                 *)

\* Handlers run while the server is up, startup writes active networks.
PhaseInv == /\ up # "up" => \A r \in Requests : req[r] = Idle
            /\ up # "starting" => todo = {}
            /\ todo \subseteq Active

\* What a handler knows of the row it is to write, or has written.
HandlerInv ==
    \A r \in Requests :
        /\ req[r].at = "row" => /\ req[r].op # "redelete"
                                /\ req[r].op = "delete" => row[req[r].net] # NoRow
        /\ req[r].at \in {"files", "commit"} =>
               /\ req[r].op = "create" => row[req[r].net] = NoRow
               /\ req[r].op \in {"update", "delete"} => req[r].net \in Active
               /\ req[r].op = "redelete" => row[req[r].net] = Archived

LockInv == \A q, r \in Requests : \A n \in Networks : Locks(q, n) /\ Locks(r, n) => q = r

\* File operations that went well are what the commit is going to say.
DoneInv ==
    \A r \in Requests : req[r].at = "commit" /\ req[r].net \notin hurt =>
        IF Writes(r) THEN file[req[r].net] = req[r].new
                     ELSE file[req[r].net] = NoFile /\ req[r].net \notin lines

\* Networks startup has written, or need not write.
Settled(n) == up # "down" /\ n \in Active \ todo /\ Quiet(n)

FileInv ==
    \A n \in Networks \ hurt :
        /\ row[n] = Archived => file[n] = NoFile /\ n \notin lines
        /\ Settled(n) => file[n] = row[n]

\* A line that startup will not repair has a readable file.
LineInv ==
    \A n \in lines \ hurt :
        file[n] = NoFile \/ (file[n] = Torn /\ row[n] # NoRow) =>
            n \in Active /\ (up = "down" \/ n \in todo)

NetInv == /\ TypeOK /\ PhaseInv /\ HandlerInv /\ LockInv
          /\ DoneInv /\ FileInv /\ LineInv

\* No name is a part of another network's line.
Separate == \A n \in Networks : Named[n] = {n}

\* With such names, what was written is listed.
ListedInv ==
    /\ \A n \in Networks \ hurt : Settled(n) => n \in lines
    /\ \A r \in Requests :
           req[r].at = "commit" /\ Writes(r) => req[r].net \in lines \cup hurt

-----------------------------------------------------------------------------
\* _unregister_from_manifest is to "remove a network entry from the generated
\* manifest" (network_materializer.py:136): one entry.  It removes every line the
\* network's key is a part of.
RemovesOwnEntry ==
    [][\A r \in Requests : Dematerialize(r) => lines \ lines' \subseteq {req[r].net}]_netVars
=============================================================================
