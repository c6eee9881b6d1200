---------------------- MODULE NetworkMaterializerProofs ----------------------
(***************************************************************************)
(* Proofs about NetworkMaterializer, for every set of networks, contents   *)
(* and handlers, wherever the crashes come.                                *)
(***************************************************************************)
EXTENDS NetworkMaterializer, TLAPS

\* The markers are no contents, and no two of them are the same.
LEMMA Markers ==
  /\ NoFile \notin Contents /\ Torn \notin Contents /\ NoFile # Torn
  /\ NoRow \notin Contents /\ Archived \notin Contents /\ NoRow # Archived
  /\ Named \in [Networks -> SUBSET Networks] /\ FileNamed \in [Networks -> SUBSET Networks]
  /\ \A n \in Networks : n \in FileNamed[n] /\ n \in Named[n] /\ FileNamed[n] \subseteq Named[n]
  BY MaterializerAssumption

-----------------------------------------------------------------------------
(* What handlers and file operations do.                                   *)

\* A handler that is not idle has an operation on a network.
LEMMA Busy ==
  ASSUME TypeOK, NEW r \in Requests, req[r].at # "idle"
  PROVE  /\ req[r] \in Work
         /\ req[r].at \in {"row", "files", "commit"}
         /\ req[r].op \in {"create", "update", "delete", "redelete"}
         /\ req[r].net \in Networks
         /\ req[r].new \in Contents
  <1>1. req[r] \in Work \cup {Idle}
    BY DEF TypeOK
  <1>2. req[r] # Idle
    BY DEF Idle
  <1>3. req[r] \in Work
    BY <1>1, <1>2
  <1> QED
    BY <1>3 DEF Work

\* The handler moves on; the others stay where they are.
LEMMA Goto ==
  ASSUME TypeOK, NEW r \in Requests, req[r].at # "idle",
         NEW place \in {"row", "files", "commit"}, goto(r, place)
  PROVE  /\ req' \in [Requests -> Work \cup {Idle}]
         /\ req'[r].at = place
         /\ req'[r].op = req[r].op /\ req'[r].net = req[r].net /\ req'[r].new = req[r].new
         /\ \A q \in Requests \ {r} : req'[q] = req[q]
  <1>1. req[r] \in Work
    BY Busy
  <1>2. [req[r] EXCEPT !.at = place] \in Work
    BY <1>1 DEF Work
  <1>3. req' = [req EXCEPT ![r] = [req[r] EXCEPT !.at = place]]
    BY DEF goto
  <1> QED
    BY <1>1, <1>2, <1>3 DEF TypeOK, Work

LEMMA Finish ==
  ASSUME TypeOK, NEW r \in Requests, finish(r)
  PROVE  /\ req' \in [Requests -> Work \cup {Idle}]
         /\ req'[r].at = "idle"
         /\ \A q \in Requests \ {r} : req'[q] = req[q]
  BY DEF TypeOK, finish, Idle

\* The file and the line of n are written; what else is listed stays listed.
LEMMA WriteEffect ==
  ASSUME TypeOK, NEW n \in Networks, NEW c \in Contents, Write(n, c)
  PROVE  /\ file' \in [Networks -> Contents \cup {NoFile, Torn}]
         /\ file'[n] = c
         /\ \A m \in Networks \ {n} : file'[m] = file[m]
         /\ lines \subseteq lines' /\ lines' \subseteq lines \cup {n}
         /\ Separate => n \in lines'
  BY Markers DEF TypeOK, Write, Registered, Separate

LEMMA RemoveEffect ==
  ASSUME TypeOK, NEW n \in Networks, Remove(n)
  PROVE  /\ file' \in [Networks -> Contents \cup {NoFile, Torn}]
         /\ file'[n] = NoFile
         /\ \A m \in Networks \ {n} : file'[m] = file[m]
         /\ lines' \subseteq lines /\ n \notin lines'
         /\ Separate => lines' = lines \ {n}
  BY Markers DEF TypeOK, Remove, Separate

\* Cut off, neither operation lists anything or touches another file.
LEMMA WriteCutEffect ==
  ASSUME TypeOK, NEW n \in Networks, NEW c \in Contents, WriteCut(n, c)
  PROVE  /\ file' \in [Networks -> Contents \cup {NoFile, Torn}]
         /\ file'[n] \in {file[n], Torn, c}
         /\ \A m \in Networks \ {n} : file'[m] = file[m]
         /\ lines' \subseteq lines
  BY DEF TypeOK, WriteCut

LEMMA RemoveCutEffect ==
  ASSUME TypeOK, NEW n \in Networks, RemoveCut(n)
  PROVE  /\ file' \in [Networks -> Contents \cup {NoFile, Torn}]
         /\ file'[n] \in {file[n], NoFile}
         /\ \A m \in Networks \ {n} : file'[m] = file[m]
         /\ lines' \subseteq lines
  BY DEF TypeOK, RemoveCut

\* The same for the operation of a handler.
LEMMA CutEffect ==
  ASSUME TypeOK, NEW r \in Requests, req[r].at = "files", Cut(r)
  PROVE  /\ file' \in [Networks -> Contents \cup {NoFile, Torn}]
         /\ \A m \in Networks \ {req[r].net} : file'[m] = file[m]
         /\ Writes(r) => file'[req[r].net] \in {file[req[r].net], Torn, req[r].new}
         /\ ~Writes(r) => file'[req[r].net] \in {file[req[r].net], NoFile}
         /\ lines' \subseteq lines
  <1>1. req[r].net \in Networks /\ req[r].new \in Contents
    BY Busy
  <1>2. CASE Writes(r)
    BY <1>1, <1>2, WriteCutEffect DEF Cut
  <1>3. CASE ~Writes(r)
    BY <1>1, <1>3, RemoveCutEffect DEF Cut
  <1> QED
    BY <1>2, <1>3

-----------------------------------------------------------------------------
(* The invariant, action by action.                                        *)

LEMMA InitInv == Init => NetInv /\ ListedInv
  <1> SUFFICES ASSUME Init PROVE NetInv /\ ListedInv
    OBVIOUS
  <1>1. Active = {}
    BY Markers DEF Init, Active
  <1>2. TypeOK
    BY DEF Init, TypeOK
  <1>3. PhaseInv /\ HandlerInv /\ LockInv /\ DoneInv
    BY <1>1 DEF Init, PhaseInv, HandlerInv, LockInv, DoneInv, Locks, Idle
  <1>4. FileInv /\ LineInv /\ ListedInv
    BY <1>1, Markers DEF Init, FileInv, LineInv, ListedInv, Settled, Idle
  <1> QED
    BY <1>2, <1>3, <1>4 DEF NetInv

\* A request arrives.
LEMMA BeginStep ==
  ASSUME NetInv, NEW r \in Requests, NEW n \in Networks, NEW c \in Contents,
         NEW what \in {"create", "update", "delete"}, Begin(r, what, n, c),
         what = "delete" => row[n] # NoRow
  PROVE  NetInv'
  <1>1. /\ req' \in [Requests -> Work \cup {Idle}]
        /\ req'[r].at = "row" /\ req'[r].op = what /\ req'[r].net = n
        /\ \A q \in Requests \ {r} : req'[q] = req[q]
    BY DEF Begin, NetInv, TypeOK, Work
  <1>2. UNCHANGED <<row, file, lines, up, todo, hurt>> /\ up = "up"
    BY DEF Begin
  <1>3. Active' = Active
    BY <1>2 DEF Active
  <1>4. \A q \in Requests : req'[q].at \in {"files", "commit"} => req'[q] = req[q]
    BY <1>1
  <1>5. req[r].at = "idle"
    BY DEF Begin, Idle
  <1>6. TypeOK' /\ PhaseInv'
    BY <1>1, <1>2, <1>3 DEF NetInv, TypeOK, PhaseInv
  <1>7. HandlerInv'
    BY <1>1, <1>2, <1>3 DEF NetInv, HandlerInv
  <1>8. LockInv'
    BY <1>4 DEF NetInv, LockInv, Locks
  <1>9. DoneInv'
    BY <1>2, <1>4 DEF NetInv, DoneInv, Writes
  <1>10. \A m \in Networks : Settled(m)' => Settled(m)
    BY <1>1, <1>2, <1>3, <1>5 DEF Settled, Quiet
  <1>11. FileInv' /\ LineInv'
    BY <1>2, <1>3, <1>10 DEF NetInv, FileInv, LineInv
  <1> QED
    BY <1>6, <1>7, <1>8, <1>9, <1>11 DEF NetInv

\* Only the holder of a row's lock, and handlers that found it archived, are at
\* work on a network.
LEMMA Holder ==
  ASSUME NetInv, NEW r \in Requests, req[r].at \in {"files", "commit"}
  PROVE  \A q \in Requests \ {r} :
           req[q].at \in {"files", "commit"} /\ req[q].net = req[r].net =>
               req[q].op = "redelete" /\ req[r].op = "redelete"
  <1> SUFFICES ASSUME NEW q \in Requests \ {r}, req[q].at \in {"files", "commit"},
                      req[q].net = req[r].net
               PROVE  req[q].op = "redelete" /\ req[r].op = "redelete"
    OBVIOUS
  <1>1. /\ req[r].net \in Networks
        /\ req[q].op \in {"create", "update", "delete", "redelete"}
        /\ req[r].op \in {"create", "update", "delete", "redelete"}
    BY Busy DEF NetInv
  <1>2. req[q].op = "redelete" \/ req[r].op = "redelete"
    BY <1>1 DEF NetInv, LockInv, Locks
  <1>3. req[q].op = "redelete" => row[req[r].net] = Archived
    BY DEF NetInv, HandlerInv
  <1>4. req[r].op = "redelete" => row[req[r].net] = Archived
    BY DEF NetInv, HandlerInv
  <1>5. req[r].op # "redelete" => row[req[r].net] # Archived
    BY <1>1, Markers DEF NetInv, HandlerInv, Active
  <1>6. req[q].op # "redelete" => row[req[r].net] # Archived
    BY <1>1, Markers DEF NetInv, HandlerInv, Active
  <1> QED
    BY <1>2, <1>3, <1>4, <1>5, <1>6

\* The statement that writes the row, in the transaction of the handler.
LEMMA WriteRowStep ==
  ASSUME NetInv, NEW r \in Requests, WriteRow(r)
  PROVE  NetInv'
  <1> DEFINE n == req[r].net
  <1>1. /\ req[r].at = "row" /\ n \in Networks
        /\ req[r].op \in {"create", "update", "delete"}
        /\ req[r] \in Work
    BY Busy DEF WriteRow, NetInv, HandlerInv
  <1>2. UNCHANGED <<row, file, lines, up, todo, hurt>> /\ Free(n)
    BY DEF WriteRow
  <1>3. Active' = Active
    BY <1>2 DEF Active
  <1>4. /\ req' \in [Requests -> Work \cup {Idle}]
        /\ req'[r].at \in {"files", "idle"}
        /\ \A q \in Requests \ {r} : req'[q] = req[q]
        /\ req'[r].at = "files" =>
              /\ req'[r].net = n
              /\ req'[r].op = "create" => row[n] = NoRow
              /\ req'[r].op \in {"update", "delete"} => n \in Active
              /\ req'[r].op = "redelete" => n \notin Active /\ row[n] # NoRow
    <2>1. CASE req[r].op = "create"
      <3>1. CASE row[n] = NoRow
        BY <1>1, <2>1, <3>1, Goto DEF WriteRow, NetInv
      <3>2. CASE row[n] # NoRow
        BY <1>1, <2>1, <3>2, Finish DEF WriteRow, NetInv
      <3> QED
        BY <3>1, <3>2
    <2>2. CASE req[r].op = "update"
      <3>1. CASE n \in Active
        BY <1>1, <2>2, <3>1, Goto DEF WriteRow, NetInv
      <3>2. CASE n \notin Active
        BY <1>1, <2>2, <3>2, Finish DEF WriteRow, NetInv
      <3> QED
        BY <3>1, <3>2
    <2>3. CASE req[r].op = "delete"
      <3> DEFINE new == [req[r] EXCEPT !.at = "files",
                                      !.op = IF n \in Active THEN "delete" ELSE "redelete"]
      <3>1. req' = [req EXCEPT ![r] = new]
        BY <2>3 DEF WriteRow
      <3>2. /\ new \in Work /\ new.at = "files" /\ new.net = n
            /\ new.op = IF n \in Active THEN "delete" ELSE "redelete"
        BY <1>1 DEF Work
      <3>3. row[n] # NoRow
        BY <1>1, <2>3 DEF NetInv, HandlerInv
      <3> HIDE DEF new
      <3> QED
        BY <3>1, <3>2, <3>3 DEF NetInv, TypeOK
    <2> QED
      BY <1>1, <2>1, <2>2, <2>3
  <1>5. TypeOK' /\ PhaseInv'
    <2>1. up = "up"
      BY <1>1 DEF NetInv, PhaseInv, Idle
    <2> QED
      BY <1>2, <1>3, <1>4, <2>1 DEF NetInv, TypeOK, PhaseInv
  <1>6. HandlerInv'
    <2>1. row[n] \in Contents \cup {NoRow, Archived}
      BY <1>1 DEF NetInv, TypeOK
    <2>2. n \notin Active /\ row[n] # NoRow => row[n] = Archived
      BY <1>1, <2>1 DEF Active
    <2> QED
      BY <1>2, <1>3, <1>4, <2>2 DEF NetInv, HandlerInv
  <1>7. LockInv'
    BY <1>2, <1>4 DEF NetInv, LockInv, Locks, Free
  <1>8. DoneInv'
    BY <1>2, <1>4 DEF NetInv, DoneInv, Writes
  <1>9. \A m \in Networks : Settled(m)' => Settled(m)
    BY <1>1, <1>2, <1>3, <1>4 DEF Settled, Quiet
  <1>10. FileInv' /\ LineInv'
    BY <1>2, <1>3, <1>9 DEF NetInv, FileInv, LineInv
  <1> QED
    BY <1>5, <1>6, <1>7, <1>8, <1>10 DEF NetInv


\* A handler that reaches its commit, whatever it did to its own network's files
\* and lines, and to other networks' lines only by removing them.
LEMMA ReachCommit ==
  ASSUME NetInv, NEW r \in Requests, req[r].at = "files", goto(r, "commit"),
         UNCHANGED <<row, up, todo>>,
         file' \in [Networks -> Contents \cup {NoFile, Torn}],
         \A m \in Networks \ {req[r].net} : file'[m] = file[m],
         lines' \subseteq lines \cup {req[r].net},
         hurt' \in SUBSET Networks,
         hurt \subseteq hurt' \cup {req[r].net},
         req[r].net \notin hurt' =>
             IF Writes(r) THEN file'[req[r].net] = req[r].new
                          ELSE file'[req[r].net] = NoFile /\ req[r].net \notin lines'
  PROVE  NetInv'
  <1> DEFINE n == req[r].net
  <1>1. /\ n \in Networks /\ req[r].new \in Contents
        /\ req[r].op \in {"create", "update", "delete", "redelete"}
    BY Busy DEF NetInv
  <1>2. /\ req' \in [Requests -> Work \cup {Idle}]
        /\ req'[r].at = "commit"
        /\ req'[r].op = req[r].op /\ req'[r].net = n /\ req'[r].new = req[r].new
        /\ \A q \in Requests \ {r} : req'[q] = req[q]
    BY Goto DEF NetInv
  <1>3. Active' = Active /\ up = "up" /\ todo = {}
    BY DEF Active, NetInv, PhaseInv, Idle
  <1>4. TypeOK' /\ PhaseInv'
    BY <1>1, <1>2, <1>3 DEF NetInv, TypeOK, PhaseInv
  <1>5. HandlerInv' /\ LockInv'
    BY <1>2, <1>3 DEF NetInv, HandlerInv, LockInv, Locks
  <1>6. DoneInv'
    <2> SUFFICES ASSUME NEW q \in Requests, req'[q].at = "commit", req'[q].net \notin hurt'
                 PROVE  IF Writes(q)' THEN file'[req'[q].net] = req'[q].new
                                      ELSE file'[req'[q].net] = NoFile /\ req'[q].net \notin lines'
      BY DEF DoneInv
    <2>1. CASE q = r
      BY <1>2, <2>1 DEF Writes
    <2>2. CASE q # r /\ req[q].net # n
      <3>1. req[q].net \in Networks
        BY <1>2, <2>2, Busy DEF NetInv
      <3> QED
        BY <1>2, <2>2, <3>1 DEF NetInv, DoneInv, Writes
    <2>3. CASE q # r /\ req[q].net = n
      <3>1. req[q].op = "redelete" /\ req[r].op = "redelete"
        BY <1>2, <2>3, Holder
      <3> QED
        BY <1>2, <2>3, <3>1 DEF Writes
    <2> QED
      BY <2>1, <2>2, <2>3
  <1>7. \A m \in Networks : Settled(m)' => Settled(m) /\ m # n
    BY <1>2, <1>3 DEF Settled, Quiet
  <1>8. FileInv'
    <2> SUFFICES ASSUME NEW m \in Networks \ hurt'
                 PROVE  /\ row[m] = Archived => file'[m] = NoFile /\ m \notin lines'
                        /\ Settled(m)' => file'[m] = row[m]
      BY DEF FileInv
    <2>1. CASE m = n
      <3>1. row[n] = Archived => ~Writes(r)
        BY <1>1, Markers DEF NetInv, HandlerInv, Writes, Active
      <3> QED
        BY <1>7, <2>1, <3>1
    <2>2. CASE m # n
      BY <1>7, <2>2 DEF NetInv, FileInv
    <2> QED
      BY <2>1, <2>2
  <1>9. LineInv'
    <2> SUFFICES ASSUME NEW m \in lines' \ hurt',
                        file'[m] = NoFile \/ (file'[m] = Torn /\ row[m] # NoRow)
                 PROVE  FALSE
      BY DEF LineInv
    <2>0. m \in Networks
      BY <1>4 DEF TypeOK
    <2>1. CASE m = n
      BY <1>1, <2>1, Markers
    <2>2. CASE m # n
      <3>1. m \in lines \ hurt /\ file'[m] = file[m]
        BY <2>0, <2>2
      <3> QED
        BY <1>3, <3>1 DEF NetInv, LineInv
    <2> QED
      BY <2>1, <2>2
  <1> QED
    BY <1>4, <1>5, <1>6, <1>8, <1>9 DEF NetInv

LEMMA FilesStep ==
  ASSUME NetInv, NEW r \in Requests, Materialize(r) \/ Dematerialize(r) \/ FilesRaise(r)
  PROVE  NetInv'
  <1>1. /\ req[r].at = "files" /\ goto(r, "commit") /\ UNCHANGED <<row, up, todo>>
        /\ hurt \in SUBSET Networks /\ lines \in SUBSET Networks /\ TypeOK
    BY DEF Materialize, Dematerialize, FilesRaise, NetInv, TypeOK
  <1>2. req[r].net \in Networks /\ req[r].new \in Contents
    BY <1>1, Busy
  <1>3. CASE Materialize(r)
    <2>1. Write(req[r].net, req[r].new) /\ Writes(r) /\ hurt' = hurt \ {req[r].net}
      BY <1>3 DEF Materialize
    <2>2. /\ file' \in [Networks -> Contents \cup {NoFile, Torn}]
          /\ file'[req[r].net] = req[r].new
          /\ \A m \in Networks \ {req[r].net} : file'[m] = file[m]
          /\ lines' \subseteq lines \cup {req[r].net}
      BY <1>1, <1>2, <2>1, WriteEffect
    <2> QED
      BY <1>1, <2>1, <2>2, ReachCommit
  <1>4. CASE Dematerialize(r)
    <2>1. Remove(req[r].net) /\ ~Writes(r) /\ hurt' = hurt \ {req[r].net}
      BY <1>4 DEF Dematerialize
    <2>2. /\ file' \in [Networks -> Contents \cup {NoFile, Torn}]
          /\ file'[req[r].net] = NoFile
          /\ \A m \in Networks \ {req[r].net} : file'[m] = file[m]
          /\ lines' \subseteq lines /\ req[r].net \notin lines'
      BY <1>1, <1>2, <2>1, RemoveEffect
    <2> QED
      BY <1>1, <2>1, <2>2, ReachCommit
  <1>5. CASE FilesRaise(r)
    <2>1. Cut(r) /\ hurt' = hurt \cup {req[r].net} \cup (lines \ lines')
      BY <1>5 DEF FilesRaise
    <2>2. /\ file' \in [Networks -> Contents \cup {NoFile, Torn}]
          /\ \A m \in Networks \ {req[r].net} : file'[m] = file[m]
          /\ lines' \subseteq lines
      BY <1>1, <2>1, CutEffect
    <2> QED
      BY <1>1, <1>2, <2>1, <2>2, ReachCommit
  <1> QED
    BY <1>3, <1>4, <1>5

\* The transaction ends, by a commit or without.
LEMMA CommitStep ==
  ASSUME NetInv, NEW r \in Requests, Commit(r) \/ CommitFails(r)
  PROVE  NetInv'
  <1> DEFINE n == req[r].net
  <1>1. /\ req[r].at = "commit" /\ n \in Networks /\ req[r].new \in Contents
        /\ req[r].op \in {"create", "update", "delete", "redelete"}
        /\ TypeOK
    BY Busy DEF Commit, CommitFails, NetInv
  <1>2. UNCHANGED <<file, lines, up, todo>>
    BY DEF Commit, CommitFails
  <1>3. /\ req' \in [Requests -> Work \cup {Idle}]
        /\ req'[r].at = "idle"
        /\ \A q \in Requests \ {r} : req'[q] = req[q]
    BY <1>1, Finish DEF Commit, CommitFails
  <1>4. up = "up" /\ todo = {}
    BY <1>1 DEF NetInv, PhaseInv, Idle
  <1>5. /\ row' \in [Networks -> Contents \cup {NoRow, Archived}]
        /\ \A m \in Networks \ {n} : row'[m] = row[m]
        /\ row'[n] \in {row[n], req[r].new, Archived}
        /\ row'[n] = req[r].new => Writes(r) \/ row'[n] = row[n]
        /\ row'[n] = Archived => ~Writes(r)
        /\ req[r].op = "redelete" => row'[n] = row[n]
        /\ row[n] # NoRow => row'[n] # NoRow
    <2>1. row[n] = Archived => ~Writes(r)
      BY <1>1, Markers DEF NetInv, HandlerInv, Writes, Active
    <2>2. CASE Commit(r)
      <3>1. CASE Writes(r)
        <4>1. row' = [row EXCEPT ![n] = req[r].new]
          BY <2>2, <3>1 DEF Commit, Writes
        <4> QED
          BY <1>1, <3>1, <4>1, Markers DEF TypeOK, Writes
      <3>2. CASE req[r].op = "delete"
        <4>1. ~Writes(r)
          BY <3>2 DEF Writes
        <4>2. row' = [row EXCEPT ![n] = Archived]
          BY <2>2, <3>2, <4>1 DEF Commit
        <4> QED
          BY <1>1, <3>2, <4>1, <4>2, Markers DEF TypeOK
      <3>3. CASE req[r].op = "redelete"
        <4>1. row' = [row EXCEPT ![n] = @]
          BY <2>2, <3>3 DEF Commit, Writes
        <4> QED
          BY <1>1, <2>1, <4>1 DEF TypeOK
      <3> QED
        BY <1>1, <3>1, <3>2, <3>3 DEF Writes
    <2>3. CASE CommitFails(r)
      BY <1>1, <2>1, <2>3 DEF CommitFails, TypeOK
    <2> QED
      BY <2>2, <2>3
  <1>6. /\ hurt' \in SUBSET Networks /\ hurt \subseteq hurt'
        /\ row'[n] = row[n] /\ n \notin hurt' => Commit(r) \/ req[r].op = "redelete"
    BY <1>1 DEF Commit, CommitFails, TypeOK
  <1>7. \A q \in Requests \ {r} : req[q].at \in {"files", "commit"} /\ req[q].net = n =>
                                    req[q].op = "redelete" /\ req[r].op = "redelete"
    BY <1>1, Holder
  <1>8. TypeOK' /\ PhaseInv'
    BY <1>1, <1>2, <1>3, <1>4, <1>5, <1>6 DEF NetInv, TypeOK, PhaseInv
  <1>9. HandlerInv'
    <2> SUFFICES ASSUME NEW q \in Requests \ {r}
                 PROVE  /\ req[q].at = "row" => /\ req[q].op # "redelete"
                                                /\ req[q].op = "delete" => row'[req[q].net] # NoRow
                        /\ req[q].at \in {"files", "commit"} =>
                               /\ req[q].op = "create" => row'[req[q].net] = NoRow
                               /\ req[q].op \in {"update", "delete"} => req[q].net \in Active'
                               /\ req[q].op = "redelete" => row'[req[q].net] = Archived
      BY <1>3 DEF HandlerInv
    <2>0. req[q].at # "idle" => req[q].net \in Networks
      BY <1>1, Busy
    <2>1. CASE req[q].net # n
      BY <1>5, <2>0, <2>1 DEF NetInv, HandlerInv, Active
    <2>2. CASE req[q].net = n
      BY <1>1, <1>5, <1>7, <2>0, <2>2 DEF NetInv, HandlerInv
    <2> QED
      BY <2>1, <2>2
  <1>10. LockInv'
    BY <1>3 DEF NetInv, LockInv, Locks
  <1>11. DoneInv'
    BY <1>2, <1>3, <1>6 DEF NetInv, DoneInv, Writes
  <1>12. FileInv'
    <2> SUFFICES ASSUME NEW m \in Networks \ hurt'
                 PROVE  /\ row'[m] = Archived => file[m] = NoFile /\ m \notin lines
                        /\ Settled(m)' => file[m] = row'[m]
      BY <1>2 DEF FileInv
    <2>1. CASE m # n
      <3>1. Settled(m)' => Settled(m)
        BY <1>1, <1>2, <1>3, <1>5, <2>1 DEF Settled, Quiet, Active
      <3> QED
        BY <1>5, <1>6, <2>1, <3>1 DEF NetInv, FileInv
    <2>2. CASE m = n
      <3>1. n \notin hurt
        BY <1>6, <2>2
      <3>2. IF Writes(r) THEN file[n] = req[r].new ELSE file[n] = NoFile /\ n \notin lines
        BY <1>1, <3>1 DEF NetInv, DoneInv
      <3>3. CASE Writes(r)
        <4>1. Commit(r)
          BY <1>1, <2>2, <3>3 DEF Commit, CommitFails, Writes
        <4>2. row'[n] = req[r].new
          BY <1>1, <3>3, <4>1 DEF Commit, TypeOK, Writes
        <4> QED
          BY <1>1, <2>2, <3>2, <3>3, <4>2, Markers
      <3>4. CASE ~Writes(r)
        <4>1. req[r].op \in {"delete", "redelete"}
          BY <1>1, <3>4 DEF Writes
        <4>2. row'[n] = Archived
          <5>1. CASE req[r].op = "redelete"
            BY <1>1, <1>5, <5>1 DEF NetInv, HandlerInv
          <5>2. CASE req[r].op = "delete"
            <6>1. Commit(r)
              BY <1>1, <2>2, <5>2 DEF CommitFails
            <6> QED
              BY <1>1, <3>4, <5>2, <6>1 DEF Commit, TypeOK
          <5> QED
            BY <4>1, <5>1, <5>2
        <4>3. ~Settled(m)'
          BY <2>2, <4>2, Markers DEF Settled, Active
        <4> QED
          BY <2>2, <3>2, <3>4, <4>3
      <3> QED
        BY <3>3, <3>4
    <2> QED
      BY <2>1, <2>2
  <1>13. LineInv'
    <2> SUFFICES ASSUME NEW m \in lines \ hurt',
                        file[m] = NoFile \/ (file[m] = Torn /\ row'[m] # NoRow)
                 PROVE  FALSE
      BY <1>2 DEF LineInv
    <2>0. m \in Networks /\ m \in lines \ hurt
      BY <1>1, <1>6 DEF TypeOK
    <2>1. CASE m # n
      BY <1>4, <1>5, <2>0, <2>1 DEF NetInv, LineInv
    <2>2. CASE m = n
      BY <1>1, <2>0, <2>2, Markers DEF NetInv, DoneInv
    <2> QED
      BY <2>1, <2>2
  <1> QED
    BY <1>8, <1>9, <1>10, <1>11, <1>12, <1>13 DEF NetInv


\* What the crash of a handler or of startup leaves is for startup to repair, or
\* belongs to a network without a row.
LEMMA CrashLeaves ==
  ASSUME NetInv, Crash
  PROVE  /\ file' \in [Networks -> Contents \cup {NoFile, Torn}]
         /\ lines' \subseteq lines
         /\ \A n \in Networks \ hurt : row[n] = Archived => file'[n] = NoFile
         /\ \A n \in lines' \ hurt :
                file'[n] = NoFile \/ (file'[n] = Torn /\ row[n] # NoRow) => n \in Active
  <1>0. TypeOK /\ FileInv /\ LineInv /\ HandlerInv /\ todo \subseteq Active
    BY DEF NetInv, PhaseInv
  <1>1. CASE UNCHANGED <<file, lines>>
    BY <1>0, <1>1 DEF TypeOK, FileInv, LineInv
  <1>2. ASSUME NEW r \in Requests, req[r].at = "files", Cut(r)
        PROVE  /\ file' \in [Networks -> Contents \cup {NoFile, Torn}]
               /\ lines' \subseteq lines
               /\ \A n \in Networks \ hurt : row[n] = Archived => file'[n] = NoFile
               /\ \A n \in lines' \ hurt :
                      file'[n] = NoFile \/ (file'[n] = Torn /\ row[n] # NoRow) => n \in Active
    <2> DEFINE p == req[r].net
    <2>1. /\ p \in Networks /\ req[r].new \in Contents
          /\ req[r].op \in {"create", "update", "delete", "redelete"}
      BY <1>0, <1>2, Busy
    <2>2. /\ file' \in [Networks -> Contents \cup {NoFile, Torn}]
          /\ \A m \in Networks \ {p} : file'[m] = file[m]
          /\ Writes(r) => file'[p] \in {file[p], Torn, req[r].new}
          /\ ~Writes(r) => file'[p] \in {file[p], NoFile}
          /\ lines' \subseteq lines
      BY <1>0, <1>2, CutEffect
    <2>3. /\ req[r].op = "create" => row[p] = NoRow
          /\ req[r].op \in {"update", "delete"} => p \in Active
          /\ req[r].op = "redelete" => row[p] = Archived
      BY <1>0, <1>2 DEF HandlerInv
    <2>4. row[p] = Archived => ~Writes(r)
      BY <2>1, <2>3, Markers DEF Writes, Active
    <2>5. p \notin hurt /\ row[p] = Archived => file'[p] = NoFile /\ p \notin lines
      BY <1>0, <2>1, <2>2, <2>4 DEF FileInv
    <2>6. p \notin hurt /\ p \in lines'
          /\ (file'[p] = NoFile \/ (file'[p] = Torn /\ row[p] # NoRow)) => p \in Active
      <3>1. CASE file'[p] = file[p]
        BY <1>0, <2>2, <3>1 DEF LineInv
      <3>2. CASE file'[p] # file[p]
        BY <2>1, <2>2, <2>3, <2>5, <3>2, Markers DEF Writes
      <3> QED
        BY <3>1, <3>2
    <2> HIDE DEF p
    <2>7. \A n \in Networks \ hurt : row[n] = Archived => file'[n] = NoFile
      BY <1>0, <2>2, <2>5 DEF FileInv
    <2>8. \A n \in lines' \ hurt :
              file'[n] = NoFile \/ (file'[n] = Torn /\ row[n] # NoRow) => n \in Active
      BY <1>0, <2>2, <2>6 DEF LineInv, TypeOK
    <2> QED
      BY <2>2, <2>7, <2>8
  <1>3. ASSUME NEW n \in todo, WriteCut(n, row[n])
        PROVE  /\ file' \in [Networks -> Contents \cup {NoFile, Torn}]
               /\ lines' \subseteq lines
               /\ \A m \in Networks \ hurt : row[m] = Archived => file'[m] = NoFile
               /\ \A m \in lines' \ hurt :
                      file'[m] = NoFile \/ (file'[m] = Torn /\ row[m] # NoRow) => m \in Active
    <2>1. n \in Networks /\ row[n] \in Contents /\ n \in Active
      BY <1>0 DEF Active
    <2>2. /\ file' \in [Networks -> Contents \cup {NoFile, Torn}]
          /\ \A m \in Networks \ {n} : file'[m] = file[m]
          /\ lines' \subseteq lines
      BY <1>0, <1>3, <2>1, WriteCutEffect
    <2>3. \A m \in Networks \ hurt : row[m] = Archived => file'[m] = NoFile
      BY <1>0, <2>1, <2>2, Markers DEF FileInv
    <2>4. \A m \in lines' \ hurt :
              file'[m] = NoFile \/ (file'[m] = Torn /\ row[m] # NoRow) => m \in Active
      BY <1>0, <2>1, <2>2 DEF LineInv, TypeOK
    <2> QED
      BY <2>2, <2>3, <2>4
  <1> QED
    BY <1>1, <1>2, <1>3 DEF Crash

\* While no handler is at work, the parts of the invariant about handlers hold.
LEMMA NoHandlers ==
  ASSUME NetInv, \A r \in Requests : req'[r] = Idle,
         req' \in [Requests -> Work \cup {Idle}]
  PROVE  HandlerInv' /\ LockInv' /\ DoneInv'
  BY DEF HandlerInv, LockInv, DoneInv, Locks, Idle

LEMMA CrashStep ==
  ASSUME NetInv, Crash
  PROVE  NetInv'
  <1>1. /\ up' = "down" /\ todo' = {} /\ UNCHANGED <<row, hurt>>
        /\ req' \in [Requests -> Work \cup {Idle}]
        /\ \A r \in Requests : req'[r] = Idle
    BY DEF Crash
  <1>2. Active' = Active
    BY <1>1 DEF Active
  <1>3. TypeOK' /\ PhaseInv'
    BY <1>1, CrashLeaves DEF NetInv, TypeOK, PhaseInv
  <1>4. FileInv'
    BY <1>1, CrashLeaves DEF NetInv, FileInv, Settled
  <1>5. LineInv'
    BY <1>1, <1>2, CrashLeaves DEF LineInv
  <1> QED
    BY <1>1, <1>3, <1>4, <1>5, NoHandlers DEF NetInv

LEMMA StartStep ==
  ASSUME NetInv, Start \/ Serve
  PROVE  NetInv'
  <1>1. /\ UNCHANGED <<row, file, lines, req, hurt>> /\ up # "up"
        /\ up = "down" => todo' = Active /\ up' = "starting"
        /\ up = "starting" => todo' = {} /\ todo = {} /\ up' = "up"
        /\ up \in {"down", "starting"}
    BY DEF Start, Serve, NetInv
  <1>2. Active' = Active
    BY <1>1 DEF Active
  <1>3. TypeOK' /\ PhaseInv'
    BY <1>1, <1>2 DEF NetInv, TypeOK, PhaseInv, Active
  <1>4. FileInv' /\ LineInv'
    BY <1>1, <1>2 DEF NetInv, FileInv, LineInv, Settled, Quiet
  <1>5. \A r \in Requests : req'[r] = Idle
    BY <1>1 DEF NetInv, PhaseInv
  <1> QED
    BY <1>3, <1>4, <1>5, NoHandlers DEF NetInv, TypeOK

LEMMA MaterializeNextStep ==
  ASSUME NetInv, NEW n \in Networks, MaterializeNext(n)
  PROVE  NetInv'
  <1>1. /\ UNCHANGED <<row, up, req>> /\ up = "starting" /\ n \in todo
        /\ todo' = todo \ {n} /\ hurt' = hurt \ {n} /\ Write(n, row[n])
    BY DEF MaterializeNext
  <1>2. TypeOK /\ n \in Active /\ row[n] \in Contents
    BY <1>1 DEF NetInv, PhaseInv, Active
  <1>3. /\ file' \in [Networks -> Contents \cup {NoFile, Torn}]
        /\ file'[n] = row[n]
        /\ \A m \in Networks \ {n} : file'[m] = file[m]
        /\ lines' \subseteq lines \cup {n}
    BY <1>1, <1>2, WriteEffect
  <1>4. Active' = Active
    BY <1>1 DEF Active
  <1>5. \A r \in Requests : req'[r] = Idle
    BY <1>1 DEF NetInv, PhaseInv
  <1>6. TypeOK' /\ PhaseInv'
    BY <1>1, <1>2, <1>3, <1>4, <1>5 DEF NetInv, TypeOK, PhaseInv
  <1>7. FileInv'
    BY <1>1, <1>2, <1>3, <1>4, Markers DEF NetInv, FileInv, Settled, Quiet
  <1>8. LineInv'
    BY <1>1, <1>2, <1>3, <1>4, <1>6, Markers DEF NetInv, LineInv, TypeOK
  <1> QED
    BY <1>5, <1>6, <1>7, <1>8, NoHandlers DEF NetInv, TypeOK

LEMMA StartupRaisesStep ==
  ASSUME NetInv, StartupRaises
  PROVE  NetInv'
  <1>1. /\ UNCHANGED <<row, up, req>> /\ up = "starting"
        /\ hurt' = hurt \cup todo \cup (lines \ lines') /\ todo' = {}
    BY DEF StartupRaises
  <1>2. PICK n \in todo : WriteCut(n, row[n])
    BY DEF StartupRaises
  <1>3. TypeOK /\ todo \subseteq Active /\ n \in Active /\ n \in Networks /\ row[n] \in Contents
    BY DEF NetInv, PhaseInv, Active
  <1>4. /\ file' \in [Networks -> Contents \cup {NoFile, Torn}]
        /\ \A m \in Networks \ {n} : file'[m] = file[m]
        /\ lines' \subseteq lines
    BY <1>2, <1>3, WriteCutEffect
  <1>5. Active' = Active
    BY <1>1 DEF Active
  <1>6. \A r \in Requests : req'[r] = Idle
    BY <1>1 DEF NetInv, PhaseInv
  <1>7. TypeOK' /\ PhaseInv'
    BY <1>1, <1>3, <1>4, <1>6 DEF NetInv, TypeOK, PhaseInv
  <1>8. FileInv'
    BY <1>1, <1>3, <1>4, <1>5 DEF NetInv, FileInv, Settled, Quiet
  <1>9. LineInv'
    BY <1>1, <1>3, <1>4, <1>5 DEF NetInv, LineInv, TypeOK
  <1> QED
    BY <1>6, <1>7, <1>8, <1>9, NoHandlers DEF NetInv, TypeOK

\* Every step.
LEMMA InvStep == NetInv /\ [Next]_netVars => NetInv'
  <1> SUFFICES ASSUME NetInv, [Next]_netVars PROVE NetInv'
    OBVIOUS
  <1>1. ASSUME NEW r \in Requests, NEW n \in Networks, NEW c \in Contents,
               Create(r, n, c) \/ Update(r, n, c)
        PROVE  NetInv'
    BY <1>1, BeginStep DEF Create, Update
  <1>2. ASSUME NEW r \in Requests, NEW n \in Networks, Delete(r, n) PROVE NetInv'
    <2>1. row[n] # NoRow
      BY <1>2, Markers DEF Delete, Active
    <2> QED
      BY <1>2, <2>1, BeginStep DEF Delete
  <1>3. CASE UNCHANGED netVars
    BY <1>3 DEF netVars, NetInv, TypeOK, PhaseInv, HandlerInv, LockInv, DoneInv, FileInv, LineInv,
                Locks, Writes, Settled, Quiet, Active
  <1> QED
    BY <1>1, <1>2, <1>3, WriteRowStep, FilesStep, CommitStep, CrashStep, StartStep,
       MaterializeNextStep, StartupRaisesStep DEF Next

\* The conjunction that every step preserves.
THEOREM Invariant == Spec => []NetInv
  <1>1. Init => NetInv
    BY InitInv
  <1> QED
    BY <1>1, InvStep, PTL DEF Spec

\* Type correctness of rows, files, lines and handlers.
THEOREM TypeCorrect == Spec => []TypeOK
  <1>1. NetInv => TypeOK
    BY DEF NetInv
  <1> QED
    BY Invariant, <1>1, PTL

\* Whatever the names are and wherever the process dies, no line of the manifest
\* is left without its file while the server is up, and a file that is cut off
\* is one of a network that was never committed.  Nothing is said of networks whose
\* file operation or commit has failed since their files were last written.
THEOREM LinesHaveFiles == Spec => []LineHasFile
  <1>1. NetInv => LineHasFile
    BY DEF NetInv, PhaseInv, LineInv, LineHasFile
  <1> QED
    BY Invariant, <1>1, PTL


-----------------------------------------------------------------------------
(* Names that are not part of another's line.                              *)

\* Handlers that have not reached their commit, or leave it, list nothing and
\* strike nothing off.
LEMMA ListedKept ==
  ASSUME ListedInv, UNCHANGED <<lines, hurt>>,
         \A m \in Networks \ hurt : Settled(m)' => Settled(m) \/ m \in lines,
         \A q \in Requests : req'[q].at = "commit" => req'[q] = req[q]
  PROVE  ListedInv'
  BY DEF ListedInv, Writes

LEMMA ListedBegin ==
  ASSUME NetInv, ListedInv, NEW r \in Requests, NEW n \in Networks, NEW c \in Contents,
         NEW what \in {"create", "update", "delete"}, Begin(r, what, n, c)
  PROVE  ListedInv'
  <1>1. /\ req'[r].at = "row"
        /\ \A q \in Requests \ {r} : req'[q] = req[q]
        /\ req[r].at = "idle"
    BY DEF Begin, NetInv, TypeOK, Idle
  <1>2. UNCHANGED <<row, file, lines, up, todo, hurt>>
    BY DEF Begin
  <1>3. \A m \in Networks : Settled(m)' => Settled(m)
    BY <1>1, <1>2 DEF Settled, Quiet, Active
  <1>4. \A q \in Requests : req'[q].at = "commit" => req'[q] = req[q]
    BY <1>1
  <1> QED
    BY <1>2, <1>3, <1>4, ListedKept

LEMMA ListedWriteRow ==
  ASSUME NetInv, ListedInv, NEW r \in Requests, WriteRow(r)
  PROVE  ListedInv'
  <1>1. req[r].at = "row" /\ TypeOK
    BY DEF WriteRow, NetInv
  <1>2. /\ req'[r].at \in {"files", "idle"}
        /\ \A q \in Requests \ {r} : req'[q] = req[q]
    <2>1. req[r].op \in {"create", "update", "delete"} /\ req[r] \in Work
      BY <1>1, Busy DEF NetInv, HandlerInv
    <2>2. CASE req[r].op \in {"create", "update"}
      <3>1. goto(r, "files") \/ finish(r)
        BY <2>2 DEF WriteRow
      <3> QED
        BY <1>1, <3>1, Goto, Finish
    <2>3. CASE req[r].op = "delete"
      <3>1. PICK what \in {"delete", "redelete"} :
               req' = [req EXCEPT ![r] = [req[r] EXCEPT !.at = "files", !.op = what]]
        BY <2>3 DEF WriteRow
      <3>2. [req[r] EXCEPT !.at = "files", !.op = what].at = "files"
        BY <2>1 DEF Work
      <3> QED
        BY <1>1, <3>1, <3>2 DEF TypeOK
    <2> QED
      BY <2>1, <2>2, <2>3
  <1>3. UNCHANGED <<row, file, lines, up, todo, hurt>>
    BY DEF WriteRow
  <1>4. \A m \in Networks : Settled(m)' => Settled(m)
    BY <1>1, <1>2, <1>3 DEF Settled, Quiet, Active
  <1>5. \A q \in Requests : req'[q].at = "commit" => req'[q] = req[q]
    BY <1>2
  <1> QED
    BY <1>3, <1>4, <1>5, ListedKept

LEMMA ListedFiles ==
  ASSUME Separate, NetInv, ListedInv, NEW r \in Requests,
         Materialize(r) \/ Dematerialize(r) \/ FilesRaise(r)
  PROVE  ListedInv'
  <1> DEFINE n == req[r].net
  <1>1. /\ req[r].at = "files" /\ goto(r, "commit") /\ UNCHANGED <<row, up, todo>>
        /\ TypeOK
    BY DEF Materialize, Dematerialize, FilesRaise, NetInv
  <1>2. n \in Networks /\ req[r].new \in Contents
    BY <1>1, Busy
  <1>3. /\ req'[r].at = "commit" /\ req'[r].op = req[r].op /\ req'[r].net = n
        /\ \A q \in Requests \ {r} : req'[q] = req[q]
    BY <1>1, Goto
  <1>4. \A m \in Networks : Settled(m)' => Settled(m) /\ m # n
    BY <1>1, <1>3 DEF Settled, Quiet, Active
  <1>5. \A q \in Requests \ {r} : req[q].at = "commit" /\ Writes(q) => req[q].net # n
    BY <1>1, Holder DEF Writes
  <1>6. /\ lines \ lines' \subseteq hurt' \cup {n}
        /\ hurt \subseteq hurt' \cup {n}
        /\ Writes(r) => n \in lines' \cup hurt'
    <2>1. CASE Materialize(r)
      BY <1>1, <1>2, <2>1, WriteEffect DEF Materialize
    <2>2. CASE Dematerialize(r)
      BY <1>1, <1>2, <2>2, RemoveEffect DEF Dematerialize
    <2>3. CASE FilesRaise(r)
      BY <2>3 DEF FilesRaise
    <2> QED
      BY <2>1, <2>2, <2>3
  <1>7. \A m \in Networks \ hurt' : Settled(m)' => m \in lines'
    BY <1>4, <1>6 DEF ListedInv
  <1>8. ASSUME NEW q \in Requests, req'[q].at = "commit", Writes(q)'
        PROVE  req'[q].net \in lines' \cup hurt'
    <2>1. CASE q = r
      BY <1>3, <1>6, <1>8, <2>1 DEF Writes
    <2>2. CASE q # r
      <3>1. req[q].net \in lines \cup hurt /\ req[q].net # n
        BY <1>3, <1>5, <1>8, <2>2 DEF ListedInv, Writes
      <3> QED
        BY <1>3, <1>6, <2>2, <3>1
    <2> QED
      BY <2>1, <2>2
  <1> QED
    BY <1>7, <1>8 DEF ListedInv

LEMMA ListedCommit ==
  ASSUME NetInv, ListedInv, NEW r \in Requests, Commit(r) \/ CommitFails(r)
  PROVE  ListedInv'
  <1> DEFINE n == req[r].net
  <1>1. /\ req[r].at = "commit" /\ UNCHANGED <<file, lines, up, todo>> /\ finish(r)
        /\ hurt \subseteq hurt' /\ TypeOK
    BY DEF Commit, CommitFails, NetInv
  <1>2. n \in Networks /\ req[r].op \in {"create", "update", "delete", "redelete"}
    BY <1>1, Busy
  <1>3. req'[r].at = "idle" /\ \A q \in Requests \ {r} : req'[q] = req[q]
    BY <1>1, Finish
  <1>4. \A m \in Networks \ {n} : row'[m] = row[m]
    BY <1>1, <1>2 DEF Commit, CommitFails, TypeOK
  <1>5. ASSUME NEW m \in Networks \ hurt', Settled(m)' PROVE m \in lines'
    <2>1. CASE m # n
      <3>1. Settled(m)
        BY <1>1, <1>3, <1>4, <1>5, <2>1 DEF Settled, Quiet, Active
      <3> QED
        BY <1>1, <1>5, <3>1 DEF ListedInv
    <2>2. CASE m = n /\ Writes(r)
      BY <1>1, <1>5, <2>2 DEF ListedInv
    <2>3. CASE m = n /\ ~Writes(r)
      <3>1. row'[n] \in Contents
        BY <1>5, <2>3 DEF Settled, Active
      <3>2. req[r].op = "redelete" => row[n] = Archived
        BY <1>1 DEF NetInv, HandlerInv
      <3>3. CASE Commit(r)
        BY <1>1, <1>2, <2>3, <3>1, <3>2, <3>3, Markers DEF Commit, TypeOK, Writes
      <3>4. CASE CommitFails(r)
        BY <1>2, <1>5, <2>3, <3>1, <3>2, <3>4, Markers DEF CommitFails, Writes
      <3> QED
        BY <3>3, <3>4
    <2> QED
      BY <2>1, <2>2, <2>3
  <1>6. ASSUME NEW q \in Requests, req'[q].at = "commit", Writes(q)'
        PROVE  req'[q].net \in lines' \cup hurt'
    BY <1>1, <1>3, <1>6 DEF ListedInv, Writes
  <1> QED
    BY <1>5, <1>6 DEF ListedInv

LEMMA ListedServer ==
  ASSUME Separate, NetInv, ListedInv,
         \/ Crash \/ Start \/ Serve \/ StartupRaises
         \/ \E n \in Networks : MaterializeNext(n)
  PROVE  ListedInv'
  <1>1. \A q \in Requests : req'[q].at = "idle"
    BY DEF Crash, Start, Serve, StartupRaises, MaterializeNext, NetInv, PhaseInv, Idle
  <1>2. ASSUME NEW m \in Networks \ hurt', Settled(m)' PROVE m \in lines'
    <2>1. CASE Crash
      BY <1>2, <2>1 DEF Crash, Settled
    <2>2. CASE Start \/ Serve
      BY <1>2, <2>2 DEF Start, Serve, Settled, Quiet, Active, ListedInv
    <2>3. CASE StartupRaises
      <3>1. Settled(m) /\ m \notin hurt
        BY <1>2, <2>3 DEF StartupRaises, Settled, Quiet, Active
      <3> QED
        BY <1>2, <2>3, <3>1 DEF StartupRaises, ListedInv
    <2>4. ASSUME NEW n \in Networks, MaterializeNext(n) PROVE m \in lines'
      <3>1. /\ UNCHANGED <<row, up, req>> /\ up = "starting" /\ n \in todo
            /\ todo' = todo \ {n} /\ hurt' = hurt \ {n} /\ Write(n, row[n])
        BY <2>4 DEF MaterializeNext
      <3>2. TypeOK /\ row[n] \in Contents
        BY <3>1 DEF NetInv, PhaseInv, Active
      <3>3. n \in lines' /\ lines \subseteq lines'
        BY <3>1, <3>2, WriteEffect
      <3>4. m # n => Settled(m) /\ m \notin hurt
        BY <1>2, <3>1 DEF Settled, Quiet, Active
      <3> QED
        BY <3>3, <3>4 DEF ListedInv
    <2> QED
      BY <2>1, <2>2, <2>3, <2>4
  <1> QED
    BY <1>1, <1>2 DEF ListedInv

LEMMA ListedStep == Separate /\ NetInv /\ ListedInv /\ [Next]_netVars => ListedInv'
  <1> SUFFICES ASSUME Separate, NetInv, ListedInv, [Next]_netVars PROVE ListedInv'
    OBVIOUS
  <1>1. ASSUME NEW r \in Requests, NEW n \in Networks, NEW c \in Contents,
               Create(r, n, c) \/ Update(r, n, c)
        PROVE  ListedInv'
    BY <1>1, ListedBegin DEF Create, Update
  <1>2. ASSUME NEW r \in Requests, NEW n \in Networks, Delete(r, n) PROVE ListedInv'
    BY <1>2, ListedBegin DEF Delete
  <1>3. CASE UNCHANGED netVars
    BY <1>3 DEF netVars, ListedInv, Writes, Settled, Quiet, Active
  <1> QED
    BY <1>1, <1>2, <1>3, ListedWriteRow, ListedFiles, ListedCommit, ListedServer DEF Next

\* If no network's name is a part of another's manifest line, the agent library
\* loads what the database says, after any history of requests, crashes and
\* restarts.
THEOREM RegistryCorrect ==
  ASSUME Separate
  PROVE  Spec => []RegistryFollowsRows
  <1>1. NetInv /\ ListedInv => RegistryFollowsRows
    BY DEF NetInv, PhaseInv, FileInv, ListedInv, Settled, RegistryFollowsRows
  <1>2. Init => NetInv /\ ListedInv
    BY InitInv
  <1>3. NetInv /\ ListedInv /\ [Next]_netVars => (NetInv /\ ListedInv)'
    BY InvStep, ListedStep
  <1> QED
    BY <1>1, <1>2, <1>3, PTL DEF Spec

=============================================================================
