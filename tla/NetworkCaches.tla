---------------------------- MODULE NetworkCaches ----------------------------
(***************************************************************************)
(* The lazily filled caches of session_manager.py (_systems_cache,         *)
(* _factory_cache, _direct_factory_cache), each with its own lock, and     *)
(* invalidate_caches of network_materializer.py, which empties them        *)
(* without taking any lock.  The three getters have the same shape and     *)
(* invalidate_caches treats the caches alike: the module is one of them.   *)
(*                                                                         *)
(* Getters run in threads (the warm-up, eager init, chats, connectivity),  *)
(* and one at a time on the event loop itself, which then serves no route. *)
(***************************************************************************)
EXTENDS Naturals

CONSTANTS Readers,     \* threads that use the getter
          Loop,        \* the reader that is the event loop
          NoReader,    \* the lock is free
          NotCached,   \* the cache is None
          Failed,      \* the getter's failure: an empty list or an exception
          MaxVersion   \* bound: changes of the networks on disk

ASSUME CachesAssumption == /\ Loop \in Readers
                           /\ NoReader \notin Readers
                           /\ MaxVersion \in Nat
                           /\ NotCached \notin Nat /\ Failed \notin Nat
                           /\ NotCached # Failed

VARIABLES
    disk,          \* version of the manifest and the network files
    unsettled,     \* routes between their write to disk and their invalidation
    cache,         \* version the cached object was built from, or NotCached
    lock,          \* holder of the cache's lock
    pc,            \* where each reader is in the getter
    parsed,        \* version a reader's build has read, 0 without a build
    got,           \* what a reader's last call returned
    stores,        \* history: builds stored since the caches were last emptied
    wiped,         \* history: version on disk when they were last emptied
    raced,         \* history: a build was under way at that moment
    emptied        \* history: the caches were emptied since a reader's call began

history == <<stores, wiped, raced, emptied>>
cacheVars == <<disk, unsettled, cache, lock, pc, parsed, got, history>>

Versions == 0 .. MaxVersion

Inside(r) == pc[r] \in {"recheck", "build", "leave"}

TypeOK ==
    /\ disk \in Versions
    /\ unsettled \in Nat
    /\ cache \in Versions \cup {NotCached}
    /\ lock \in Readers \cup {NoReader}
    /\ pc \in [Readers -> {"idle", "look", "lock", "recheck", "build", "leave", "return"}]
    /\ parsed \in [Readers -> Versions]
    /\ got \in [Readers -> Versions \cup {NotCached, Failed}]
    /\ stores \in Nat
    /\ wiped \in Versions
    /\ raced \in BOOLEAN
    /\ emptied \in [Readers -> BOOLEAN]

Init ==
    /\ disk = 0
    /\ unsettled = 0
    /\ cache = NotCached
    /\ lock = NoReader
    /\ pc = [r \in Readers |-> "idle"]
    /\ parsed = [r \in Readers |-> 0]
    /\ got = [r \in Readers |-> Failed]
    /\ stores = 0 /\ wiped = 0 /\ raced = FALSE
    /\ emptied = [r \in Readers |-> FALSE]

-----------------------------------------------------------------------------
(* The routes of network_routes.py, on the event loop.                     *)

\* create and update: the file and the manifest are written; the handler then
\* awaits set_materialized.
Materialize ==
    /\ pc[Loop] = "idle"
    /\ disk < MaxVersion
    /\ disk' = disk + 1
    /\ unsettled' = unsettled + 1
    /\ UNCHANGED <<cache, lock, pc, parsed, got, history>>

\* set_materialized raises: the handler logs it and does not invalidate.
SettleFails ==
    /\ pc[Loop] = "idle"
    /\ unsettled > 0
    /\ unsettled' = unsettled - 1
    /\ UNCHANGED <<disk, cache, lock, pc, parsed, got, history>>

\* What is remembered of an invalidation.
RecordWipe(version) ==
    /\ stores' = 0
    /\ wiped' = version
    /\ raced' = \E r \in Readers : pc[r] = "build"
    /\ emptied' = [r \in Readers |-> TRUE]

\* Mutant of Invalidate: one of the caches is left out.
InvalidateOthers ==
    /\ pc[Loop] = "idle"
    /\ unsettled > 0
    /\ unsettled' = unsettled - 1
    /\ RecordWipe(disk)
    /\ UNCHANGED <<disk, cache, lock, pc, parsed, got>>

\* invalidate_caches, after set_materialized.
Invalidate ==
    /\ pc[Loop] = "idle"
    /\ unsettled > 0
    /\ unsettled' = unsettled - 1
    /\ cache' = NotCached
    /\ RecordWipe(disk)
    /\ UNCHANGED <<disk, lock, pc, parsed, got>>

\* delete: the file and the manifest line go and the caches with them, with no
\* await in between.
Dematerialize ==
    /\ pc[Loop] = "idle"
    /\ disk < MaxVersion
    /\ disk' = disk + 1
    /\ cache' = NotCached
    /\ RecordWipe(disk + 1)
    /\ UNCHANGED <<unsettled, lock, pc, parsed, got>>

-----------------------------------------------------------------------------
(* The getter.                                                             *)

Call(r) ==
    /\ pc[r] = "idle"
    /\ pc' = [pc EXCEPT ![r] = "look"]
    /\ got' = [got EXCEPT ![r] = Failed]
    /\ emptied' = [emptied EXCEPT ![r] = FALSE]
    /\ UNCHANGED <<disk, unsettled, cache, lock, parsed, stores, wiped, raced>>

\* The unlocked test of the cache.  Its value is read again to be returned.
Look(r) ==
    /\ pc[r] = "look"
    /\ pc' = [pc EXCEPT ![r] = IF cache = NotCached THEN "lock" ELSE "return"]
    /\ UNCHANGED <<disk, unsettled, cache, lock, parsed, got, history>>

\* Mutant of Acquire: a reader that finds the lock taken does not wait.
AcquireOrPass(r) ==
    /\ pc[r] = "lock"
    /\ IF lock = NoReader
       THEN lock' = r /\ pc' = [pc EXCEPT ![r] = "recheck"]
       ELSE UNCHANGED lock /\ pc' = [pc EXCEPT ![r] = "return"]
    /\ UNCHANGED <<disk, unsettled, cache, parsed, got, history>>

Acquire(r) ==
    /\ pc[r] = "lock"
    /\ lock = NoReader
    /\ lock' = r
    /\ pc' = [pc EXCEPT ![r] = "recheck"]
    /\ UNCHANGED <<disk, unsettled, cache, parsed, got, history>>

\* Mutant of Recheck: who has waited for the lock builds without a second look.
BuildUnchecked(r) ==
    /\ pc[r] = "recheck"
    /\ pc' = [pc EXCEPT ![r] = "build"]
    /\ parsed' = [parsed EXCEPT ![r] = disk]
    /\ UNCHANGED <<disk, unsettled, cache, lock, got, history>>

\* Under the lock the cache is tested again.  If it is still None the build
\* begins: it reads the manifest as it is now.
Recheck(r) ==
    /\ pc[r] = "recheck"
    /\ IF cache = NotCached
       THEN /\ pc' = [pc EXCEPT ![r] = "build"]
            /\ parsed' = [parsed EXCEPT ![r] = disk]
       ELSE /\ pc' = [pc EXCEPT ![r] = "leave"]
            /\ UNCHANGED parsed
    /\ UNCHANGED <<disk, unsettled, cache, lock, got, history>>

\* The build is over and assigned to the cache.
Store(r) ==
    /\ pc[r] = "build"
    /\ cache' = parsed[r]
    /\ stores' = stores + 1
    /\ parsed' = [parsed EXCEPT ![r] = 0]
    /\ pc' = [pc EXCEPT ![r] = "leave"]
    /\ UNCHANGED <<disk, unsettled, lock, got, wiped, raced, emptied>>

\* Mutant of BuildFails: the lock is not released when the build raises.
BuildFailsLocked(r) ==
    /\ pc[r] = "build"
    /\ got' = [got EXCEPT ![r] = Failed]
    /\ pc' = [pc EXCEPT ![r] = "idle"]
    /\ UNCHANGED <<disk, unsettled, cache, lock, parsed, history>>

\* The manifest cannot be parsed: the caller gets the failure, the next call
\* tries again.
BuildFails(r) ==
    /\ pc[r] = "build"
    /\ got' = [got EXCEPT ![r] = Failed]
    /\ lock' = NoReader
    /\ parsed' = [parsed EXCEPT ![r] = 0]
    /\ pc' = [pc EXCEPT ![r] = "idle"]
    /\ UNCHANGED <<disk, unsettled, cache, history>>

Leave(r) ==
    /\ pc[r] = "leave"
    /\ lock' = NoReader
    /\ pc' = [pc EXCEPT ![r] = "return"]
    /\ UNCHANGED <<disk, unsettled, cache, parsed, got, history>>

\* return _factory_cache: whatever the variable holds by now.
Return(r) ==
    /\ pc[r] = "return"
    /\ got' = [got EXCEPT ![r] = cache]
    /\ pc' = [pc EXCEPT ![r] = "idle"]
    /\ UNCHANGED <<disk, unsettled, cache, lock, parsed, history>>

-----------------------------------------------------------------------------
Step(r) == \/ Look(r) \/ Acquire(r) \/ Recheck(r) \/ Store(r) \/ BuildFails(r)
           \/ Leave(r) \/ Return(r)

Next == \/ Materialize \/ SettleFails \/ Invalidate \/ Dematerialize
        \/ \E r \in Readers : Call(r) \/ Step(r)

Spec == Init /\ [][Next]_cacheVars

\* Threads are scheduled and a build ends.  A thread that waits for a lock is
\* assumed to get it if it is released again and again.
Fairness == \A r \in Readers : WF_cacheVars(Step(r)) /\ SF_cacheVars(Acquire(r))

FairSpec == Spec /\ Fairness

-----------------------------------------------------------------------------
\* The expensive parse is stored once between two invalidations, however many
\* threads miss the cache together.
ParsedOnce == stores <= 1

\* A getter hands out None only when the caches were emptied while it ran.
NoneNeedsWipe ==
    \A r \in Readers : pc[r] = "idle" /\ got[r] = NotCached => emptied[r]

\* Unless a build was under way when the caches were emptied, what is cached is
\* never older than the networks the invalidation announced.
StaleNeedsRace == cache # NotCached /\ ~raced => cache >= wiped

\* Liveness: the event loop, blocked in the getter, goes on.
LoopFreed == pc[Loop] # "idle" ~> pc[Loop] = "idle"

-----------------------------------------------------------------------------
(* The inductive invariant behind the safety properties.                   *)

LockInv == \A r \in Readers : Inside(r) <=> lock = r

\* Only a build fills the cache, and it began with an empty one.
StoreInv == /\ stores <= 1
            /\ stores = 1 => cache # NotCached
            /\ \A r \in Readers : pc[r] = "build" => cache = NotCached

ReturnInv == \A r \in Readers : pc[r] \in {"leave", "return"} =>
                                    cache # NotCached \/ emptied[r]

BuildInv == /\ wiped <= disk
            /\ \A r \in Readers : pc[r] = "build" /\ ~raced => parsed[r] >= wiped

CacheInv == /\ TypeOK /\ LockInv /\ StoreInv /\ ReturnInv /\ BuildInv
            /\ NoneNeedsWipe /\ StaleNeedsRace

-----------------------------------------------------------------------------
\* invalidate_caches resets the caches "so next access re-parses manifests"
\* (network_materializer.py:166): a call that begins after it never finds an
\* older version.  A build that read the manifest before stores it afterwards.
NextAccessReparses ==
    \A r \in Readers : pc[r] = "look" /\ ~emptied[r] /\ cache # NotCached => cache >= wiped
=============================================================================
