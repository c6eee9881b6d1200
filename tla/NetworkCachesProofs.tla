------------------------- MODULE NetworkCachesProofs -------------------------
(***************************************************************************)
(* Proofs about NetworkCaches, for every number of readers and of changes. *)
(***************************************************************************)
EXTENDS NetworkCaches, TLAPS

LEMMA InitInv == Init => CacheInv
  <1> USE CachesAssumption
  <1> SUFFICES ASSUME Init PROVE CacheInv
    OBVIOUS
  <1>a. 0 \in Versions
    BY DEF Versions
  <1>1. TypeOK
    <2> USE <1>a DEF Init
    <2>1. pc \in [Readers -> {"idle", "look", "lock", "recheck", "build", "leave", "return"}]
      OBVIOUS
    <2>2. parsed \in [Readers -> Versions] /\ emptied \in [Readers -> BOOLEAN]
      OBVIOUS
    <2>3. got \in [Readers -> Versions \cup {NotCached, Failed}]
      OBVIOUS
    <2> QED
      BY <2>1, <2>2, <2>3 DEF TypeOK
  <1>2. LockInv /\ StoreInv /\ ReturnInv /\ BuildInv
    BY DEF Init, LockInv, Inside, StoreInv, ReturnInv, BuildInv
  <1>3. NoneNeedsWipe /\ StaleNeedsRace
    BY DEF Init, NoneNeedsWipe, StaleNeedsRace
  <1> QED
    BY <1>1, <1>2, <1>3 DEF CacheInv

\* Emptying the cache, with the disk at the recorded version from then on, keeps
\* what the invariant says of the cache.
LEMMA WipeKeeps ==
  ASSUME CacheInv, NEW version \in Versions, RecordWipe(version), cache' = NotCached,
         disk' = version, UNCHANGED <<lock, pc, parsed, got>>
  PROVE  LockInv' /\ StoreInv' /\ ReturnInv' /\ BuildInv' /\ NoneNeedsWipe' /\ StaleNeedsRace'
  <1> USE DEF RecordWipe, CacheInv
  <1>1. LockInv' /\ StoreInv'
    BY DEF LockInv, Inside, StoreInv
  <1>2. ReturnInv' /\ NoneNeedsWipe' /\ StaleNeedsRace'
    BY DEF ReturnInv, NoneNeedsWipe, StaleNeedsRace, TypeOK
  <1>3. BuildInv'
    BY DEF BuildInv, Versions
  <1> QED
    BY <1>1, <1>2, <1>3

\* The holder of the lock is alone with the cache.
LEMMA Alone ==
  ASSUME CacheInv, NEW r \in Readers, Inside(r)
  PROVE  \A q \in Readers : Inside(q) => q = r
  BY DEF CacheInv, LockInv

LEMMA TypeStep == CacheInv /\ [Next]_cacheVars => TypeOK'
  <1> USE CachesAssumption DEF TypeOK, history
  <1> SUFFICES ASSUME TypeOK, [Next]_cacheVars PROVE TypeOK'
    BY DEF CacheInv
  <1>1. CASE Materialize
    BY <1>1 DEF Materialize, Versions
  <1>2. CASE SettleFails
    BY <1>2 DEF SettleFails
  <1>3. CASE Invalidate
    BY <1>3 DEF Invalidate, RecordWipe
  <1>4. CASE Dematerialize
    BY <1>4 DEF Dematerialize, RecordWipe, Versions
  <1>5. ASSUME NEW r \in Readers, Call(r) PROVE TypeOK'
    BY <1>5 DEF Call
  <1>6. ASSUME NEW r \in Readers, Look(r) \/ Acquire(r) PROVE TypeOK'
    BY <1>6 DEF Look, Acquire
  <1>7. ASSUME NEW r \in Readers, Recheck(r) PROVE TypeOK'
    BY <1>7 DEF Recheck
  <1>8. ASSUME NEW r \in Readers, Store(r) PROVE TypeOK'
    BY <1>8 DEF Store, Versions
  <1>9. ASSUME NEW r \in Readers, BuildFails(r) PROVE TypeOK'
    BY <1>9 DEF BuildFails, Versions
  <1>10. ASSUME NEW r \in Readers, Leave(r) \/ Return(r) PROVE TypeOK'
    BY <1>10 DEF Leave, Return
  <1>11. CASE UNCHANGED cacheVars
    BY <1>11 DEF cacheVars
  <1> QED
    BY <1>1, <1>2, <1>3, <1>4, <1>5, <1>6, <1>7, <1>8, <1>9, <1>10, <1>11 DEF Next, Step

LEMMA InvStep == CacheInv /\ [Next]_cacheVars => CacheInv'
  <1> USE CachesAssumption
  <1> SUFFICES ASSUME CacheInv, [Next]_cacheVars
               PROVE  LockInv' /\ StoreInv' /\ ReturnInv' /\ BuildInv'
                      /\ NoneNeedsWipe' /\ StaleNeedsRace'
    BY TypeStep DEF CacheInv
  <1> DEFINE Kept == LockInv' /\ StoreInv' /\ ReturnInv' /\ BuildInv'
                     /\ NoneNeedsWipe' /\ StaleNeedsRace'
  <1> USE DEF CacheInv, history
  <1>1. CASE Materialize
    <2>1. disk \in Nat /\ disk' = disk + 1 /\ wiped \in Nat
      BY <1>1 DEF Materialize, TypeOK, Versions
    <2>2. BuildInv'
      BY <1>1, <2>1 DEF Materialize, BuildInv
    <2>3. LockInv' /\ StoreInv' /\ ReturnInv' /\ NoneNeedsWipe' /\ StaleNeedsRace'
      BY <1>1 DEF Materialize, LockInv, Inside, StoreInv, ReturnInv, NoneNeedsWipe, StaleNeedsRace
    <2> QED
      BY <2>2, <2>3
  <1>2. CASE SettleFails \/ UNCHANGED cacheVars
    <2>1. LockInv' /\ StoreInv' /\ ReturnInv'
      BY <1>2 DEF SettleFails, cacheVars, LockInv, Inside, StoreInv, ReturnInv
    <2>2. BuildInv' /\ NoneNeedsWipe' /\ StaleNeedsRace'
      BY <1>2 DEF SettleFails, cacheVars, BuildInv, NoneNeedsWipe, StaleNeedsRace
    <2> QED
      BY <2>1, <2>2
  <1>3. CASE Invalidate
    BY <1>3, WipeKeeps DEF Invalidate, TypeOK
  <1>4. CASE Dematerialize
    <2>1. disk + 1 \in Versions
      BY <1>4 DEF Dematerialize, TypeOK, Versions
    <2> QED
      BY <1>4, <2>1, WipeKeeps DEF Dematerialize
  <1>5. ASSUME NEW r \in Readers, Call(r) PROVE Kept
    <2>1. LockInv' /\ StoreInv'
      BY <1>5 DEF Call, TypeOK, LockInv, Inside, StoreInv
    <2>2. ReturnInv' /\ BuildInv'
      BY <1>5 DEF Call, TypeOK, ReturnInv, BuildInv
    <2>3. NoneNeedsWipe' /\ StaleNeedsRace'
      BY <1>5 DEF Call, TypeOK, NoneNeedsWipe, StaleNeedsRace
    <2> QED
      BY <2>1, <2>2, <2>3
  <1>6. ASSUME NEW r \in Readers, Look(r) PROVE Kept
    <2>1. LockInv' /\ StoreInv'
      BY <1>6 DEF Look, TypeOK, LockInv, Inside, StoreInv
    <2>2. ReturnInv' /\ BuildInv'
      BY <1>6 DEF Look, TypeOK, ReturnInv, BuildInv
    <2>3. NoneNeedsWipe' /\ StaleNeedsRace'
      BY <1>6 DEF Look, TypeOK, NoneNeedsWipe, StaleNeedsRace
    <2> QED
      BY <2>1, <2>2, <2>3
  <1>7. ASSUME NEW r \in Readers, Acquire(r) PROVE Kept
    <2>1. LockInv' /\ StoreInv'
      BY <1>7 DEF Acquire, TypeOK, LockInv, Inside, StoreInv
    <2>2. ReturnInv' /\ BuildInv'
      BY <1>7 DEF Acquire, TypeOK, ReturnInv, BuildInv
    <2>3. NoneNeedsWipe' /\ StaleNeedsRace'
      BY <1>7 DEF Acquire, TypeOK, NoneNeedsWipe, StaleNeedsRace
    <2> QED
      BY <2>1, <2>2, <2>3
  <1>8. ASSUME NEW r \in Readers, Recheck(r) PROVE Kept
    <2>1. LockInv'
      BY <1>8 DEF Recheck, TypeOK, LockInv, Inside
    <2>2. StoreInv' /\ ReturnInv'
      BY <1>8 DEF Recheck, TypeOK, StoreInv, ReturnInv
    <2>3. BuildInv'
      BY <1>8 DEF Recheck, TypeOK, BuildInv, Versions
    <2>4. NoneNeedsWipe' /\ StaleNeedsRace'
      BY <1>8 DEF Recheck, TypeOK, NoneNeedsWipe, StaleNeedsRace
    <2> QED
      BY <2>1, <2>2, <2>3, <2>4
  <1>9. ASSUME NEW r \in Readers, Store(r) PROVE Kept
    <2>1. cache = NotCached /\ stores = 0 /\ parsed[r] \in Versions
      BY <1>9 DEF Store, StoreInv, TypeOK
    <2>2. cache' # NotCached /\ cache' = parsed[r] /\ stores' = 1
      BY <1>9, <2>1 DEF Store, Versions
    <2>3. \A q \in Readers : pc'[q] # "build"
      BY <1>9, Alone DEF Store, Inside, TypeOK
    <2>4. LockInv'
      BY <1>9 DEF Store, TypeOK, LockInv, Inside
    <2>5. StoreInv' /\ ReturnInv'
      BY <2>2, <2>3 DEF StoreInv, ReturnInv
    <2>6. BuildInv' /\ NoneNeedsWipe'
      BY <1>9, <2>3 DEF Store, TypeOK, BuildInv, NoneNeedsWipe
    <2>7. StaleNeedsRace'
      BY <1>9, <2>2 DEF Store, BuildInv, StaleNeedsRace
    <2> QED
      BY <2>4, <2>5, <2>6, <2>7
  <1>10. ASSUME NEW r \in Readers, BuildFails(r) PROVE Kept
    <2>1. LockInv' /\ StoreInv'
      BY <1>10 DEF BuildFails, TypeOK, LockInv, Inside, StoreInv
    <2>2. ReturnInv' /\ BuildInv'
      BY <1>10 DEF BuildFails, TypeOK, ReturnInv, BuildInv
    <2>3. NoneNeedsWipe' /\ StaleNeedsRace'
      BY <1>10 DEF BuildFails, TypeOK, NoneNeedsWipe, StaleNeedsRace
    <2> QED
      BY <2>1, <2>2, <2>3
  <1>11. ASSUME NEW r \in Readers, Leave(r) PROVE Kept
    <2>1. LockInv' /\ StoreInv'
      BY <1>11 DEF Leave, TypeOK, LockInv, Inside, StoreInv
    <2>2. ReturnInv' /\ BuildInv'
      BY <1>11 DEF Leave, TypeOK, ReturnInv, BuildInv
    <2>3. NoneNeedsWipe' /\ StaleNeedsRace'
      BY <1>11 DEF Leave, TypeOK, NoneNeedsWipe, StaleNeedsRace
    <2> QED
      BY <2>1, <2>2, <2>3
  <1>12. ASSUME NEW r \in Readers, Return(r) PROVE Kept
    <2>1. LockInv' /\ StoreInv'
      BY <1>12 DEF Return, TypeOK, LockInv, Inside, StoreInv
    <2>2. ReturnInv' /\ BuildInv'
      BY <1>12 DEF Return, TypeOK, ReturnInv, BuildInv
    <2>3. NoneNeedsWipe' /\ StaleNeedsRace'
      BY <1>12 DEF Return, TypeOK, ReturnInv, NoneNeedsWipe, StaleNeedsRace
    <2> QED
      BY <2>1, <2>2, <2>3
  <1> QED
    BY <1>1, <1>2, <1>3, <1>4, <1>5, <1>6, <1>7, <1>8, <1>9, <1>10, <1>11, <1>12 DEF Next, Step

\* The conjunction that every step preserves.
THEOREM Invariant == Spec => []CacheInv
  BY InitInv, InvStep, PTL DEF Spec

\* Every variable of the caches and their readers keeps its type.
THEOREM TypeCorrect == Spec => []TypeOK
  <1>1. CacheInv => TypeOK
    BY DEF CacheInv
  <1> QED
    BY Invariant, <1>1, PTL

\* However many threads miss the cache together, one of them builds.
THEOREM OneBuild == Spec => []ParsedOnce
  <1>1. CacheInv => ParsedOnce
    BY DEF CacheInv, StoreInv, ParsedOnce
  <1> QED
    BY Invariant, <1>1, PTL

\* Without an invalidation during the call a getter never returns None.
THEOREM NoneIsAWipe == Spec => []NoneNeedsWipe
  <1>1. CacheInv => NoneNeedsWipe
    BY DEF CacheInv
  <1> QED
    BY Invariant, <1>1, PTL

\* A build in flight at the moment of the invalidation is the one way to keep an
\* outdated object in the cache.
THEOREM StaleIsARace == Spec => []StaleNeedsRace
  <1>1. CacheInv => StaleNeedsRace
    BY DEF CacheInv
  <1> QED
    BY Invariant, <1>1, PTL
=============================================================================
