--------------------------- MODULE DailyUsageProofs ---------------------------
(***************************************************************************)
(* Proofs about DailyUsage, for every set of connections, every limit and  *)
(* every number of days.                                                   *)
(***************************************************************************)
EXTENDS DailyUsage, TLAPS

LEMMA InitInv == Init => UsageInv
  <1> USE UsageAssumption
  <1> SUFFICES ASSUME Init PROVE UsageInv
    OBVIOUS
  <1>1. 0 \in Units /\ 0 \in Days
    BY DEF Units, Days
  <1>2. TypeOK
    BY <1>1 DEF Init, TypeOK
  <1>3. HolderInv /\ PendingInv /\ RefusedAtLimit
    BY DEF Init, HolderInv, InTransaction, PendingInv, RefusedAtLimit
  <1>4. GrantInv /\ EveryServedPaid
    BY <1>1 DEF Init, GrantInv, Holds, EveryServedPaid
  <1> QED
    BY <1>2, <1>3, <1>4 DEF UsageInv

\* A step that writes neither counters nor history and lets no message reach its
\* reply keeps what is known of granted units.
LEMMA KeepGrants ==
  ASSUME GrantInv, EveryServedPaid, UNCHANGED <<count, served>>,
         \A c \in Conns, d \in Days, r \in Units : Holds(c, d, r)' => Holds(c, d, r)
  PROVE  GrantInv' /\ EveryServedPaid'
  <1>1. EveryServedPaid'
    BY DEF EveryServedPaid
  <1>2. GrantInv'
    BY DEF GrantInv
  <1> QED
    BY <1>1, <1>2

\* Day 0 and a remaining count of 0 exist; the limit is a number.
LEMMA Constants == 0 \in Days /\ 0 \in Units /\ Limit \in Nat \ {0} /\ MaxDay \in Nat
  BY UsageAssumption DEF Days, Units

\* The history counts units.
LEMMA ServedType ==
  ASSUME TypeOK, NEW d \in Days, NEW r \in Units
  PROVE  served[d][r] \in Nat
  <1>1. served[d] \in [Units -> Nat]
    BY DEF TypeOK
  <1> QED
    BY <1>1

\* What an increment that is about to be committed says of its day.
LEMMA PendingUnit ==
  ASSUME UsageInv, NEW c \in Conns, pc[c] = "commit", verdict[c] = "granted"
  PROVE  /\ date[c] \in Days /\ left[c] \in Units
         /\ count[date[c]] \in Nat
         /\ count[date[c]] + left[c] + 1 = Limit
         /\ served[date[c]][left[c]] = 0
         /\ \A b \in Conns : ~Holds(b, date[c], left[c])
  <1> USE UsageAssumption DEF Units, Days
  <1> DEFINE d == date[c]
             r == left[c]
  <1>1. /\ d \in Days /\ r \in Units /\ count[d] \in Nat
        /\ count[d] + r + 1 = Limit
    BY DEF UsageInv, TypeOK, PendingInv
  <1>2. served[d][r] \in Nat /\ served[d][r] <= 1 /\ (served[d][r] = 1 => count[d] + r >= Limit)
    BY <1>1, ServedType DEF UsageInv, EveryServedPaid
  <1>3. \A b \in Conns : Holds(b, d, r) => count[d] + r >= Limit
    BY <1>1 DEF UsageInv, GrantInv
  <1>4. ~(count[d] + r >= Limit)
    BY <1>1
  <1>5. served[d][r] = 0
    BY <1>2, <1>4
  <1> QED
    BY <1>1, <1>3, <1>4, <1>5

\* What a granted message that waits for its processing is entitled to.
LEMMA HeldUnit ==
  ASSUME UsageInv, NEW c \in Conns, pc[c] = "reply", verdict[c] = "granted"
  PROVE  /\ date[c] \in Days /\ left[c] \in Units
         /\ count[date[c]] + left[c] >= Limit
         /\ served[date[c]][left[c]] = 0
         /\ \A b \in Conns : Holds(b, date[c], left[c]) => b = c
  <1>1. date[c] \in Days /\ left[c] \in Units /\ Holds(c, date[c], left[c])
    BY DEF UsageInv, TypeOK, Holds
  <1> QED
    BY <1>1 DEF UsageInv, GrantInv

LEMMA StepInv == UsageInv /\ [Next]_usageVars => UsageInv'
  <1> USE UsageAssumption
  <1> SUFFICES ASSUME UsageInv, [Next]_usageVars PROVE UsageInv'
    OBVIOUS
  <1> USE DEF UsageInv
  <1>1. ASSUME NEW c \in Conns, Receive(c) PROVE UsageInv'
    <2>1. TypeOK' /\ HolderInv' /\ PendingInv' /\ RefusedAtLimit'
      BY <1>1 DEF Receive, TypeOK, HolderInv, InTransaction, PendingInv, RefusedAtLimit
    <2>2. GrantInv' /\ EveryServedPaid'
      BY <1>1 DEF Receive, TypeOK, GrantInv, Holds, EveryServedPaid
    <2> QED
      BY <2>1, <2>2
  <1>2. ASSUME NEW c \in Conns, UpsertUser(c) PROVE UsageInv'
    <2>1. TypeOK' /\ HolderInv' /\ PendingInv' /\ RefusedAtLimit'
      BY <1>2 DEF UpsertUser, TypeOK, HolderInv, InTransaction, PendingInv, RefusedAtLimit
    <2>2. GrantInv' /\ EveryServedPaid'
      BY <1>2 DEF UpsertUser, TypeOK, GrantInv, Holds, EveryServedPaid
    <2> QED
      BY <2>1, <2>2
  <1>3. ASSUME NEW c \in Conns, CheckKeys(c) PROVE UsageInv'
    <2>1. TypeOK' /\ HolderInv'
      BY <1>3 DEF CheckKeys, TypeOK, HolderInv, InTransaction
    <2>2. PendingInv' /\ RefusedAtLimit'
      BY <1>3 DEF CheckKeys, TypeOK, PendingInv, RefusedAtLimit
    <2>3. GrantInv' /\ EveryServedPaid'
      <3>1. \A b \in Conns, d \in Days, r \in Units : Holds(b, d, r)' => Holds(b, d, r)
        BY <1>3 DEF CheckKeys, TypeOK, Holds
      <3> QED
        BY <1>3, <3>1, KeepGrants DEF CheckKeys
    <2> QED
      BY <2>1, <2>2, <2>3
  <1>4. ASSUME NEW c \in Conns, IncrementAndCheck(c) PROVE UsageInv'
    <2>1. today \in Days /\ count[today] \in 0 .. Limit
      BY DEF TypeOK
    <2>a. /\ count[today] < Limit => /\ Limit - (count[today] + 1) \in Units
                                     /\ count[today] + (Limit - (count[today] + 1)) + 1 = Limit
          /\ ~(count[today] < Limit) => count[today] = Limit
      BY <2>1, Constants DEF Units
    <2>2. TypeOK'
      <3>1. left' \in [Conns -> Units]
        BY <1>4, <2>1, <2>a, Constants DEF IncrementAndCheck, TypeOK
      <3>2. verdict' \in [Conns -> {"unlimited", "granted", "refused"}]
        BY <1>4 DEF IncrementAndCheck, TypeOK
      <3>3. date' \in [Conns -> Days] /\ UNCHANGED <<today, count, hasKey, holder, served>>
        BY <1>4, <2>1 DEF IncrementAndCheck, TypeOK
      <3>4. pc' \in [Conns -> {"idle", "upsert", "keys", "charge", "commit", "reply"}]
        BY <1>4 DEF IncrementAndCheck, TypeOK
      <3> QED
        BY <3>1, <3>2, <3>3, <3>4 DEF TypeOK
    <2>3. HolderInv'
      BY <1>4 DEF IncrementAndCheck, TypeOK, HolderInv, InTransaction
    <2>4. PendingInv' /\ RefusedAtLimit'
      <3>1. CASE count[today] < Limit
        BY <1>4, <2>1, <2>a, <3>1 DEF IncrementAndCheck, TypeOK, PendingInv, RefusedAtLimit
      <3>2. CASE ~(count[today] < Limit)
        BY <1>4, <2>1, <2>a, <3>2 DEF IncrementAndCheck, TypeOK, PendingInv, RefusedAtLimit
      <3> QED
        BY <3>1, <3>2
    <2>5. GrantInv' /\ EveryServedPaid'
      BY <1>4 DEF IncrementAndCheck, TypeOK, GrantInv, Holds, EveryServedPaid
    <2> QED
      BY <2>2, <2>3, <2>4, <2>5
  <1>5. ASSUME NEW c \in Conns, Commit(c), verdict[c] # "granted" PROVE UsageInv'
    <2>1. TypeOK' /\ HolderInv'
      BY <1>5 DEF Commit, TypeOK, HolderInv, InTransaction
    <2>2. PendingInv' /\ RefusedAtLimit'
      BY <1>5 DEF Commit, TypeOK, PendingInv, RefusedAtLimit
    <2>3. GrantInv' /\ EveryServedPaid'
      BY <1>5 DEF Commit, TypeOK, GrantInv, Holds, EveryServedPaid
    <2> QED
      BY <2>1, <2>2, <2>3
  <1>6. ASSUME NEW c \in Conns, Commit(c), verdict[c] = "granted" PROVE UsageInv'
    <2> DEFINE day == date[c]
               unit == left[c]
    <2>1. /\ pc[c] = "commit"
          /\ day \in Days /\ unit \in Units
          /\ count[day] \in Nat
          /\ count[day] + unit + 1 = Limit
          /\ served[day][unit] = 0
          /\ \A b \in Conns : ~Holds(b, day, unit)
      BY <1>6, PendingUnit DEF Commit
    <2>2. count' = [count EXCEPT ![day] = @ + 1]
      BY <1>6 DEF Commit
    <2>3. /\ count'[day] = count[day] + 1 /\ count'[day] <= Limit
          /\ \A d \in Days \ {day} : count'[d] = count[d]
      BY <2>1, <2>2 DEF TypeOK, Units
    <2>4. TypeOK'
      <3>1. count[day] + 1 \in 0 .. Limit
        BY <2>1, Constants DEF Units
      <3>2. count' \in [Days -> 0 .. Limit]
        BY <2>1, <2>2, <3>1 DEF TypeOK
      <3> QED
        BY <1>6, <3>2 DEF Commit, TypeOK
    <2>5. HolderInv'
      BY <1>6 DEF Commit, TypeOK, HolderInv, InTransaction
    <2>6. \A b \in Conns : pc'[b] # "commit"
      BY <1>6, <2>5 DEF Commit, HolderInv, InTransaction, TypeOK
    <2>7. PendingInv'
      BY <2>6 DEF PendingInv
    <2>8. RefusedAtLimit'
      <3> SUFFICES ASSUME NEW b \in Conns, pc'[b] = "reply", verdict'[b] = "refused"
                   PROVE  count'[date'[b]] = Limit
        BY <2>6 DEF RefusedAtLimit
      <3>1. b # c /\ pc[b] = "reply" /\ verdict[b] = "refused" /\ date'[b] = date[b]
        BY <1>6 DEF Commit, TypeOK
      <3>2. count[date[b]] = Limit /\ date[b] \in Days
        BY <3>1 DEF RefusedAtLimit, TypeOK
      <3>3. date[b] # day
        BY <3>2, <2>1 DEF Units
      <3> QED
        BY <3>1, <3>2, <3>3, <2>3
    <2>9. EveryServedPaid'
      <3> SUFFICES ASSUME NEW d \in Days, NEW r \in Units
                   PROVE  /\ count'[d] <= Limit
                          /\ served'[d][r] <= 1
                          /\ served'[d][r] = 1 => count'[d] + r >= Limit
        BY <2>3, Constants DEF EveryServedPaid
      <3>1. /\ count[d] <= Limit /\ served[d][r] <= 1
            /\ served[d][r] = 1 => count[d] + r >= Limit
        BY DEF EveryServedPaid
      <3>2. served' = served
        BY <1>6 DEF Commit
      <3>a. count[d] \in Nat /\ r \in Nat
        BY DEF TypeOK, Units
      <3>3. /\ count[d] \in Nat /\ count'[d] \in Nat /\ r \in Nat
            /\ count'[d] <= Limit /\ count[d] <= count'[d]
        <4>1. CASE d = day
          BY <4>1, <3>a, <2>1, <2>3
        <4>2. CASE d # day
          BY <4>2, <3>a, <3>1, <2>3
        <4> QED
          BY <4>1, <4>2
      <3> QED
        BY <3>1, <3>2, <3>3, Constants
    <2>10. GrantInv'
      <3>1. \A b \in Conns, d \in Days, r \in Units :
              Holds(b, d, r)' => Holds(b, d, r) \/ (b = c /\ d = day /\ r = unit)
        BY <1>6 DEF Commit, Holds, TypeOK
      <3>2. served' = served
        BY <1>6 DEF Commit
      <3>3. ASSUME NEW d \in Days, NEW r \in Units, NEW b \in Conns, Holds(b, d, r)'
            PROVE  count'[d] + r >= Limit /\ served'[d][r] = 0
        <4>1. CASE Holds(b, d, r)
          <5>1. count[d] + r >= Limit /\ served[d][r] = 0 /\ count[d] \in Nat
            BY <4>1 DEF GrantInv, TypeOK
          <5>2. count'[d] >= count[d] /\ count'[d] \in Nat
            BY <2>1, <2>3, <5>1
          <5> QED
            BY <5>1, <5>2, <3>2 DEF Units
        <4>2. CASE d = day /\ r = unit
          BY <4>2, <2>1, <2>3, <3>2 DEF Units
        <4> QED
          BY <3>1, <3>3, <4>1, <4>2
      <3>4. ASSUME NEW d \in Days, NEW r \in Units, NEW a \in Conns, NEW b \in Conns,
                   Holds(a, d, r)', Holds(b, d, r)'
            PROVE  a = b
        <4>1. CASE d = day /\ r = unit
          BY <4>1, <3>1, <3>4, <2>1
        <4>2. CASE ~(d = day /\ r = unit)
          BY <4>2, <3>1, <3>4 DEF GrantInv
        <4> QED
          BY <4>1, <4>2
      <3> QED
        BY <3>3, <3>4 DEF GrantInv
    <2> QED
      BY <2>4, <2>5, <2>7, <2>8, <2>9, <2>10
  <1>7. ASSUME NEW c \in Conns, Reply(c) PROVE UsageInv'
    <2> USE DEF Reply, Forget
    <2>1. TypeOK'
      <3>1. served' \in [Days -> [Units -> Nat]]
        <4>1. CASE verdict[c] # "granted"
          BY <1>7, <4>1 DEF TypeOK
        <4>2. CASE verdict[c] = "granted"
          <5>1. /\ date[c] \in Days /\ left[c] \in Units
                /\ served' = [served EXCEPT ![date[c]][left[c]] = @ + 1]
            BY <1>7, <4>2 DEF TypeOK
          <5>2. [served[date[c]] EXCEPT ![left[c]] = @ + 1] \in [Units -> Nat]
            BY <5>1, ServedType DEF TypeOK
          <5> QED
            BY <5>1, <5>2 DEF TypeOK
        <4> QED
          BY <4>1, <4>2
      <3> QED
        BY <1>7, <3>1, Constants DEF TypeOK
    <2>2. HolderInv' /\ PendingInv' /\ RefusedAtLimit'
      BY <1>7 DEF TypeOK, HolderInv, InTransaction, PendingInv, RefusedAtLimit
    <2>3. \A b \in Conns, d \in Days, r \in Units : Holds(b, d, r)' => b # c /\ Holds(b, d, r)
      BY <1>7 DEF TypeOK, Holds
    <2>4. CASE verdict[c] # "granted"
      <3>1. served' = served /\ count' = count
        BY <1>7, <2>4
      <3> QED
        BY <2>1, <2>2, <2>3, <3>1 DEF GrantInv, EveryServedPaid
    <2>5. CASE verdict[c] = "granted"
      <3>1. /\ date[c] \in Days /\ left[c] \in Units
            /\ count[date[c]] + left[c] >= Limit
            /\ served[date[c]][left[c]] = 0
            /\ \A b \in Conns : Holds(b, date[c], left[c]) => b = c
        BY <1>7, <2>5, HeldUnit
      <3>2. count' = count /\ served' = [served EXCEPT ![date[c]][left[c]] = @ + 1]
        BY <1>7, <2>5
      <3>3. \A d \in Days, r \in Units :
              served'[d][r] = IF d = date[c] /\ r = left[c] THEN 1 ELSE served[d][r]
        BY <3>1, <3>2 DEF TypeOK
      <3>4. EveryServedPaid'
        BY <3>1, <3>2, <3>3 DEF EveryServedPaid
      <3>5. GrantInv'
        BY <2>3, <3>1, <3>2, <3>3 DEF GrantInv
      <3> QED
        BY <2>1, <2>2, <3>4, <3>5
    <2> QED
      BY <2>4, <2>5
  <1>8. ASSUME NEW c \in Conns, Drop(c) PROVE UsageInv'
    <2> USE DEF Drop, Forget
    <2>1. TypeOK'
      BY <1>8, Constants DEF TypeOK
    <2>2. HolderInv'
      BY <1>8 DEF TypeOK, HolderInv, InTransaction
    <2>3. PendingInv' /\ RefusedAtLimit'
      BY <1>8 DEF TypeOK, PendingInv, RefusedAtLimit
    <2>4. GrantInv' /\ EveryServedPaid'
      BY <1>8 DEF TypeOK, GrantInv, Holds, EveryServedPaid
    <2> QED
      BY <2>1, <2>2, <2>3, <2>4
  <1>9. CASE ChangeKeys
    BY <1>9 DEF ChangeKeys, TypeOK, HolderInv, InTransaction, PendingInv, RefusedAtLimit,
                GrantInv, Holds, EveryServedPaid
  <1>10. CASE Midnight
    <2>1. today + 1 \in Days
      BY <1>10 DEF Midnight, TypeOK, Days
    <2>2. TypeOK'
      BY <1>10, <2>1 DEF Midnight, TypeOK
    <2>3. HolderInv' /\ PendingInv' /\ RefusedAtLimit'
      BY <1>10 DEF Midnight, HolderInv, InTransaction, PendingInv, RefusedAtLimit
    <2>4. GrantInv' /\ EveryServedPaid'
      BY <1>10 DEF Midnight, GrantInv, Holds, EveryServedPaid
    <2> QED
      BY <2>2, <2>3, <2>4
  <1>11. CASE UNCHANGED usageVars
    BY <1>11 DEF usageVars, TypeOK, HolderInv, InTransaction, PendingInv, RefusedAtLimit,
                 GrantInv, Holds, EveryServedPaid
  <1> QED
    BY <1>1, <1>2, <1>3, <1>4, <1>5, <1>6, <1>7, <1>8, <1>9, <1>10, <1>11 DEF Next, Step

\* The conjunction that every step preserves.
THEOREM Invariant == Spec => []UsageInv
  BY InitInv, StepInv, PTL DEF Spec

\* Type correctness: in particular no counter passes the limit.
THEOREM TypeCorrect == Spec => []TypeOK
  <1>1. UsageInv => TypeOK
    BY DEF UsageInv
  <1> QED
    BY Invariant, <1>1, PTL

\* However many connections, in however many processes, and whenever midnight
\* and crashes come: every message let through was paid for with a unit of its
\* day that no other message holds.
THEOREM ServedPaid == Spec => []EveryServedPaid
  <1>1. UsageInv => EveryServedPaid
    BY DEF UsageInv
  <1> QED
    BY Invariant, <1>1, PTL

\* Nobody is turned away from a day with units left.
THEOREM RefusedOnlyAtLimit == Spec => []RefusedAtLimit
  <1>1. UsageInv => RefusedAtLimit
    BY DEF UsageInv
  <1> QED
    BY Invariant, <1>1, PTL

-----------------------------------------------------------------------------
\* A step of the transactions spends a unit, serves one, or changes nothing that
\* the quota speaks of.
LEMMA StepRefines == UsageInv /\ [Next]_usageVars => [Promise!QNext]_(Promise!qvars)
  <1> SUFFICES ASSUME UsageInv, [Next]_usageVars
               PROVE  [Promise!QNext]_(Promise!qvars)
    OBVIOUS
  <1>1. ASSUME NEW c \in Conns, Commit(c), verdict[c] = "granted"
        PROVE  Promise!QNext
    <2>1. date[c] \in Days /\ left[c] \in Units /\ count[date[c]] \in Nat
          /\ count[date[c]] + left[c] + 1 = Limit
      BY <1>1, PendingUnit DEF Commit
    <2>2. count[date[c]] < Limit
      BY <2>1, Constants DEF Units
    <2>3. Promise!Spend(date[c])
      BY <1>1, <2>2 DEF Commit, Promise!Spend
    <2> QED
      BY <2>1, <2>3 DEF Promise!QNext
  <1>2. ASSUME NEW c \in Conns, Reply(c), verdict[c] = "granted"
        PROVE  Promise!QNext
    <2>1. /\ date[c] \in Days /\ left[c] \in Units
          /\ count[date[c]] + left[c] >= Limit
          /\ served[date[c]][left[c]] = 0
      BY <1>2, HeldUnit DEF Reply
    <2>2. served' = [served EXCEPT ![date[c]][left[c]] = @ + 1] /\ UNCHANGED count
      BY <1>2 DEF Reply
    <2>3. served' = [served EXCEPT ![date[c]][left[c]] = 1]
      BY <2>1, <2>2
    <2>4. Promise!Serve(date[c], left[c])
      BY <2>1, <2>2, <2>3 DEF Promise!Serve
    <2> QED
      BY <2>1, <2>4 DEF Promise!QNext, Units
  <1>3. CASE UNCHANGED <<count, served>>
    BY <1>3 DEF Promise!qvars
  <1>4. ASSUME NEW c \in Conns, Commit(c) \/ Reply(c), verdict[c] # "granted"
        PROVE  UNCHANGED <<count, served>>
    BY <1>4 DEF Commit, Reply
  <1>5. ASSUME NEW c \in Conns,
               \/ Receive(c) \/ UpsertUser(c) \/ CheckKeys(c) \/ IncrementAndCheck(c)
               \/ Drop(c)
        PROVE  UNCHANGED <<count, served>>
    BY <1>5 DEF Receive, UpsertUser, CheckKeys, IncrementAndCheck, Drop
  <1>6. ASSUME ChangeKeys \/ Midnight \/ UNCHANGED usageVars
        PROVE  UNCHANGED <<count, served>>
    BY <1>6 DEF ChangeKeys, Midnight, usageVars
  <1> QED
    BY <1>1, <1>2, <1>3, <1>4, <1>5, <1>6 DEF Next, Step

\* The transactional counter keeps every promise of Quota.
THEOREM UsageImplementsQuota == Spec => ImplementsQuota
  <1>1. Init => Promise!QInit
    BY DEF Init, Promise!QInit, Units
  <1> QED
    BY <1>1, Invariant, StepRefines, PTL DEF Spec, ImplementsQuota, Promise!QSpec
=============================================================================
