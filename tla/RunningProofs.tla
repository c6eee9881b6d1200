----------------------------- MODULE RunningProofs -----------------------------
(***************************************************************************)
(* Proofs about the components of Running, for any users, requests,         *)
(* browsers and bounds, and with them about Running itself: in each of its  *)
(* behaviours one component is at work and the others stay as they began.   *)
(* What is proved of ChatBridge alone is used here through an instance.     *)
(***************************************************************************)
EXTENDS Running, FiniteSetTheorems, SequenceTheorems, TLAPS

-----------------------------------------------------------------------------
(* TenantStore                                                             *)

\* A transaction that has begun has a kind, a user and an organization.
LEMMA TransactionFields ==
  ASSUME Tenant!TypeOK, NEW r \in Requests, txn[r].at # "idle"
  PROVE  txn[r] \in Tenant!Transaction
  BY DEF Tenant!TypeOK, Tenant!Idle

\* Going on to the next statement changes nothing else of the transaction.
LEMMA GotoEffect ==
  ASSUME Tenant!TypeOK, NEW r \in Requests, txn[r].at # "idle",
         NEW to \in {"user", "org", "member", "read", "default", "record", "commit"},
         Tenant!goto(r, to)
  PROVE  /\ txn' \in [Requests -> {Tenant!Idle} \cup Tenant!Transaction]
         /\ txn'[r].at = to
         /\ txn'[r].kind = txn[r].kind /\ txn'[r].user = txn[r].user
         /\ txn'[r].org = txn[r].org /\ txn'[r].saw = txn[r].saw
         /\ \A q \in Requests \ {r} : txn'[q] = txn[q]
  <1>1. txn[r] \in Tenant!Transaction
    BY TransactionFields
  <1>2. txn' = [txn EXCEPT ![r] = [txn[r] EXCEPT !.at = to]]
    BY DEF Tenant!goto
  <1>3. [txn[r] EXCEPT !.at = to] \in Tenant!Transaction
    BY <1>1 DEF Tenant!Transaction
  <1>4. txn \in [Requests -> {Tenant!Idle} \cup Tenant!Transaction]
    BY DEF Tenant!TypeOK
  <1> QED
    BY <1>1, <1>2, <1>3, <1>4 DEF Tenant!Transaction

\* The row a statement writes is one of the transaction's own three.
LEMMA WantsRow ==
  ASSUME Tenant!TypeOK, NEW r \in Requests
  PROVE  Tenant!Wants(r) \subseteq Tenant!Row
  <1>1. CASE txn[r].at = "idle"
    BY <1>1 DEF Tenant!Wants
  <1>2. CASE txn[r].at # "idle"
    <2>1. txn[r].user \in Users /\ txn[r].org \in Tenant!Orgs
      BY <1>2, TransactionFields DEF Tenant!Transaction
    <2> QED
      BY <2>1 DEF Tenant!Wants, Tenant!Row
  <1> QED
    BY <1>1, <1>2

LEMMA WriteEffect ==
  ASSUME Tenant!TypeOK, NEW r \in Requests, Tenant!Write(r)
  PROVE  /\ locks' \in [Requests -> SUBSET Tenant!Row]
         /\ locks'[r] = locks[r] \cup Tenant!Wants(r)
         /\ \A q \in Requests \ {r} : locks'[q] = locks[q]
  BY WantsRow DEF Tenant!TypeOK, Tenant!Write

LEMMA EndEffect ==
  ASSUME Tenant!TypeOK, NEW r \in Requests, Tenant!End(r)
  PROVE  /\ txn' \in [Requests -> {Tenant!Idle} \cup Tenant!Transaction]
         /\ locks' \in [Requests -> SUBSET Tenant!Row]
         /\ txn'[r].at = "idle" /\ locks'[r] = {}
         /\ \A q \in Requests \ {r} : txn'[q] = txn[q] /\ locks'[q] = locks[q]
  BY DEF Tenant!TypeOK, Tenant!End, Tenant!Idle

LEMMA BeginEffect ==
  ASSUME Tenant!TypeOK, NEW r \in Requests, NEW k \in Tenant!Kinds, NEW u \in Users,
         NEW o \in ClerkOrgs \cup {u}, Tenant!Begin(r, k, u, o)
  PROVE  /\ txn' \in [Requests -> {Tenant!Idle} \cup Tenant!Transaction]
         /\ txn[r].at = "idle" /\ txn'[r].at \in {"user", "org"} /\ txn'[r].saw = NoOrg
         /\ \A q \in Requests \ {r} : txn'[q] = txn[q]
  <1>1. PICK a \in {"user", "org"} :
            txn' = [txn EXCEPT ![r] = [at |-> a, kind |-> k, user |-> u, org |-> o, saw |-> NoOrg]]
    BY DEF Tenant!Begin
  <1>2. [at |-> a, kind |-> k, user |-> u, org |-> o, saw |-> NoOrg] \in Tenant!Transaction
    BY DEF Tenant!Transaction, Tenant!Orgs
  <1> QED
    BY <1>1, <1>2 DEF Tenant!TypeOK, Tenant!Begin, Tenant!Idle


LEMMA GetUserEffect ==
  ASSUME Tenant!TypeOK, NEW r \in Requests, Tenant!GetUser(r)
  PROVE  /\ txn' \in [Requests -> {Tenant!Idle} \cup Tenant!Transaction]
         /\ txn'[r].kind = txn[r].kind /\ txn'[r].user = txn[r].user
         /\ txn'[r].org = txn[r].org /\ txn'[r].saw = default[txn[r].user]
         /\ txn'[r].at = IF default[txn[r].user] = NoOrg THEN "default" ELSE "record"
         /\ \A q \in Requests \ {r} : txn'[q] = txn[q]
  <1> DEFINE saw1 == default[txn[r].user]
             at1  == IF saw1 = NoOrg THEN "default" ELSE "record"
  <1>1. txn[r] \in Tenant!Transaction
    BY TransactionFields DEF Tenant!GetUser
  <1>2. saw1 \in Tenant!Orgs \cup {NoOrg}
    BY <1>1 DEF Tenant!TypeOK, Tenant!Transaction
  <1>3. txn' = [txn EXCEPT ![r] = [txn[r] EXCEPT !.saw = saw1, !.at = at1]]
    BY DEF Tenant!TypeOK, Tenant!GetUser
  <1>4. [txn[r] EXCEPT !.saw = saw1, !.at = at1] \in Tenant!Transaction
    BY <1>1, <1>2 DEF Tenant!Transaction
  <1> QED
    BY <1>1, <1>3, <1>4 DEF Tenant!TypeOK, Tenant!Transaction


\* A step of one transaction leaves another as it is: the tables only grow, and a user
\* with a default organization keeps one.
LEMMA OthersKept ==
  ASSUME Tenant!TenantInv, NEW q \in Requests, txn'[q] = txn[q], locks'[q] = locks[q],
         users \subseteq users', orgs \subseteq orgs',
         \A u \in Users : default[u] # NoOrg => default'[u] # NoOrg
  PROVE  Tenant!Held(q)' /\ Tenant!Placed(q)'
  <1>1. Tenant!Held(q) /\ Tenant!Placed(q) /\ Tenant!TypeOK
    BY DEF Tenant!TenantInv
  <1>2. Tenant!Held(q)'
    BY <1>1 DEF Tenant!Held
  <1>3. txn[q].at # "idle" => txn[q].user \in Users
    BY <1>1, TransactionFields DEF Tenant!Transaction
  <1>4. Tenant!Placed(q)'
    BY <1>1, <1>3 DEF Tenant!Placed, Tenant!Upserted, Tenant!Known
  <1> QED
    BY <1>2, <1>4

LEMMA StatementKeeps ==
  ASSUME Tenant!TenantInv, NEW r \in Requests,
         \/ Tenant!UpsertUser(r) \/ Tenant!UpsertOrg(r) \/ Tenant!UpsertMembership(r)
         \/ Tenant!GetUser(r) \/ Tenant!SetDefault(r) \/ Tenant!InsertRecord(r)
  PROVE  Tenant!TenantInv'
  <1>1. Tenant!TypeOK /\ Tenant!OwnersPlaced /\ Tenant!Held(r) /\ Tenant!Placed(r)
    BY DEF Tenant!TenantInv
  <1>2. UNCHANGED Tenant!rows
    BY DEF Tenant!UpsertUser, Tenant!UpsertOrg, Tenant!UpsertMembership, Tenant!GetUser,
           Tenant!SetDefault, Tenant!InsertRecord
  <1>3. Tenant!OwnersPlaced'
    BY <1>1, <1>2 DEF Tenant!OwnersPlaced, Tenant!rows
  <1>4. SUFFICES /\ txn' \in [Requests -> {Tenant!Idle} \cup Tenant!Transaction]
                 /\ locks' \in [Requests -> SUBSET Tenant!Row]
                 /\ \A q \in Requests \ {r} : txn'[q] = txn[q] /\ locks'[q] = locks[q]
                 /\ Tenant!Held(r)' /\ Tenant!Placed(r)'
    <2>1. Tenant!TypeOK'
      BY <1>1, <1>2, <1>4 DEF Tenant!TypeOK, Tenant!rows
    <2>2. ASSUME NEW q \in Requests \ {r} PROVE Tenant!Held(q)' /\ Tenant!Placed(q)'
      BY <1>2, <1>4, OthersKept DEF Tenant!rows
    <2> QED
      BY <1>3, <1>4, <2>1, <2>2 DEF Tenant!TenantInv
  <1> USE <1>1, <1>2 DEF Tenant!rows
  <1>5. CASE Tenant!UpsertUser(r)
    <2>1. txn[r].at = "user" /\ Tenant!Write(r)
      BY <1>5 DEF Tenant!UpsertUser
    <2>2. PICK to \in {"commit", "org"} : Tenant!goto(r, to) /\ (to = "commit" => txn[r].kind = "message")
      BY <1>5 DEF Tenant!UpsertUser
    <2>3. Tenant!Held(r)'
      BY <2>1, <2>2, GotoEffect, WriteEffect DEF Tenant!Held, Tenant!Wants
    <2>4. Tenant!Placed(r)'
      BY <2>1, <2>2, GotoEffect, WriteEffect
      DEF Tenant!Placed, Tenant!Upserted, Tenant!Known, Tenant!Wants, Tenant!Personal
    <2> QED
      BY <2>1, <2>2, <2>3, <2>4, GotoEffect, WriteEffect DEF Tenant!TypeOK
  <1>6. CASE Tenant!UpsertOrg(r)
    <2>1. txn[r].at = "org" /\ Tenant!Write(r)
      BY <1>6 DEF Tenant!UpsertOrg
    <2>2. PICK to \in {"member"} : Tenant!goto(r, to) /\ (to = "commit" => txn[r].kind = "message")
      BY <1>6 DEF Tenant!UpsertOrg
    <2>3. Tenant!Held(r)'
      BY <2>1, <2>2, GotoEffect, WriteEffect DEF Tenant!Held, Tenant!Wants
    <2>4. Tenant!Placed(r)'
      BY <2>1, <2>2, GotoEffect, WriteEffect
      DEF Tenant!Placed, Tenant!Upserted, Tenant!Known, Tenant!Wants, Tenant!Personal
    <2> QED
      BY <2>1, <2>2, <2>3, <2>4, GotoEffect, WriteEffect DEF Tenant!TypeOK
  <1>7. CASE Tenant!UpsertMembership(r)
    <2>1. txn[r].at = "member" /\ Tenant!Known(r) /\ Tenant!Write(r)
      BY <1>7 DEF Tenant!UpsertMembership
    <2>2. PICK to \in {"read"} : Tenant!goto(r, to) /\ (to = "commit" => txn[r].kind = "message")
      BY <1>7 DEF Tenant!UpsertMembership
    <2>3. Tenant!Held(r)'
      BY <2>1, <2>2, GotoEffect, WriteEffect DEF Tenant!Held, Tenant!Wants
    <2>4. Tenant!Placed(r)'
      BY <2>1, <2>2, GotoEffect, WriteEffect
      DEF Tenant!Placed, Tenant!Upserted, Tenant!Known, Tenant!Wants, Tenant!Personal
    <2> QED
      BY <2>1, <2>2, <2>3, <2>4, GotoEffect, WriteEffect DEF Tenant!TypeOK
  <1>8. CASE Tenant!SetDefault(r)
    <2>1. txn[r].at = "default" /\ Tenant!Write(r)
      BY <1>8 DEF Tenant!SetDefault
    <2>2. PICK to \in {"record"} : Tenant!goto(r, to) /\ (to = "commit" => txn[r].kind = "message")
      BY <1>8 DEF Tenant!SetDefault
    <2>3. Tenant!Held(r)'
      BY <2>1, <2>2, GotoEffect, WriteEffect DEF Tenant!Held, Tenant!Wants
    <2>4. Tenant!Placed(r)'
      BY <2>1, <2>2, GotoEffect, WriteEffect
      DEF Tenant!Placed, Tenant!Upserted, Tenant!Known, Tenant!Wants, Tenant!Personal
    <2> QED
      BY <2>1, <2>2, <2>3, <2>4, GotoEffect, WriteEffect DEF Tenant!TypeOK
  <1>9. CASE Tenant!InsertRecord(r)
    <2>1. txn[r].at = "record" /\ UNCHANGED locks /\ Tenant!goto(r, "commit")
      BY <1>9 DEF Tenant!InsertRecord
    <2>2. Tenant!Held(r)' /\ Tenant!Placed(r)'
      BY <2>1, GotoEffect DEF Tenant!Held, Tenant!Placed, Tenant!Upserted, Tenant!Known
    <2> QED
      BY <2>1, <2>2, GotoEffect DEF Tenant!TypeOK
  <1>10. CASE Tenant!GetUser(r)
    <2>1. txn[r].at = "read" /\ UNCHANGED locks
      BY <1>10 DEF Tenant!GetUser
    <2>2. Tenant!Held(r)' /\ Tenant!Placed(r)'
      BY <1>10, <2>1, GetUserEffect DEF Tenant!Held, Tenant!Placed, Tenant!Upserted, Tenant!Known
    <2> QED
      BY <1>10, <2>1, <2>2, GetUserEffect DEF Tenant!TypeOK
  <1> QED
    BY <1>5, <1>6, <1>7, <1>8, <1>9, <1>10

\* A request that is over, by a commit or a rollback, holds nothing.
LEMMA EndKeeps ==
  ASSUME Tenant!TenantInv, NEW r \in Requests, Tenant!End(r),
         users \subseteq users', orgs \subseteq orgs',
         \A u \in Users : default[u] # NoOrg => default'[u] # NoOrg
  PROVE  \A q \in Requests : Tenant!Held(q)' /\ Tenant!Placed(q)'
  <1>1. Tenant!Held(r)' /\ Tenant!Placed(r)'
    BY EndEffect DEF Tenant!TenantInv, Tenant!Held, Tenant!Placed, Tenant!Upserted
  <1>2. ASSUME NEW q \in Requests \ {r} PROVE Tenant!Held(q)' /\ Tenant!Placed(q)'
    BY EndEffect, OthersKept DEF Tenant!TenantInv
  <1> QED
    BY <1>1, <1>2

LEMMA AbortKeeps ==
  ASSUME Tenant!TenantInv, NEW r \in Requests, Tenant!Abort(r)
  PROVE  Tenant!TenantInv'
  <1>1. Tenant!End(r) /\ UNCHANGED Tenant!rows
    BY DEF Tenant!Abort
  <1>2. Tenant!TypeOK /\ Tenant!OwnersPlaced
    BY DEF Tenant!TenantInv
  <1>3. Tenant!TypeOK' /\ Tenant!OwnersPlaced'
    BY <1>1, <1>2, EndEffect DEF Tenant!TypeOK, Tenant!OwnersPlaced, Tenant!rows
  <1> QED
    BY <1>1, <1>3, EndKeeps DEF Tenant!TenantInv, Tenant!rows

LEMMA BeginKeeps ==
  ASSUME Tenant!TenantInv, NEW r \in Requests, NEW k \in Tenant!Kinds, NEW u \in Users,
         NEW o \in ClerkOrgs \cup {u}, Tenant!Begin(r, k, u, o)
  PROVE  Tenant!TenantInv'
  <1>1. Tenant!TypeOK /\ Tenant!OwnersPlaced /\ Tenant!Held(r)
    BY DEF Tenant!TenantInv
  <1>2. UNCHANGED <<Tenant!rows, locks>>
    BY DEF Tenant!Begin
  <1>3. Tenant!TypeOK' /\ Tenant!OwnersPlaced'
    BY <1>1, <1>2, BeginEffect DEF Tenant!TypeOK, Tenant!OwnersPlaced, Tenant!rows
  <1>4. Tenant!Held(r)' /\ Tenant!Placed(r)'
    BY <1>1, <1>2, BeginEffect DEF Tenant!Held, Tenant!Placed, Tenant!Upserted
  <1>5. ASSUME NEW q \in Requests \ {r} PROVE Tenant!Held(q)' /\ Tenant!Placed(q)'
    BY <1>1, <1>2, BeginEffect, OthersKept DEF Tenant!rows
  <1> QED
    BY <1>3, <1>4, <1>5 DEF Tenant!TenantInv

\* What a request records lies on rows that it found or commits with the record.
LEMMA CommitKeeps ==
  ASSUME Tenant!TenantInv, NEW r \in Requests, Tenant!Commit(r)
  PROVE  Tenant!TenantInv'
  <1> DEFINE t == txn[r]
  <1>1. Tenant!TypeOK /\ Tenant!OwnersPlaced /\ Tenant!Held(r) /\ Tenant!Placed(r)
    BY DEF Tenant!TenantInv
  <1>2. t.at = "commit" /\ t \in Tenant!Transaction
    BY <1>1, TransactionFields DEF Tenant!Commit
  <1>3. /\ users' = users \cup {u \in Users : <<"user", u>> \in locks[r]}
        /\ orgs' = orgs \cup {o \in Tenant!Orgs : <<"org", o>> \in locks[r]}
        /\ members' = members \cup {m \in Tenant!Orgs \X Users :
                                       <<"member", m[1], m[2]>> \in locks[r]}
        /\ default' = IF t.kind # "message" /\ t.saw = NoOrg
                      THEN [default EXCEPT ![t.user] = t.org] ELSE default
        /\ records' = records \cup (IF t.kind = "record" THEN {<<t.org, t.user>>} ELSE {})
        /\ Tenant!End(r)
    BY DEF Tenant!Commit
  <1>4. t.user \in Users /\ t.org \in Tenant!Orgs /\ t.org # NoOrg
    BY <1>2, TenantAssumption DEF Tenant!Transaction, Tenant!Orgs
  <1>5. /\ default' \in [Users -> Tenant!Orgs \cup {NoOrg}]
        /\ \A u \in Users : default[u] # NoOrg => default'[u] # NoOrg
        /\ t.kind # "message" => default'[t.user] # NoOrg
    BY <1>1, <1>2, <1>3, <1>4 DEF Tenant!TypeOK, Tenant!Placed
  <1>6. /\ users \subseteq users' /\ users' \subseteq Users
        /\ orgs \subseteq orgs' /\ orgs' \subseteq Tenant!Orgs
        /\ members \subseteq members' /\ members' \subseteq Tenant!Orgs \X Users
    BY <1>1, <1>3 DEF Tenant!TypeOK
  <1>7. records' \subseteq Tenant!Orgs \X Users
    BY <1>1, <1>3, <1>4 DEF Tenant!TypeOK
  <1>8. t.kind # "message" => t.user \in users' /\ t.org \in orgs' /\ <<t.org, t.user>> \in members'
    <2>1. t.kind # "message" => t.user \in users' /\ t.org \in orgs'
      BY <1>1, <1>2, <1>3, <1>4 DEF Tenant!Placed, Tenant!Upserted, Tenant!Known
    <2>2. t.kind # "message" => <<"member", t.org, t.user>> \in locks[r]
      BY <1>1, <1>2 DEF Tenant!Placed, Tenant!Upserted
    <2> QED
      BY <1>3, <1>4, <2>1, <2>2
  <1>9. Tenant!OwnersPlaced'
    <2> SUFFICES ASSUME NEW o \in Tenant!Orgs, NEW u \in Users, <<o, u>> \in records'
                 PROVE  u \in users' /\ o \in orgs' /\ <<o, u>> \in members' /\ default'[u] # NoOrg
      BY DEF Tenant!OwnersPlaced, Tenant!Orgs
    <2>1. CASE <<o, u>> \in records
      BY <1>1, <1>5, <1>6, <2>1 DEF Tenant!OwnersPlaced
    <2>2. CASE t.kind = "record" /\ o = t.org /\ u = t.user
      BY <1>5, <1>8, <2>2
    <2> QED
      BY <1>3, <2>1, <2>2
  <1>10. Tenant!TypeOK'
    BY <1>3, <1>5, <1>6, <1>7, <1>1, EndEffect DEF Tenant!TypeOK
  <1> QED
    BY <1>3, <1>5, <1>6, <1>9, <1>10, EndKeeps DEF Tenant!TenantInv

LEMMA TenantInvStep == Tenant!TenantInv /\ [Tenant!Next]_tenantVars => Tenant!TenantInv'
  <1> SUFFICES ASSUME Tenant!TenantInv, [Tenant!Next]_tenantVars PROVE Tenant!TenantInv'
    OBVIOUS
  <1>1. CASE UNCHANGED tenantVars
    BY <1>1 DEF tenantVars, Tenant!TenantInv, Tenant!TypeOK, Tenant!OwnersPlaced, Tenant!Held,
                Tenant!Placed, Tenant!Upserted, Tenant!Known
  <1>2. ASSUME NEW r \in Requests, Tenant!RejectUnknown(r) \/ Tenant!Abort(r) \/ Tenant!BreakDeadlock(r)
        PROVE  Tenant!TenantInv'
    BY <1>2, AbortKeeps DEF Tenant!RejectUnknown, Tenant!BreakDeadlock
  <1>3. ASSUME NEW r \in Requests, Tenant!Statement(r) PROVE Tenant!TenantInv'
    BY <1>2, <1>3, StatementKeeps, CommitKeeps DEF Tenant!Statement
  <1> QED
    BY <1>1, <1>2, <1>3, BeginKeeps DEF Tenant!Next

\* The argument for the deadlocks: whoever waits in a ring also holds what another
\* member waits for.  A request at its user holds nothing; one at its organization
\* holds its user's row alone, and who waits for that row is at the default
\* organization, or holds nothing; one at its membership waits for a row that only a
\* request of the same user past it holds, and that one waits at the default organization.
LEMMA RingPassesDefault ==
  ASSUME Tenant!TenantInv PROVE Tenant!DeadlockNeedsFirstLogin
  <1> SUFFICES ASSUME NEW r \in Requests, NEW S \in SUBSET Requests, r \in S,
                      \A q \in S : /\ \E p \in S : Tenant!WaitsFor(q, p)
                                   /\ \E p \in S : Tenant!WaitsFor(p, q)
               PROVE  \E q \in Requests : /\ txn[q].at = "default" /\ txn[q].saw = NoOrg
                                          /\ txn[q].user = txn[r].user
    BY DEF Tenant!DeadlockNeedsFirstLogin, Tenant!Deadlocked
  <1>1. \A q \in Requests : Tenant!Held(q) /\ Tenant!Placed(q)
    BY DEF Tenant!TenantInv
  <1>2. ASSUME NEW q \in S PROVE txn[q].at \in {"org", "member", "default"}
    <2>1. Tenant!Wants(q) # {}
      BY DEF Tenant!WaitsFor
    <2>2. locks[q] # {}
      BY DEF Tenant!WaitsFor
    <2>3. txn[q].at # "user"
      BY <1>1, <2>2, S \in SUBSET Requests DEF Tenant!Held
    <2> QED
      BY <2>1, <2>3 DEF Tenant!Wants
  <1>3. ASSUME NEW p \in S, NEW q \in Requests, <<"user", txn[q].user>> \in Tenant!Wants(p)
        PROVE  txn[p].at = "default" /\ txn[p].saw = NoOrg /\ txn[p].user = txn[q].user
    <2>1. txn[p].at = "default" /\ txn[p].user = txn[q].user
      BY <1>2, <1>3 DEF Tenant!Wants
    <2> QED
      BY <1>1, <2>1 DEF Tenant!Placed
  <1>4. CASE txn[r].at = "default"
    BY <1>1, <1>4 DEF Tenant!Placed
  <1>5. CASE txn[r].at = "org"
    <2>1. PICK p \in S : Tenant!Wants(p) \cap locks[r] # {}
      BY DEF Tenant!WaitsFor
    <2>2. <<"user", txn[r].user>> \in Tenant!Wants(p)
      BY <1>1, <1>5, <2>1 DEF Tenant!Held
    <2> QED
      BY <1>3, <2>2
  <1>6. CASE txn[r].at = "member"
    <2>1. Tenant!Wants(r) \subseteq {<<"member", txn[r].org, txn[r].user>>}
      BY <1>6 DEF Tenant!Wants
    <2>2. PICK p \in S : <<"member", txn[r].org, txn[r].user>> \in locks[p]
      BY <2>1 DEF Tenant!WaitsFor
    <2>3. txn[p].at = "default" /\ txn[p].user = txn[r].user
      BY <1>1, <1>2, <2>2 DEF Tenant!Held
    <2> QED
      BY <1>1, <2>3 DEF Tenant!Placed
  <1> QED
    BY <1>2, <1>4, <1>5, <1>6

LEMMA TenantInvariant == Init /\ [][Next]_vars => []Tenant!TenantInv
  <1>1. Init => Tenant!TenantInv
    BY DEF Init, Tenant!Init, Tenant!TenantInv, Tenant!TypeOK, Tenant!OwnersPlaced, Tenant!Held,
           Tenant!Placed, Tenant!Upserted, Tenant!Idle
  <1>2. [Next]_vars => [Tenant!Next]_tenantVars
    BY DEF Next, vars, Still, ChatStep, TenantStep, LaunchStep, SolveStep, SiteStep, FlaskStep, RemoteStep
  <1> QED
    BY <1>1, <1>2, TenantInvStep, PTL

\* A record never lies on missing rows, whatever transactions are aborted; and only a
\* first login can deadlock, with itself: for all numbers of users, organizations and
\* requests (resolve_tenant_context and the repositories it writes through).
THEOREM LoginsSound == Spec => []LoginSound
  <1>1. Tenant!TenantInv => LoginSound
    BY RingPassesDefault DEF LoginSound, Tenant!LoginSound, Tenant!TenantInv
  <1> QED
    BY <1>1, TenantInvariant, PTL DEF Spec

-----------------------------------------------------------------------------
(* Launcher                                                                *)

\* The launcher starts at least one service and at most three.
LEMMA PlanShape ==
  ASSUME Launch!TypeOK
  PROVE  Len(Launch!Plan) \in 1..3 /\ \A i \in 1..Len(Launch!Plan) : Launch!Plan[i] \in Launch!Services
  <1> DEFINE a == IF args.phoenix THEN <<"phoenix">> ELSE <<>>
             b == IF args.mode # "server_only" THEN <<Launch!Client>> ELSE <<>>
             c == IF args.mode # "client_only" THEN <<"server">> ELSE <<>>
  <1>1. {"phoenix", "server", Launch!Client} \subseteq Launch!Services
    BY DEF Launch!Client, Launch!Services
  <1>2. a \in Seq(Launch!Services) /\ Len(a) \in 0..1
    BY <1>1
  <1>3. b \in Seq(Launch!Services) /\ Len(b) \in 0..1 /\ (args.mode # "server_only" => Len(b) = 1)
    BY <1>1
  <1>4. c \in Seq(Launch!Services) /\ Len(c) \in 0..1 /\ (args.mode # "client_only" => Len(c) = 1)
    BY <1>1
  <1>5. Launch!Plan = a \o b \o c
    BY DEF Launch!Plan
  <1> HIDE DEF a, b, c
  <1>6. Launch!Plan \in Seq(Launch!Services) /\ Len(Launch!Plan) = Len(a) + Len(b) + Len(c)
    BY <1>2, <1>3, <1>4, <1>5
  <1>7. Len(Launch!Plan) \in 1..3
    <2>1. args.mode # "server_only" \/ args.mode # "client_only"
      OBVIOUS
    <2>2. Len(b) = 1 \/ Len(c) = 1
      BY <1>3, <1>4, <2>1
    <2>3. \A x, y, z \in 0..1 : y = 1 \/ z = 1 => x + y + z \in 1..3
      OBVIOUS
    <2> QED
      BY <1>2, <1>3, <1>4, <1>6, <2>2, <2>3, Zenon
  <1>8. \A i \in 1..Len(Launch!Plan) : Launch!Plan[i] \in Launch!Services
    BY <1>6, ElementOfSeq
  <1> QED
    BY <1>7, <1>8

LEMMA StopOrderShape ==
  /\ \A i \in 1..4 : Launch!StopOrder[i] \in Launch!Services
  /\ \A i \in 1..3 : Launch!WaitOrder[i] \in Launch!Services
  /\ \A p \in Launch!Services \ {"phoenix"} : \E i \in 1..3 : Launch!WaitOrder[i] = p
  /\ \A i, j \in 1..4 : Launch!StopOrder[i] = Launch!StopOrder[j] => i = j
  BY DEF Launch!StopOrder, Launch!WaitOrder, Launch!Services

\* The plan does not change after the command line is read.
LEMMA PlanStays == args' = args => Launch!Plan' = Launch!Plan
  BY DEF Launch!Plan, Launch!Client

LEMMA LaunchTypes == Launch!LaunchInv /\ [Launch!Next]_launcherVars => Launch!TypeOK'
  <1> SUFFICES ASSUME Launch!TypeOK, Launch!PlanInv, [Launch!Next]_launcherVars PROVE Launch!TypeOK'
    BY DEF Launch!LaunchInv
  <1> USE DEF Launch!TypeOK
  <1> USE DEF Launch!PlanInv
  <1>1. CASE Launch!CheckPorts
    BY <1>1, PlanShape DEF Launch!CheckPorts, Launch!Main
  <1>2. CASE Launch!KillOnPorts
    BY <1>2, PlanShape DEF Launch!KillOnPorts, Launch!Main
  <1>3. CASE Launch!Refuse
    BY <1>3 DEF Launch!Refuse, Launch!Main
  <1>4. CASE Launch!SkipPhoenix
    BY <1>4, PlanShape DEF Launch!SkipPhoenix, Launch!Advance, Launch!Main
  <1>5. CASE Launch!Popen
    BY <1>5, PlanShape DEF Launch!Popen, Launch!Main
  <1>6. CASE Launch!StartFails
    BY <1>6, PlanShape DEF Launch!StartFails, Launch!Advance, Launch!Main
  <1>7. CASE Launch!Record
    BY <1>7, PlanShape DEF Launch!Record, Launch!Advance, Launch!Main
  <1>8. CASE Launch!Settle
    BY <1>8, PlanShape DEF Launch!Settle, Launch!Advance, Launch!Main
  <1>9. CASE Launch!Wait
    BY <1>9 DEF Launch!Wait, Launch!Main
  <1>10. CASE Launch!Finish
    BY <1>10 DEF Launch!Finish, Launch!Main
  <1>11. CASE Launch!StopNext
    BY <1>11 DEF Launch!StopNext
  <1>12. CASE Launch!Exit
    BY <1>12 DEF Launch!Exit
  <1>13. CASE Launch!Signal
    BY <1>13, BoundsAssumption DEF Launch!Signal
  <1>14. ASSUME NEW p \in Launch!Services, Launch!ChildExits(p) PROVE Launch!TypeOK'
    BY <1>14 DEF Launch!ChildExits
  <1>15. CASE UNCHANGED launcherVars
    BY <1>15 DEF launcherVars
  <1> QED
    BY <1>1, <1>2, <1>3, <1>4, <1>5, <1>6, <1>7, <1>8, <1>9, <1>10, <1>11, <1>12, <1>13, <1>14, <1>15 DEF Launch!Next, Launch!Body, Launch!Handler

LEMMA LaunchPlan == Launch!LaunchInv /\ [Launch!Next]_launcherVars => Launch!PlanInv'
  <1> SUFFICES ASSUME Launch!TypeOK, Launch!PlanInv, [Launch!Next]_launcherVars PROVE Launch!PlanInv'
    BY DEF Launch!LaunchInv
  <1>0. 1 <= Len(Launch!Plan)
    BY PlanShape
  <1> USE DEF Launch!TypeOK, Launch!PlanInv
  <1>1. CASE Launch!CheckPorts
    BY <1>0, <1>1, PlanStays DEF Launch!CheckPorts, Launch!Main
  <1>2. CASE Launch!KillOnPorts
    BY <1>0, <1>2, PlanStays DEF Launch!KillOnPorts, Launch!Main
  <1>3. CASE Launch!Refuse
    BY <1>3, PlanShape, PlanStays DEF Launch!Refuse, Launch!Main
  <1>4. CASE Launch!SkipPhoenix
    BY <1>4, PlanShape, PlanStays DEF Launch!SkipPhoenix, Launch!Advance, Launch!Main
  <1>5. CASE Launch!Popen
    BY <1>5, PlanShape, PlanStays DEF Launch!Popen, Launch!Main
  <1>6. CASE Launch!StartFails
    BY <1>6, PlanShape, PlanStays DEF Launch!StartFails, Launch!Advance, Launch!Main
  <1>7. CASE Launch!Record
    BY <1>7, PlanShape, PlanStays DEF Launch!Record, Launch!Advance, Launch!Main
  <1>8. CASE Launch!Settle
    BY <1>8, PlanShape, PlanStays DEF Launch!Settle, Launch!Advance, Launch!Main
  <1>9. CASE Launch!Wait
    BY <1>9, PlanShape, PlanStays DEF Launch!Wait, Launch!Main
  <1>10. CASE Launch!Finish
    BY <1>10, PlanShape, PlanStays DEF Launch!Finish, Launch!Main
  <1>11. CASE Launch!StopNext
    BY <1>11, PlanShape, PlanStays DEF Launch!StopNext
  <1>12. CASE Launch!Exit
    BY <1>12, PlanShape, PlanStays DEF Launch!Exit
  <1>13. CASE Launch!Signal
    BY <1>13, PlanShape, PlanStays DEF Launch!Signal
  <1>14. ASSUME NEW p \in Launch!Services, Launch!ChildExits(p) PROVE Launch!PlanInv'
    BY <1>14, PlanStays DEF Launch!ChildExits
  <1>15. CASE UNCHANGED launcherVars
    BY <1>15, PlanStays DEF launcherVars
  <1> QED
    BY <1>1, <1>2, <1>3, <1>4, <1>5, <1>6, <1>7, <1>8, <1>9, <1>10, <1>11, <1>12, <1>13, <1>14, <1>15 DEF Launch!Next, Launch!Body, Launch!Handler

LEMMA LaunchPassed == Launch!LaunchInv /\ [Launch!Next]_launcherVars => Launch!PassedInv'
  <1> SUFFICES ASSUME Launch!TypeOK, Launch!PassedInv, [Launch!Next]_launcherVars PROVE Launch!PassedInv'
    BY DEF Launch!LaunchInv
  <1> USE DEF Launch!TypeOK, Launch!PassedInv, Launch!Over
  <1> USE StopOrderShape
  <1>1. CASE Launch!CheckPorts
    BY <1>1 DEF Launch!CheckPorts, Launch!Main
  <1>2. CASE Launch!KillOnPorts
    BY <1>2 DEF Launch!KillOnPorts, Launch!Main
  <1>3. CASE Launch!Refuse
    BY <1>3 DEF Launch!Refuse, Launch!Main
  <1>4. CASE Launch!SkipPhoenix
    BY <1>4 DEF Launch!SkipPhoenix, Launch!Advance, Launch!Main
  <1>5. CASE Launch!Popen
    BY <1>5 DEF Launch!Popen, Launch!Main
  <1>6. CASE Launch!StartFails
    BY <1>6 DEF Launch!StartFails, Launch!Advance, Launch!Main
  <1>7. CASE Launch!Record
    BY <1>7 DEF Launch!Record, Launch!Advance, Launch!Main
  <1>8. CASE Launch!Settle
    BY <1>8 DEF Launch!Settle, Launch!Advance, Launch!Main
  <1>9. CASE Launch!Wait
    BY <1>9 DEF Launch!Wait, Launch!Main
  <1>10. CASE Launch!Finish
    BY <1>10 DEF Launch!Finish, Launch!Main
  <1>11. CASE Launch!StopNext
    BY <1>11 DEF Launch!StopNext
  <1>12. CASE Launch!Exit
    BY <1>12 DEF Launch!Exit
  <1>13. CASE Launch!Signal
    BY <1>13 DEF Launch!Signal
  <1>14. ASSUME NEW p \in Launch!Services, Launch!ChildExits(p) PROVE Launch!PassedInv'
    BY <1>14 DEF Launch!ChildExits
  <1>15. CASE UNCHANGED launcherVars
    BY <1>15 DEF launcherVars
  <1> QED
    BY <1>1, <1>2, <1>3, <1>4, <1>5, <1>6, <1>7, <1>8, <1>9, <1>10, <1>11, <1>12, <1>13, <1>14, <1>15 DEF Launch!Next, Launch!Body, Launch!Handler

LEMMA LaunchWaited == Launch!LaunchInv /\ [Launch!Next]_launcherVars => Launch!WaitedInv'
  <1> SUFFICES ASSUME Launch!TypeOK, Launch!WaitedInv, [Launch!Next]_launcherVars PROVE Launch!WaitedInv'
    BY DEF Launch!LaunchInv
  <1> USE DEF Launch!TypeOK, Launch!WaitedInv
  <1> USE StopOrderShape
  <1>1. CASE Launch!CheckPorts
    BY <1>1 DEF Launch!CheckPorts, Launch!Main
  <1>2. CASE Launch!KillOnPorts
    BY <1>2 DEF Launch!KillOnPorts, Launch!Main
  <1>3. CASE Launch!Refuse
    BY <1>3 DEF Launch!Refuse, Launch!Main
  <1>4. CASE Launch!SkipPhoenix
    BY <1>4 DEF Launch!SkipPhoenix, Launch!Advance, Launch!Main
  <1>5. CASE Launch!Popen
    BY <1>5 DEF Launch!Popen, Launch!Main
  <1>6. CASE Launch!StartFails
    BY <1>6 DEF Launch!StartFails, Launch!Advance, Launch!Main
  <1>7. CASE Launch!Record
    BY <1>7 DEF Launch!Record, Launch!Advance, Launch!Main
  <1>8. CASE Launch!Settle
    BY <1>8 DEF Launch!Settle, Launch!Advance, Launch!Main
  <1>9. CASE Launch!Wait
    BY <1>9 DEF Launch!Wait, Launch!Main
  <1>10. CASE Launch!Finish
    BY <1>10 DEF Launch!Finish, Launch!Main
  <1>11. CASE Launch!StopNext
    BY <1>11 DEF Launch!StopNext
  <1>12. CASE Launch!Exit
    BY <1>12 DEF Launch!Exit
  <1>13. CASE Launch!Signal
    BY <1>13 DEF Launch!Signal
  <1>14. ASSUME NEW p \in Launch!Services, Launch!ChildExits(p) PROVE Launch!WaitedInv'
    BY <1>14 DEF Launch!ChildExits
  <1>15. CASE UNCHANGED launcherVars
    BY <1>15 DEF launcherVars
  <1> QED
    BY <1>1, <1>2, <1>3, <1>4, <1>5, <1>6, <1>7, <1>8, <1>9, <1>10, <1>11, <1>12, <1>13, <1>14, <1>15 DEF Launch!Next, Launch!Body, Launch!Handler

LEMMA LaunchRecorded == Launch!LaunchInv /\ [Launch!Next]_launcherVars => Launch!RecordedInv'
  <1> SUFFICES ASSUME Launch!TypeOK, Launch!PlanInv, Launch!RecordedInv, [Launch!Next]_launcherVars
               PROVE  Launch!RecordedInv'
    BY DEF Launch!LaunchInv
  <1> USE DEF Launch!TypeOK, Launch!PlanInv, Launch!RecordedInv, Launch!Earlier
  <1>1. CASE Launch!CheckPorts
    BY PlanStays, <1>1 DEF Launch!CheckPorts, Launch!Main
  <1>2. CASE Launch!KillOnPorts
    BY PlanStays, <1>2 DEF Launch!KillOnPorts, Launch!Main
  <1>3. CASE Launch!Refuse
    BY PlanStays, <1>3 DEF Launch!Refuse, Launch!Main
  <1>4. CASE Launch!SkipPhoenix
    BY PlanStays, <1>4 DEF Launch!SkipPhoenix, Launch!Advance, Launch!Main
  <1>5. CASE Launch!Popen
    BY PlanStays, <1>5 DEF Launch!Popen, Launch!Main
  <1>6. CASE Launch!StartFails
    BY PlanStays, <1>6 DEF Launch!StartFails, Launch!Advance, Launch!Main
  <1>7. CASE Launch!Record
    BY PlanStays, <1>7 DEF Launch!Record, Launch!Advance, Launch!Main
  <1>8. CASE Launch!Settle
    BY PlanStays, <1>8 DEF Launch!Settle, Launch!Advance, Launch!Main
  <1>9. CASE Launch!Wait
    BY PlanStays, <1>9 DEF Launch!Wait, Launch!Main
  <1>10. CASE Launch!Finish
    BY PlanStays, <1>10 DEF Launch!Finish, Launch!Main
  <1>11. CASE Launch!StopNext
    BY PlanStays, <1>11 DEF Launch!StopNext
  <1>12. CASE Launch!Exit
    BY PlanStays, <1>12 DEF Launch!Exit
  <1>13. CASE Launch!Signal
    BY PlanStays, <1>13 DEF Launch!Signal
  <1>14. ASSUME NEW p \in Launch!Services, Launch!ChildExits(p) PROVE Launch!RecordedInv'
    BY PlanStays, <1>14 DEF Launch!ChildExits
  <1>15. CASE UNCHANGED launcherVars
    BY PlanStays, <1>15 DEF launcherVars
  <1> QED
    BY <1>1, <1>2, <1>3, <1>4, <1>5, <1>6, <1>7, <1>8, <1>9, <1>10, <1>11, <1>12, <1>13, <1>14, <1>15 DEF Launch!Next, Launch!Body, Launch!Handler

LEMMA LaunchLeaves == Launch!LaunchInv /\ [Launch!Next]_launcherVars => Launch!LeavesRunning'
  <1> SUFFICES ASSUME Launch!TypeOK, Launch!PlanInv, Launch!PassedInv, Launch!WaitedInv,
                      Launch!RecordedInv, Launch!LeavesRunning, [Launch!Next]_launcherVars
               PROVE  Launch!LeavesRunning'
    BY DEF Launch!LaunchInv
  <1> USE DEF Launch!TypeOK, Launch!LeavesRunning
  <1> USE StopOrderShape DEF Launch!PassedInv, Launch!WaitedInv, Launch!RecordedInv, Launch!Earlier, Launch!Over
  <1>1. CASE Launch!CheckPorts
    BY PlanShape, PlanStays, <1>1 DEF Launch!CheckPorts, Launch!Main
  <1>2. CASE Launch!KillOnPorts
    BY PlanShape, PlanStays, <1>2 DEF Launch!KillOnPorts, Launch!Main
  <1>3. CASE Launch!Refuse
    BY PlanShape, PlanStays, <1>3 DEF Launch!Refuse, Launch!Main
  <1>4. CASE Launch!SkipPhoenix
    BY PlanShape, PlanStays, <1>4 DEF Launch!SkipPhoenix, Launch!Advance, Launch!Main
  <1>5. CASE Launch!Popen
    BY PlanShape, PlanStays, <1>5 DEF Launch!Popen, Launch!Main
  <1>6. CASE Launch!StartFails
    BY PlanShape, PlanStays, <1>6 DEF Launch!StartFails, Launch!Advance, Launch!Main
  <1>7. CASE Launch!Record
    BY PlanShape, PlanStays, <1>7 DEF Launch!Record, Launch!Advance, Launch!Main
  <1>8. CASE Launch!Settle
    BY PlanShape, PlanStays, <1>8 DEF Launch!Settle, Launch!Advance, Launch!Main
  <1>9. CASE Launch!Wait
    BY PlanShape, PlanStays, <1>9 DEF Launch!Wait, Launch!Main
  <1>10. CASE Launch!Finish
    BY PlanShape, PlanStays, <1>10 DEF Launch!Finish, Launch!Main
  <1>11. CASE Launch!StopNext
    BY PlanShape, PlanStays, <1>11 DEF Launch!StopNext
  <1>12. CASE Launch!Exit
    BY PlanShape, PlanStays, <1>12 DEF Launch!Exit
  <1>13. CASE Launch!Signal
    BY PlanShape, PlanStays, <1>13 DEF Launch!Signal
  <1>14. ASSUME NEW p \in Launch!Services, Launch!ChildExits(p) PROVE Launch!LeavesRunning'
    BY PlanShape, PlanStays, <1>14 DEF Launch!ChildExits
  <1>15. CASE UNCHANGED launcherVars
    BY PlanShape, PlanStays, <1>15 DEF launcherVars
  <1> QED
    BY <1>1, <1>2, <1>3, <1>4, <1>5, <1>6, <1>7, <1>8, <1>9, <1>10, <1>11, <1>12, <1>13, <1>14, <1>15 DEF Launch!Next, Launch!Body, Launch!Handler

LEMMA LaunchInvariant == Init /\ [][Next]_vars => []Launch!LaunchInv
  <1>1. Init => Launch!LaunchInv
    BY BoundsAssumption
    DEF Init, Launch!Init, Launch!LaunchInv, Launch!TypeOK, Launch!PlanInv, Launch!PassedInv,
        Launch!WaitedInv, Launch!RecordedInv, Launch!LeavesRunning, Launch!Over
  <1>2. Launch!LaunchInv /\ [Launch!Next]_launcherVars => Launch!LaunchInv'
    BY LaunchTypes, LaunchPlan, LaunchPassed, LaunchWaited, LaunchRecorded, LaunchLeaves DEF Launch!LaunchInv
  <1>3. [Next]_vars => [Launch!Next]_launcherVars
    BY DEF Next, vars, Still, ChatStep, TenantStep, LaunchStep, SolveStep, SiteStep, FlaskStep, RemoteStep
  <1> QED
    BY <1>1, <1>2, <1>3, PTL

\* However the launcher ends, whenever signals come and services exit or cannot be
\* started: the recorded services it leaves running are those the handler did not reach,
\* those before one that could not be started, and Phoenix; and of the others at most the
\* one that was being started runs (signal_handler, conditional_start_servers, run).
THEOREM LeavesNothingRunning == Spec => []LeavesRunning
  <1>1. Launch!LaunchInv => LeavesRunning
    BY DEF LeavesRunning, Launch!LaunchInv
  <1> QED
    BY <1>1, LaunchInvariant, PTL DEF Spec

-----------------------------------------------------------------------------
(* Solver                                                                  *)

\* Some of a set of numbers is the smallest: the ranges 0..m up to them are ordered by inclusion,
\* which is well founded.
LEMMA SmallestOf ==
  ASSUME NEW S \in SUBSET Nat, S # {}
  PROVE  \E m \in S : \A i \in S : m <= i
  <1> DEFINE initial == {0..m : m \in S}
  <1>1. initial \subseteq FiniteSubsetsOf(Nat) /\ initial # {}
    <2>1. ASSUME NEW m \in S PROVE 0..m \in SUBSET Nat /\ IsFiniteSet(0..m)
      <3>1. m \in Int /\ 0 \in Int
        OBVIOUS
      <3> QED
        BY <3>1, FS_Interval, SMT
    <2> QED
      BY <2>1 DEF FiniteSubsetsOf
  <1>2. IsWellFoundedOn(StrictSubsetOrdering(Nat), FiniteSubsetsOf(Nat))
    BY FS_StrictSubsetOrderingWellFounded
  <1> HIDE DEF initial
  <1>3. PICK x \in initial : \A y \in initial : ~(<<y, x>> \in StrictSubsetOrdering(Nat))
    BY <1>1, <1>2, WFMin
  <1>4. PICK m \in S : x = 0..m
    BY DEF initial
  <1>5. ASSUME NEW i \in S, i < m PROVE FALSE
    <2>1. 0..i \in initial
      BY DEF initial
    <2>2. 0..i \subseteq 0..m /\ 0..i # 0..m /\ 0..i \subseteq Nat /\ 0..m \subseteq Nat
      <3>1. m \in 0..m /\ m \notin 0..i
        BY <1>5
      <3> QED
        BY <1>5, <3>1
    <2>3. <<0..i, 0..m>> \in StrictSubsetOrdering(Nat)
      BY <2>2 DEF StrictSubsetOrdering
    <2> QED
      BY <1>3, <1>4, <2>1, <2>3
  <1> QED
    BY <1>5

\* And some is the greatest, if they are bounded.
LEMMA GreatestOf ==
  ASSUME NEW S \in SUBSET Nat, S # {}, NEW n \in Nat, \A i \in S : i <= n
  PROVE  \E m \in S : \A i \in S : i <= m
  <1> DEFINE below == {n - i : i \in S}
  <1>1. below \in SUBSET Nat /\ below # {}
    <2>1. ASSUME NEW i \in S PROVE n - i \in Nat
      OBVIOUS
    <2> QED
      BY <2>1
  <1> HIDE DEF below
  <1>2. PICK d \in below : \A e \in below : d <= e
    BY <1>1, SmallestOf
  <1>3. PICK m \in S : d = n - m
    BY DEF below
  <1>4. ASSUME NEW i \in S PROVE i <= m
    <2>1. n - i \in below
      BY DEF below
    <2> QED
      BY <1>2, <1>3, <2>1
  <1> QED
    BY <1>4

\* A path is a sequence of at most so many choices.
LEMMA PathIsSeq ==
  ASSUME NEW p \in Solve!Paths
  PROVE  p \in Seq({0, 1}) /\ Len(p) \in 0..MaxDepth
  <1>1. PICK d \in 0..MaxDepth : p \in [1..d -> {0, 1}]
    BY DEF Solve!Paths
  <1>2. d \in Nat
    BY <1>1
  <1> QED
    BY <1>1, <1>2

LEMMA SeqIsPath ==
  ASSUME NEW p \in Seq({0, 1}), Len(p) <= MaxDepth
  PROVE  p \in Solve!Paths
  <1>1. p \in [1..Len(p) -> {0, 1}] /\ Len(p) \in 0..MaxDepth
    BY BoundsAssumption
  <1> QED
    BY <1>1 DEF Solve!Paths

\* Being below a path, choice by choice.
LEMMA BelowMeans ==
  ASSUME NEW p \in Solve!Paths, NEW q \in Solve!Paths
  PROVE  Solve!IsStrictPrefix(p, q)
             <=> Len(p) < Len(q) /\ \A i \in 1..Len(p) : q[i] = p[i]
  <1>1. p \in Seq({0, 1}) /\ q \in Seq({0, 1}) /\ Len(p) \in Nat /\ Len(q) \in Nat
    BY PathIsSeq
  <1> DEFINE a == SubSeq(p, 1, Len(p))
             b == SubSeq(q, 1, Len(p))
  <1>2. ASSUME Len(p) <= Len(q)
        PROVE  a = b <=> \A i \in 1..Len(p) : q[i] = p[i]
    <2>1. /\ a \in Seq({0, 1}) /\ b \in Seq({0, 1}) /\ Len(a) = Len(p) /\ Len(b) = Len(p)
          /\ \A i \in 1..Len(p) : a[i] = p[i] /\ b[i] = q[i]
      BY <1>1, <1>2
    <2> HIDE DEF a, b
    <2>2. (\A i \in 1..Len(p) : q[i] = p[i]) => a = b
      BY <2>1, SeqEqual
    <2> QED
      BY <2>1, <2>2
  <1> HIDE DEF a, b
  <1>3. Solve!IsStrictPrefix(p, q) <=> (Len(p) <= Len(q) /\ a = b /\ p # q)
    BY DEF a, b, Solve!IsStrictPrefix, Solve!IsPrefix
  <1>4. CASE Len(p) < Len(q)
    BY <1>1, <1>2, <1>3, <1>4
  <1>5. CASE Len(p) = Len(q)
    <2>1. (\A i \in 1..Len(p) : q[i] = p[i]) => p = q
      BY <1>1, <1>5, SeqEqual
    <2> QED
      BY <1>1, <1>2, <1>3, <1>5, <2>1
  <1> QED
    BY <1>1, <1>3, <1>4, <1>5

\* The two parts of a problem are the paths one choice longer.
LEMMA PartMeans ==
  ASSUME NEW p \in Solve!Paths, NEW q \in Solve!Parts(p)
  PROVE  /\ q \in Seq({0, 1}) /\ Len(q) = Len(p) + 1 /\ \A i \in 1..Len(p) : q[i] = p[i]
         /\ Len(p) < MaxDepth => q \in Solve!Paths /\ Solve!IsStrictPrefix(p, q)
  <1>1. p \in Seq({0, 1}) /\ Len(p) \in Nat
    BY PathIsSeq
  <1>2. PICK c \in {0, 1} : q = Append(p, c)
    BY DEF Solve!Parts
  <1>3. q \in Seq({0, 1}) /\ Len(q) = Len(p) + 1 /\ \A i \in 1..Len(p) : q[i] = p[i]
    BY <1>1, <1>2
  <1>4. Len(p) < MaxDepth => q \in Solve!Paths
    BY <1>1, <1>3, BoundsAssumption, SeqIsPath
  <1> QED
    BY <1>1, <1>3, <1>4, BelowMeans

\* What is above a part is the problem or above the problem.
LEMMA AbovePart ==
  ASSUME NEW a \in Solve!Paths, NEW p \in Solve!Paths, NEW q \in Solve!Parts(p),
         q \in Solve!Paths, Solve!IsStrictPrefix(a, q)
  PROVE  a = p \/ Solve!IsStrictPrefix(a, p)
  <1>1. /\ a \in Seq({0, 1}) /\ p \in Seq({0, 1}) /\ Len(a) \in Nat /\ Len(p) \in Nat
    BY PathIsSeq
  <1>2. Len(q) = Len(p) + 1 /\ \A i \in 1..Len(p) : q[i] = p[i]
    BY PartMeans
  <1>3. Len(a) < Len(q) /\ \A i \in 1..Len(a) : q[i] = a[i]
    BY BelowMeans
  <1>4. \A i \in 1..Len(a) : p[i] = a[i]
    BY <1>1, <1>2, <1>3
  <1>5. CASE Len(a) = Len(p)
    BY <1>1, <1>4, <1>5, SeqEqual
  <1>6. CASE Len(a) < Len(p)
    BY <1>4, <1>6, BelowMeans
  <1> QED
    BY <1>1, <1>2, <1>3, <1>5, <1>6

\* What is below a problem is one of its parts or below one.
LEMMA BelowParts ==
  ASSUME NEW p \in Solve!Paths, NEW q \in Solve!Paths, Solve!IsStrictPrefix(p, q)
  PROVE  /\ Len(p) < MaxDepth
         /\ \E r \in Solve!Parts(p) : q = r \/ Solve!IsStrictPrefix(r, q)
  <1>1. /\ p \in Seq({0, 1}) /\ q \in Seq({0, 1})
        /\ Len(p) \in Nat /\ Len(q) \in Nat /\ Len(q) <= MaxDepth /\ MaxDepth \in Nat
    BY PathIsSeq, BoundsAssumption
  <1>2. Len(p) < Len(q) /\ \A i \in 1..Len(p) : q[i] = p[i]
    BY BelowMeans
  <1>3. q[Len(p) + 1] \in {0, 1}
    BY <1>1, <1>2
  <1> DEFINE r == Append(p, q[Len(p) + 1])
  <1>4. r \in Solve!Parts(p) /\ r \in Seq({0, 1}) /\ Len(r) = Len(p) + 1
    BY <1>1, <1>3 DEF Solve!Parts
  <1>5. r \in Solve!Paths
    <2>1. Len(r) <= MaxDepth
      BY <1>1, <1>2, <1>4
    <2> QED
      BY <1>4, <2>1, SeqIsPath
  <1>6. \A i \in 1..Len(r) : q[i] = r[i]
    BY <1>1, <1>2, <1>4
  <1> HIDE DEF r
  <1>7. CASE Len(q) = Len(r)
    BY <1>1, <1>2, <1>4, <1>6, <1>7, SeqEqual
  <1>8. CASE Len(r) < Len(q)
    BY <1>1, <1>2, <1>4, <1>5, <1>6, <1>8, BelowMeans
  <1> QED
    BY <1>1, <1>2, <1>4, <1>7, <1>8

\* Below below is below, and nothing is below itself.
LEMMA BelowBelow ==
  ASSUME NEW p \in Solve!Paths, NEW r \in Solve!Paths, NEW q \in Solve!Paths,
         Solve!IsStrictPrefix(p, r), Solve!IsStrictPrefix(r, q)
  PROVE  Solve!IsStrictPrefix(p, q)
  <1>1. Len(p) \in Nat /\ Len(r) \in Nat /\ Len(q) \in Nat
    BY PathIsSeq
  <1>2. Len(p) < Len(r) /\ (\A i \in 1..Len(p) : r[i] = p[i])
    BY BelowMeans
  <1>3. Len(r) < Len(q) /\ (\A i \in 1..Len(r) : q[i] = r[i])
    BY BelowMeans
  <1> QED
    BY <1>1, <1>2, <1>3, BelowMeans

LEMMA TreeStep == Solve!TreeInv /\ [Solve!Next]_solverVars => Solve!TreeInv'
  <1> DEFINE States == {"none", "decompose", "parts", "atomic", "compose", "done", "failed"}
             Below(p, q) == Solve!IsStrictPrefix(p, q)
             Type(n) == n \in [Solve!Paths -> States]
             Clear(n) == \A p, q \in Solve!Paths : Below(p, q) =>
                 /\ n[p] \in {"none", "decompose", "atomic"} => n[q] = "none"
                 /\ n[p] \in {"compose", "done"} => n[q] \in {"none", "done"}
             Local(n, p) ==
                 /\ n[p] \in {"decompose", "parts", "compose"} => Len(p) < MaxDepth
                 /\ n[p] = "compose" => \A q \in Solve!Parts(p) : n[q] = "done"
                 /\ n[p] = "done" /\ Len(p) < MaxDepth =>
                        \A q, r \in Solve!Parts(p) : n[q] = n[r]
  <1>1. Solve!TreeInv <=> Type(node) /\ Clear(node) /\ \A p \in Solve!Paths : Local(node, p)
    BY DEF Solve!TreeInv
  <1>2. Solve!TreeInv' <=> Type(node') /\ Clear(node') /\ \A p \in Solve!Paths : Local(node', p)
    BY DEF Solve!TreeInv
  <1>3. SUFFICES ASSUME Type(node), Clear(node), \A p \in Solve!Paths : Local(node, p),
                        [Solve!Next]_solverVars
                 PROVE  Type(node') /\ Clear(node') /\ \A p \in Solve!Paths : Local(node', p)
    BY <1>1, <1>2
  \* A problem that comes to s while nothing else changes.
  <1>4. ASSUME NEW p \in Solve!Paths, NEW s \in {"atomic", "compose", "done", "failed"},
               node[p] \notin {"none", "done"}, node' = [node EXCEPT ![p] = s],
               s = "atomic" => node[p] = "decompose",
               s = "compose" => node[p] = "parts" /\ \A q \in Solve!Parts(p) : node[q] = "done",
               s = "done" => node[p] \in {"atomic", "compose"}
        PROVE  Type(node') /\ Clear(node') /\ \A q \in Solve!Paths : Local(node', q)
    <2>1. Type(node') /\ node'[p] = s /\ \A q \in Solve!Paths \ {p} : node'[q] = node[q]
      BY <1>3, <1>4
    <2>2. ASSUME NEW a \in Solve!Paths, NEW b \in Solve!Paths, Below(a, b)
          PROVE  /\ node'[a] \in {"none", "decompose", "atomic"} => node'[b] = "none"
                 /\ node'[a] \in {"compose", "done"} => node'[b] \in {"none", "done"}
      <3>1. a # b
        BY <2>2 DEF Solve!IsStrictPrefix
      <3>2. CASE b = p
        BY <1>3, <1>4, <2>1, <2>2, <3>1, <3>2
      <3>3. CASE a = p /\ s = "compose"
        <4>1. PICK r \in Solve!Parts(p) : b = r \/ Below(r, b)
          BY <2>2, <3>3, BelowParts
        <4>2. r \in Solve!Paths /\ node[r] = "done"
          BY <1>4, <2>2, <3>3, BelowParts, PartMeans
        <4>3. node[b] \in {"none", "done"}
          BY <1>3, <4>1, <4>2
        <4> QED
          BY <2>1, <3>1, <3>3, <4>3
      <3>4. CASE a = p /\ s # "compose"
        BY <1>3, <1>4, <2>1, <2>2, <3>1, <3>4
      <3>5. CASE a # p /\ b # p
        BY <1>3, <2>1, <2>2, <3>5
      <3> QED
        BY <3>2, <3>3, <3>4, <3>5
    <2>3. ASSUME NEW q \in Solve!Paths PROVE Local(node', q)
      <3>1. Len(q) < MaxDepth => \A r \in Solve!Parts(q) : r \in Solve!Paths /\ Below(q, r)
        BY PartMeans
      <3>2. Local(node, q)
        BY <1>3
      <3>3. CASE q = p
        <4>1. Len(q) < MaxDepth => \A r \in Solve!Parts(q) : r \in Solve!Paths /\ node'[r] = node[r]
          BY <2>1, <3>1, <3>3 DEF Solve!IsStrictPrefix
        <4>2. s = "compose" => Len(q) < MaxDepth /\ \A r \in Solve!Parts(q) : node'[r] = "done"
          BY <1>4, <3>2, <3>3, <4>1
        <4>3. s = "done" /\ Len(q) < MaxDepth /\ node[p] = "atomic" =>
                  \A r \in Solve!Parts(q) : node'[r] = "none"
          BY <1>3, <3>1, <3>3, <4>1
        <4>4. s = "done" /\ Len(q) < MaxDepth /\ node[p] = "compose" =>
                  \A r \in Solve!Parts(q) : node'[r] = "done"
          BY <3>2, <3>3, <4>1
        <4> QED
          BY <1>4, <2>1, <3>3, <4>2, <4>3, <4>4
      <3>4. CASE q # p
        <4>1. node'[q] = node[q]
          BY <2>1, <3>4
        <4>2. node[q] \in {"compose", "done"} /\ Len(q) < MaxDepth =>
                  \A r \in Solve!Parts(q) : node'[r] = node[r]
          BY <1>3, <1>4, <2>1, <3>1
        <4> QED
          BY <3>2, <4>1, <4>2
      <3> QED
        BY <3>3, <3>4
    <2> QED
      BY <2>1, <2>2, <2>3
  \* A problem that is split into its parts.
  <1>5. ASSUME NEW p \in Solve!Paths, node[p] = "decompose",
               node' = [q \in Solve!Paths |-> CASE q = p -> "parts"
                                                [] q \in Solve!Parts(p) -> Solve!Begin(q)
                                                [] OTHER -> node[q]]
        PROVE  Type(node') /\ Clear(node') /\ \A q \in Solve!Paths : Local(node', q)
    <2>1. /\ Len(p) < MaxDepth
          /\ \A r \in Solve!Parts(p) : /\ r \in Solve!Paths /\ Below(p, r) /\ r # p
                                       /\ Len(r) = Len(p) + 1 /\ node[r] = "none"
      BY <1>3, <1>5, PartMeans DEF Solve!IsStrictPrefix
    <2>2. \A q \in Solve!Paths : Solve!Begin(q) \in {"atomic", "decompose"}
                                 /\ (Solve!Begin(q) = "decompose" => Len(q) < MaxDepth)
      BY PathIsSeq, BoundsAssumption DEF Solve!Begin
    <2>3. /\ Type(node') /\ node'[p] = "parts"
          /\ \A r \in Solve!Parts(p) : node'[r] = Solve!Begin(r)
          /\ \A q \in Solve!Paths \ (Solve!Parts(p) \cup {p}) : node'[q] = node[q]
      BY <1>3, <1>5, <2>1, <2>2
    <2>4. ASSUME NEW a \in Solve!Paths, NEW b \in Solve!Paths, Below(a, b)
          PROVE  /\ node'[a] \in {"none", "decompose", "atomic"} => node'[b] = "none"
                 /\ node'[a] \in {"compose", "done"} => node'[b] \in {"none", "done"}
      <3>1. CASE a = p
        BY <2>3, <3>1
      <3>2. CASE a \in Solve!Parts(p)
        <4>1. Below(p, b) /\ b # p /\ b \notin Solve!Parts(p)
          <5>1. Below(p, b)
            BY <2>1, <2>4, <3>2, BelowBelow
          <5>2. Len(a) < Len(b) /\ Len(p) < Len(b)
            BY <2>4, <5>1, BelowMeans
          <5>3. ASSUME b \in Solve!Parts(p) PROVE FALSE
            BY <2>1, <3>2, <5>2, <5>3, PathIsSeq
          <5> QED
            BY <5>1, <5>2, <5>3, PathIsSeq
        <4>2. node'[b] = "none"
          BY <1>3, <1>5, <2>3, <4>1
        <4> QED
          BY <4>2
      <3>3. CASE a \notin Solve!Parts(p) /\ a # p
        <4>1. node'[a] = node[a]
          BY <2>3, <3>3
        <4>2. CASE b = p \/ b \in Solve!Parts(p)
          <5>1. Below(a, p)
            BY <2>1, <2>4, <3>3, <4>2, AbovePart
          <5> QED
            BY <1>3, <1>5, <4>1, <5>1
        <4>3. CASE b # p /\ b \notin Solve!Parts(p)
          BY <1>3, <2>3, <2>4, <4>1, <4>3
        <4> QED
          BY <4>2, <4>3
      <3> QED
        BY <3>1, <3>2, <3>3
    <2>5. ASSUME NEW q \in Solve!Paths PROVE Local(node', q)
      <3>1. Local(node, q)
        BY <1>3
      <3>2. CASE q = p \/ q \in Solve!Parts(p)
        BY <2>1, <2>2, <2>3, <3>2
      <3>3. CASE q # p /\ q \notin Solve!Parts(p)
        <4>1. node'[q] = node[q]
          BY <2>3, <3>3
        <4>2. ASSUME node[q] \in {"compose", "done"}, Len(q) < MaxDepth, NEW r \in Solve!Parts(q)
              PROVE  node'[r] = node[r]
          <5>1. r \in Solve!Paths /\ Below(q, r)
            BY <4>2, PartMeans
          <5>2. r # p
            BY <1>3, <1>5, <4>2, <5>1
          <5>3. r \notin Solve!Parts(p)
            <6>1. ASSUME r \in Solve!Parts(p) PROVE FALSE
              <7>1. Below(q, p)
                BY <3>3, <5>1, <6>1, AbovePart
              <7> QED
                BY <1>3, <1>5, <4>2, <7>1
            <6> QED
              BY <6>1
          <5> QED
            BY <2>3, <5>1, <5>2, <5>3
        <4> QED
          BY <3>1, <4>1, <4>2
      <3> QED
        BY <3>2, <3>3
    <2> QED
      BY <2>3, <2>4, <2>5
  <1>6. CASE UNCHANGED solverVars
    BY <1>3, <1>6 DEF solverVars
  <1>7. ASSUME NEW p \in Solve!Paths, Solve!Decompose(p)
        PROVE  Type(node') /\ Clear(node') /\ \A q \in Solve!Paths : Local(node', q)
    BY <1>4, <1>5, <1>7 DEF Solve!Decompose, Solve!Goto
  <1>8. ASSUME NEW p \in Solve!Paths, Solve!PartsDone(p)
        PROVE  Type(node') /\ Clear(node') /\ \A q \in Solve!Paths : Local(node', q)
    BY <1>4, <1>8 DEF Solve!PartsDone, Solve!Goto
  <1>9. ASSUME NEW p \in Solve!Paths, Solve!Choose(p)
        PROVE  Type(node') /\ Clear(node') /\ \A q \in Solve!Paths : Local(node', q)
    <2>1. node[p] \in {"atomic", "compose"} /\ node' = [node EXCEPT ![p] = "done"]
      BY <1>9 DEF Solve!Choose, Solve!Goto
    <2> QED
      BY <1>4, <2>1
  <1>10. ASSUME NEW p \in Solve!Paths, Solve!AgentFails(p) \/ Solve!PartFails(p)
        PROVE  Type(node') /\ Clear(node') /\ \A q \in Solve!Paths : Local(node', q)
    <2>1. node[p] \notin {"none", "done"} /\ node' = [node EXCEPT ![p] = "failed"]
      BY <1>10 DEF Solve!AgentFails, Solve!PartFails, Solve!Goto
    <2> QED
      BY <1>4, <2>1
  <1> HIDE DEF Type, Clear, Local
  <1> QED
    BY <1>3, <1>6, <1>7, <1>8, <1>9, <1>10 DEF Solve!Next, Solve!Solve

LEMMA SolveCardinality == \A S : Solve!Cardinality(S) = Cardinality(S)
  BY DEF Solve!Cardinality, Cardinality

\* Votes are counted; counting fewer answers gives no candidate more of them.
LEMMA VotesCounted ==
  ASSUME NEW n \in Nat, NEW m \in Nat, NEW results \in [1..m -> 0..n], NEW k
  PROVE  /\ Solve!Votes(results, k) \in 0..m
         /\ \A i \in 0..m : /\ Solve!Votes(SubSeq(results, 1, i), k) \in Nat
                            /\ Solve!Votes(SubSeq(results, 1, i), k) <= Solve!Votes(results, k)
  <1>1. IsFiniteSet(1..m) /\ Cardinality(1..m) = m
    BY FS_Interval
  <1>2. DOMAIN results = 1..m /\ results \in Seq(0..n) /\ Len(results) = m
    OBVIOUS
  <1> DEFINE For(r) == {i \in DOMAIN r : r[i] = k}
  <1>3. For(results) \subseteq 1..m
    BY <1>2
  <1>4. IsFiniteSet(For(results)) /\ Cardinality(For(results)) \in 0..m
    BY <1>1, <1>3, FS_Subset, FS_CardinalityType
  <1>5. ASSUME NEW i \in 0..m
        PROVE  /\ Cardinality(For(SubSeq(results, 1, i))) \in Nat
               /\ Cardinality(For(SubSeq(results, 1, i))) <= Cardinality(For(results))
    <2>1. For(SubSeq(results, 1, i)) \subseteq For(results)
      BY <1>2
    <2> QED
      BY <1>4, <2>1, FS_Subset, FS_CardinalityType
  <1>6. \A r : Solve!Votes(r, k) = Cardinality(For(r))
    BY SolveCardinality DEF Solve!Votes
  <1> HIDE DEF For
  <1> QED
    BY <1>4, <1>5, <1>6

\* Two candidates have no more votes between them than there are.
LEMMA VotesShared ==
  ASSUME NEW n \in Nat, NEW m \in Nat, NEW results \in [1..m -> 0..n], NEW j, NEW k, j # k
  PROVE  Solve!Votes(results, j) + Solve!Votes(results, k) <= m
  <1>1. IsFiniteSet(1..m) /\ Cardinality(1..m) = m
    BY FS_Interval
  <1> DEFINE J == {i \in DOMAIN results : results[i] = j}
             K == {i \in DOMAIN results : results[i] = k}
  <1>2. J \subseteq 1..m /\ K \subseteq 1..m /\ J \cap K = {} /\ J \cup K \subseteq 1..m
    OBVIOUS
  <1>3. Solve!Votes(results, j) = Cardinality(J) /\ Solve!Votes(results, k) = Cardinality(K)
    BY SolveCardinality DEF Solve!Votes
  <1> HIDE DEF J, K
  <1>4. /\ IsFiniteSet(J) /\ IsFiniteSet(K) /\ IsFiniteSet(J \cup K)
        /\ Cardinality(J) \in Nat /\ Cardinality(K) \in Nat /\ Cardinality(J \cup K) <= m
    <2>1. IsFiniteSet(J) /\ IsFiniteSet(K)
      BY <1>1, <1>2, FS_Subset
    <2>2. IsFiniteSet(J \cup K) /\ Cardinality(J \cup K) <= Cardinality(1..m)
      BY <1>1, <1>2, FS_Subset
    <2>3. Cardinality(J) \in Nat /\ Cardinality(K) \in Nat
      BY <2>1, FS_CardinalityType
    <2> QED
      BY <1>1, <2>1, <2>2, <2>3
  <1>5. Cardinality(J \cup K) = Cardinality(J) + Cardinality(K) - Cardinality(J \cap K)
    BY <1>4, FS_Union
  <1>6. Cardinality(J \cap K) = 0
    BY <1>2, FS_EmptySet
  <1> QED
    BY <1>3, <1>4, <1>5, <1>6

\* What is counted is a beginning of the answers, up to the first at which somebody won.
LEMMA CountedShape ==
  ASSUME NEW n \in Nat, NEW m \in Nat, NEW results \in [1..m -> 0..n]
  PROVE  \E i \in 0..m :
            /\ Solve!Counted(results, n) = SubSeq(results, 1, i)
            /\ \A k \in 1..n : Solve!Votes(results, k) >= WinningVotes /\ m > 0 =>
                 \E j \in 1..n : Solve!Votes(SubSeq(results, 1, i), j) >= WinningVotes
  <1>1. results \in Seq(0..n) /\ Len(results) = m
    OBVIOUS
  <1>2. results = SubSeq(results, 1, m)
    <2>1. /\ SubSeq(results, 1, m) \in Seq(0..n) /\ Len(SubSeq(results, 1, m)) = m
          /\ \A i \in 1..m : SubSeq(results, 1, m)[i] = results[i]
      BY <1>1
    <2> QED
      BY <1>1, <2>1, SeqEqual
  <1> DEFINE S == Solve!Stop(results, n)
  <1>3. S \subseteq 1..m
    BY <1>1 DEF Solve!Stop
  <1>4. CASE S = {}
    <2>1. Solve!Counted(results, n) = SubSeq(results, 1, m)
      BY <1>2, <1>4 DEF Solve!Counted
    <2>2. ASSUME NEW k \in 1..n, Solve!Votes(results, k) >= WinningVotes, m > 0
          PROVE  FALSE
      <3>1. Solve!Votes(SubSeq(results, 1, m), k) = Solve!Votes(results, k)
        BY <1>2, Zenon
      <3>2. m \in 1..Len(results) /\ Solve!Votes(SubSeq(results, 1, m), k) >= WinningVotes
        BY <1>1, <2>2, <3>1
      <3>3. m \in S
        BY <3>2 DEF Solve!Stop
      <3> QED
        BY <1>4, <3>3
    <2> QED
      BY <2>1, <2>2
  <1>5. CASE S # {}
    <2>1. S \in SUBSET Nat
      BY <1>3
    <2>2. \E i \in S : \A j \in S : i <= j
      BY <1>5, <2>1, SmallestOf
    <2> DEFINE first == CHOOSE i \in S : \A j \in S : i <= j
    <2>3. first \in S
      BY <2>2
    <2>4. Solve!Counted(results, n) = SubSeq(results, 1, first)
      BY <1>5 DEF Solve!Counted
    <2>5. \E k \in 1..n : Solve!Votes(SubSeq(results, 1, first), k) >= WinningVotes
      BY <2>3 DEF Solve!Stop
    <2> HIDE DEF first, S
    <2> QED
      BY <1>3, <2>3, <2>4, <2>5
  <1> QED
    BY <1>4, <1>5

\* There is a winner.
LEMMA WinnerIs ==
  ASSUME NEW n \in Nat \ {0}, NEW m \in Nat, NEW results \in [1..m -> 0..n]
  PROVE  /\ Solve!Winner(results, n) \in 1..n
         /\ LET c == Solve!Counted(results, n) IN
            \A j \in 1..n : \/ Solve!Votes(c, Solve!Winner(results, n)) > Solve!Votes(c, j)
                            \/ /\ Solve!Votes(c, Solve!Winner(results, n)) = Solve!Votes(c, j)
                               /\ Solve!Winner(results, n) <= j
  <1> DEFINE c == Solve!Counted(results, n)
             votes(k) == Solve!Votes(c, k)
  <1>1. PICK i \in 0..m : c = SubSeq(results, 1, i)
    BY CountedShape
  <1>2. \A k \in 1..n : votes(k) \in 0..m
    <2>1. ASSUME NEW k \in 1..n PROVE votes(k) \in 0..m
      <3>1. Solve!Votes(results, k) \in 0..m
        BY VotesCounted
      <3>2. Solve!Votes(SubSeq(results, 1, i), k) \in Nat
        BY VotesCounted
      <3>3. Solve!Votes(SubSeq(results, 1, i), k) <= Solve!Votes(results, k)
        BY VotesCounted
      <3> QED
        BY <1>1, <3>1, <3>2, <3>3
    <2> QED
      BY <2>1
  <1> DEFINE counts == {votes(k) : k \in 1..n}
  <1> HIDE DEF c
  <1>3. counts \in SUBSET Nat /\ counts # {} /\ \A v \in counts : v <= m
    BY <1>2
  <1>4. PICK most \in counts : \A v \in counts : v <= most
    BY <1>3, GreatestOf
  <1> DEFINE best == {k \in 1..n : votes(k) = most}
  <1>5. best \in SUBSET Nat /\ best # {}
    BY <1>4
  <1>6. PICK k \in best : \A j \in best : k <= j
    BY <1>5, SmallestOf
  <1>7. k \in 1..n /\ \A j \in 1..n : votes(k) > votes(j) \/ (votes(k) = votes(j) /\ k <= j)
    <2>1. ASSUME NEW j \in 1..n PROVE votes(k) > votes(j) \/ (votes(k) = votes(j) /\ k <= j)
      <3>1. votes(j) <= most /\ votes(k) = most /\ votes(j) \in Nat /\ most \in Nat
        BY <1>2, <1>3, <1>4
      <3>2. votes(j) = most => k <= j
        BY <1>6
      <3> HIDE DEF votes
      <3> QED
        BY <3>1, <3>2
    <2> QED
      BY <2>1
  <1>8. Solve!Winner(results, n) = CHOOSE w \in 1..n :
            \A j \in 1..n : votes(w) > votes(j) \/ (votes(w) = votes(j) /\ w <= j)
    BY DEF Solve!Winner, c
  <1> HIDE DEF votes
  <1>9. LET w == Solve!Winner(results, n) IN
            w \in 1..n /\ \A j \in 1..n : votes(w) > votes(j) \/ (votes(w) = votes(j) /\ w <= j)
    BY <1>7, <1>8
  <1> QED
    BY <1>9 DEF votes, c

\* A candidate with votes enough among all answers is the one chosen from those counted.
LEMMA EnoughWins ==
  ASSUME NumberOfVotes < 2 * WinningVotes, NEW n \in Nat \ {0},
         NEW results \in [1..NumberOfVotes -> 0..n],
         NEW k \in 1..n, Solve!Votes(results, k) >= WinningVotes
  PROVE  k = Solve!Winner(results, n)
  <1>1. NumberOfVotes \in Nat /\ WinningVotes \in Nat /\ WinningVotes > 0
    BY BoundsAssumption
  <1>2. Solve!Votes(results, k) \in 0..NumberOfVotes
    BY <1>1, VotesCounted
  <1>3. NumberOfVotes > 0
    BY <1>1, <1>2
  <1>4. PICK i \in 0..NumberOfVotes :
            /\ Solve!Counted(results, n) = SubSeq(results, 1, i)
            /\ \E j \in 1..n : Solve!Votes(SubSeq(results, 1, i), j) >= WinningVotes
    BY <1>1, <1>3, CountedShape
  <1> DEFINE c == SubSeq(results, 1, i)
             w == Solve!Winner(results, n)
  <1>5. ASSUME NEW j \in 1..n
        PROVE  /\ Solve!Votes(c, j) \in Nat /\ Solve!Votes(results, j) \in Nat
               /\ Solve!Votes(c, j) <= Solve!Votes(results, j)
    <2>1. n \in Nat /\ i \in 0..NumberOfVotes
      OBVIOUS
    <2>2. Solve!Votes(results, j) \in 0..NumberOfVotes
      BY <1>1, <2>1, VotesCounted
    <2>3. \A x \in 0..NumberOfVotes :
              /\ Solve!Votes(SubSeq(results, 1, x), j) \in Nat
              /\ Solve!Votes(SubSeq(results, 1, x), j) <= Solve!Votes(results, j)
      BY <1>1, <2>1, VotesCounted
    <2> QED
      BY <2>1, <2>2, <2>3
  <1>6. PICK j \in 1..n : Solve!Votes(c, j) >= WinningVotes
    BY <1>4
  <1>7. /\ w \in 1..n
        /\ \/ Solve!Votes(c, w) > Solve!Votes(c, j)
           \/ Solve!Votes(c, w) = Solve!Votes(c, j)
    <2>1. w \in 1..n
      BY <1>1, WinnerIs
    <2>2. \A x \in 1..n : \/ Solve!Votes(c, w) > Solve!Votes(c, x)
                          \/ Solve!Votes(c, w) = Solve!Votes(c, x) /\ w <= x
      BY <1>1, <1>4, WinnerIs
    <2> QED
      BY <2>1, <2>2
  <1> HIDE DEF c, w
  <1>8. Solve!Votes(results, w) >= WinningVotes
    <2>1. /\ Solve!Votes(c, w) \in Nat /\ Solve!Votes(results, w) \in Nat
          /\ Solve!Votes(c, w) <= Solve!Votes(results, w)
      BY <1>5, <1>7
    <2>2. Solve!Votes(c, j) \in Nat
      BY <1>5
    <2> QED
      BY <1>1, <1>6, <1>7, <2>1, <2>2
  <1>9. ASSUME k # w PROVE FALSE
    <2>1. Solve!Votes(results, k) + Solve!Votes(results, w) <= NumberOfVotes
      BY <1>1, <1>9, VotesShared
    <2>2. Solve!Votes(results, w) \in Nat
      BY <1>5, <1>7
    <2> QED
      BY <1>1, <1>2, <1>8, <2>1, <2>2
  <1> QED
    BY <1>9 DEF w

LEMMA BallotStep ==
  ASSUME Solve!BallotInv, [Solve!Next]_solverVars
  PROVE  Solve!BallotInv'
  <1>1. CASE UNCHANGED ballot
    BY <1>1 DEF Solve!BallotInv
  <1>2. CASE \E n \in 1..Candidates : Solve!Vote(n)
    BY <1>2 DEF Solve!BallotInv, Solve!Vote
  <1> QED
    BY <1>1, <1>2
    DEF Solve!Next, Solve!Solve, Solve!Decompose, Solve!PartsDone, Solve!Choose,
        Solve!AgentFails, Solve!PartFails, solverVars

LEMMA BallotTypes ==
  ASSUME Solve!BallotInv
  PROVE  ballot.candidates \in 0..Candidates /\ ballot.chosen \in 0..Candidates
  <1>1. CASE ballot = [candidates |-> 0, results |-> <<>>, chosen |-> 0]
    BY <1>1, BoundsAssumption
  <1>2. ASSUME NEW n \in 1..Candidates, NEW results \in [1..NumberOfVotes -> 0..n],
               ballot = [candidates |-> n, results |-> results, chosen |-> Solve!Winner(results, n)]
        PROVE  ballot.candidates \in 0..Candidates /\ ballot.chosen \in 0..Candidates
    <2>1. NumberOfVotes \in Nat /\ Candidates \in Nat /\ n \in Nat \ {0} /\ n <= Candidates
      BY BoundsAssumption
    <2>2. Solve!Winner(results, n) \in 1..n
      BY <2>1, WinnerIs
    <2> QED
      BY <1>2, <2>1, <2>2
  <1> QED
    BY <1>1, <1>2 DEF Solve!BallotInv

LEMMA BallotSound ==
  ASSUME NumberOfVotes < 2 * WinningVotes, Solve!BallotInv
  PROVE  Solve!EarlyStopSound
  <1>1. CASE ballot = [candidates |-> 0, results |-> <<>>, chosen |-> 0]
    BY <1>1 DEF Solve!EarlyStopSound
  <1>2. ASSUME NEW n \in 1..Candidates, NEW results \in [1..NumberOfVotes -> 0..n],
               ballot = [candidates |-> n, results |-> results, chosen |-> Solve!Winner(results, n)]
        PROVE  Solve!EarlyStopSound
    <2>1. n \in Nat \ {0}
      BY BoundsAssumption
    <2>2. ASSUME NEW k \in 1..n, Solve!Votes(results, k) >= WinningVotes
          PROVE  k = Solve!Winner(results, n)
      BY <2>1, <2>2, EnoughWins
    <2> QED
      BY <1>2, <2>2 DEF Solve!EarlyStopSound
  <1> QED
    BY <1>1, <1>2 DEF Solve!BallotInv

LEMMA TreeSound ==
  ASSUME Solve!TreeInv
  PROVE  Solve!AnsweredFromParts
  <1> SUFFICES ASSUME NEW p \in Solve!Paths, node[p] \in {"done", "compose"}
               PROVE  /\ \A q \in Solve!Paths : Solve!IsStrictPrefix(p, q) => node[q] \in {"none", "done"}
                      /\ Len(p) < MaxDepth =>
                             Solve!Cardinality({q \in Solve!Parts(p) : node[q] = "done"}) \in
                                 (IF node[p] = "compose" THEN {2} ELSE {0, 2})
    BY DEF Solve!AnsweredFromParts
  <1>1. \A q \in Solve!Paths : Solve!IsStrictPrefix(p, q) => node[q] \in {"none", "done"}
    BY DEF Solve!TreeInv
  <1>2. ASSUME Len(p) < MaxDepth
        PROVE  Solve!Cardinality({q \in Solve!Parts(p) : node[q] = "done"}) \in
                   (IF node[p] = "compose" THEN {2} ELSE {0, 2})
    <2> DEFINE D == {q \in Solve!Parts(p) : node[q] = "done"}
    <2>1. \A q \in Solve!Parts(p) : q \in Solve!Paths
      BY <1>2, PartMeans
    <2>2. /\ \A q, r \in Solve!Parts(p) : node[q] = node[r]
          /\ node[p] = "compose" => \A q \in Solve!Parts(p) : node[q] = "done"
      BY <1>2 DEF Solve!TreeInv
    <2>3. D = Solve!Parts(p) \/ (D = {} /\ node[p] # "compose")
      BY <2>2 DEF Solve!Parts
    <2>4. Append(p, 0) # Append(p, 1)
      <3>1. p \in Seq({0, 1})
        BY PathIsSeq
      <3>2. Append(p, 0)[Len(p) + 1] = 0 /\ Append(p, 1)[Len(p) + 1] = 1
        BY <3>1
      <3> QED
        BY <3>2
    <2>5. Cardinality(Solve!Parts(p)) = 2
      <3> DEFINE a == Append(p, 0)
                 b == Append(p, 1)
      <3>1. Solve!Parts(p) = {a} \cup {b} /\ b \notin {a}
        BY <2>4 DEF Solve!Parts
      <3> HIDE DEF a, b
      <3>2. IsFiniteSet({a}) /\ Cardinality({a}) = 1
        BY FS_Singleton
      <3>3. Cardinality({a} \cup {b}) = 2
        BY <3>1, <3>2, FS_AddElement
      <3> QED
        BY <3>1, <3>3
    <2> HIDE DEF D
    <2>6. Cardinality({}) = 0
      BY FS_EmptySet
    <2>7. Cardinality(D) \in (IF node[p] = "compose" THEN {2} ELSE {0, 2})
      BY <2>3, <2>5, <2>6
    <2> QED
      BY <2>7, SolveCardinality DEF D
  <1> QED
    BY <1>1, <1>2

LEMMA SolveInvariant == Init /\ [][Next]_vars => [](Solve!TreeInv /\ Solve!BallotInv)
  <1>1. Init => Solve!TreeInv /\ Solve!BallotInv
    <2> SUFFICES ASSUME Solve!Init PROVE Solve!TreeInv /\ Solve!BallotInv
      BY DEF Init
    <2>1. node = [p \in Solve!Paths |-> IF p = <<>> THEN Solve!Begin(<<>>) ELSE "none"]
      BY DEF Solve!Init
    <2>2. /\ Solve!Begin(<<>>) \in {"atomic", "decompose"}
          /\ Solve!Begin(<<>>) = "decompose" => Len(<<>>) < MaxDepth
      BY BoundsAssumption DEF Solve!Begin
    <2>3. ASSUME NEW p \in Solve!Paths, NEW q \in Solve!Paths, Solve!IsStrictPrefix(p, q)
          PROVE  node[q] = "none"
      <3>1. Len(p) \in Nat /\ Len(p) < Len(q)
        BY <2>3, PathIsSeq, BelowMeans
      <3>2. q # <<>>
        BY <3>1
      <3> QED
        BY <2>1, <3>2
    <2>4. Solve!TreeInv
      BY <2>1, <2>2, <2>3 DEF Solve!TreeInv
    <2> QED
      BY <2>4 DEF Solve!Init, Solve!BallotInv
  <1>2. Solve!TreeInv /\ Solve!BallotInv /\ [Solve!Next]_solverVars => (Solve!TreeInv /\ Solve!BallotInv)'
    BY TreeStep, BallotStep
  <1>3. [Next]_vars => [Solve!Next]_solverVars
    BY DEF Next, vars, Still, ChatStep, TenantStep, LaunchStep, SolveStep, SiteStep, FlaskStep, RemoteStep
  <1> QED
    BY <1>1, <1>2, <1>3, PTL

-----------------------------------------------------------------------------
(* SiteNetwork                                                             *)

\* Dividing rounds down.
LEMMA Division ==
  ASSUME NEW x \in Nat, NEW m \in Nat \ {0}
  PROVE  /\ x \div m \in Nat /\ m * (x \div m) <= x /\ x < m * ((x \div m) + 1)
  BY Z3

LEMMA Times ==
  ASSUME NEW i \in Nat, NEW j \in Nat, NEW m \in Nat, i <= j
  PROVE  i * m \in Nat /\ j * m \in Nat /\ i * m <= j * m /\ m * i = i * m /\ (i + 1) * m = i * m + m
  BY Z3

\* A list of n cut into chunks of m: every place is in one chunk, and no chunk is longer.
ChunkEnd(n, m, k, i) == IF i = k THEN n ELSE i * m

LEMMA ChunksCover ==
  ASSUME NEW n \in Nat, NEW m \in Nat \ {0}, NEW k, k = (n + m - 1) \div m
  PROVE  /\ k \in Nat
         /\ \A i \in 1..k : /\ (i - 1) * m \in Nat /\ ChunkEnd(n, m, k, i) \in Nat
                             /\ (i - 1) * m < ChunkEnd(n, m, k, i) /\ ChunkEnd(n, m, k, i) <= n
                             /\ ChunkEnd(n, m, k, i) - (i - 1) * m <= m
         /\ \A i, j \in 1..k : i < j => ChunkEnd(n, m, k, i) <= (j - 1) * m
         /\ \A p \in 1..n : \E i \in 1..k : (i - 1) * m < p /\ p <= ChunkEnd(n, m, k, i)
  <1>1. k \in Nat /\ m * k <= n + m - 1 /\ n + m - 1 < m * (k + 1)
    BY Division
  <1>2. m * k = k * m /\ m * (k + 1) = k * m + m /\ k * m \in Nat
    BY <1>1, Times
  <1>3. k * m <= n + m - 1 /\ n <= k * m
    BY <1>1, <1>2
  <1>4. ASSUME NEW i \in 1..k
        PROVE  /\ (i - 1) * m \in Nat /\ i * m \in Nat /\ i * m = (i - 1) * m + m
               /\ i * m <= k * m /\ (i < k => i * m + m <= k * m)
    <2>1. i - 1 \in Nat /\ i \in Nat /\ i <= k
      BY <1>1
    <2>2. (i - 1) * m \in Nat /\ i * m \in Nat /\ ((i - 1) + 1) * m = (i - 1) * m + m
      BY <2>1, Times
    <2>3. i * m <= k * m
      BY <1>1, <2>1, Times
    <2>4. i < k => (i + 1) * m <= k * m /\ (i + 1) * m = i * m + m
      BY <1>1, <2>1, Times
    <2>5. (i - 1) + 1 = i
      BY <2>1
    <2> QED
      BY <2>2, <2>3, <2>4, <2>5
  <1>5. ASSUME NEW i \in 1..k
        PROVE  /\ (i - 1) * m \in Nat /\ ChunkEnd(n, m, k, i) \in Nat
               /\ (i - 1) * m < ChunkEnd(n, m, k, i) /\ ChunkEnd(n, m, k, i) <= n
               /\ ChunkEnd(n, m, k, i) - (i - 1) * m <= m
    BY <1>1, <1>2, <1>3, <1>4 DEF ChunkEnd
  <1>6. ASSUME NEW i \in 1..k, NEW j \in 1..k, i < j
        PROVE  ChunkEnd(n, m, k, i) <= (j - 1) * m
    <2>1. i \in Nat /\ j - 1 \in Nat /\ i <= j - 1 /\ i # k
      BY <1>1, <1>6
    <2>2. i * m <= (j - 1) * m
      BY <2>1, Times
    <2> QED
      BY <2>1, <2>2 DEF ChunkEnd
  <1>7. ASSUME NEW p \in 1..n
        PROVE  \E i \in 1..k : (i - 1) * m < p /\ p <= ChunkEnd(n, m, k, i)
    <2> DEFINE q == (p - 1) \div m
    <2>1. p - 1 \in Nat
      OBVIOUS
    <2>2. q \in Nat /\ m * q <= p - 1 /\ p - 1 < m * (q + 1)
      BY <2>1, Division
    <2> HIDE DEF q
    <2>3. m * q = q * m /\ m * (q + 1) = (q + 1) * m /\ q * m \in Nat /\ (q + 1) * m \in Nat
      BY <2>2, Times
    <2>4. q < k
      <3>1. ASSUME k <= q PROVE FALSE
        <4>1. k * m <= q * m
          BY <1>1, <2>2, <3>1, Times
        <4> QED
          BY <1>2, <1>3, <2>1, <2>2, <2>3, <4>1
      <3> QED
        BY <1>1, <2>2, <3>1
    <2>5. q + 1 \in 1..k /\ (q + 1) - 1 = q
      BY <1>1, <2>2, <2>4
    <2>6. q * m < p /\ p <= ChunkEnd(n, m, k, q + 1)
      BY <2>1, <2>2, <2>3 DEF ChunkEnd
    <2> QED
      BY <2>5, <2>6
  <1> QED
    BY <1>1, <1>5, <1>6, <1>7

(* A network g: who hangs below whom.  What holds of it: a place among the children of  *)
(* somebody is all that an agent has, only one agent is on top, and every agent is found *)
(* from those who are on top or hang below nobody.                                      *)
Kids(g, a)  == {g[a].down[i] : i \in 1..Len(g[a].down)}
IsNet(g)    == /\ IsFiniteSet(DOMAIN g)
               /\ g \in [DOMAIN g -> [down : Seq(DOMAIN g), top : BOOLEAN]]
               /\ \A a, b \in DOMAIN g : g[a].top /\ g[b].top => a = b
OnePlace(g) == \A a, b \in DOMAIN g : \A i \in 1..Len(g[a].down), j \in 1..Len(g[b].down) :
                   g[a].down[i] = g[b].down[j] => a = b /\ i = j
Below(g)    == UNION {Kids(g, a) : a \in DOMAIN g}
Loose(g)    == {a \in DOMAIN g \ Below(g) : ~g[a].top}
Tops(g)     == {a \in DOMAIN g : g[a].top}
Found(g, from) == \A S \in SUBSET DOMAIN g :
                      from \subseteq S /\ (\A a \in S : Kids(g, a) \subseteq S) => S = DOMAIN g
Circle(g, x)   == \A S \in SUBSET DOMAIN g :
                      Kids(g, x) \subseteq S /\ (\A a \in S : Kids(g, a) \subseteq S) => x \in S

\* The list has the members of S, each once.
Once(list, S) == /\ list \in Seq(S)
                 /\ S = {list[i] : i \in 1..Len(list)}
                 /\ \A i, j \in 1..Len(list) : list[i] = list[j] => i = j

\* The parts of a node.
LEMMA NodesOfNet ==
  ASSUME NEW g, IsNet(g)
  PROVE  \A a \in DOMAIN g : /\ g[a] \in [down : Seq(DOMAIN g), top : BOOLEAN]
                             /\ g[a].down \in Seq(DOMAIN g) /\ Len(g[a].down) \in Nat
                             /\ \A i \in 1..Len(g[a].down) : g[a].down[i] \in DOMAIN g
  <1> DEFINE D == DOMAIN g
  <1>1. \A a \in D : g[a] \in [down : Seq(D), top : BOOLEAN]
    BY DEF IsNet
  <1> HIDE DEF D
  <1>2. \A a \in D : g[a].down \in Seq(D)
    BY <1>1
  <1>3. \A list \in Seq(D) : Len(list) \in Nat /\ \A i \in 1..Len(list) : list[i] \in D
    OBVIOUS
  <1> QED
    BY <1>1, <1>2, <1>3 DEF D

\* A new agent x without children, below the one in P if there is one.
LEMMA GraphWithAgent ==
  ASSUME NEW g, IsNet(g), OnePlace(g), Found(g, Tops(g) \cup Loose(g)),
         NEW x, x \notin DOMAIN g, NEW P \in SUBSET DOMAIN g, \A a, b \in P : a = b,
         NEW h \in [DOMAIN g \cup {x} -> [down : Seq(DOMAIN g \cup {x}), top : BOOLEAN]],
         \A a \in DOMAIN g : /\ h[a].down = IF a \in P THEN Append(g[a].down, x) ELSE g[a].down
                             /\ h[a].top = g[a].top,
         h[x].down = <<>>, h[x].top = TRUE => DOMAIN g = {}
  PROVE  /\ IsNet(h) /\ OnePlace(h) /\ Found(h, Tops(h) \cup Loose(h))
         /\ Loose(h) = Loose(g) \cup (IF h[x].top = TRUE \/ P # {} THEN {} ELSE {x})
  <1>a. \A a, b \in DOMAIN g : \A i \in 1..Len(g[a].down), j \in 1..Len(g[b].down) :
            g[a].down[i] = g[b].down[j] => a = b /\ i = j
    BY DEF OnePlace
  <1>1. \A a \in DOMAIN g : /\ g[a] \in [down : Seq(DOMAIN g), top : BOOLEAN]
                            /\ g[a].down \in Seq(DOMAIN g) /\ Len(g[a].down) \in Nat
                            /\ \A i \in 1..Len(g[a].down) : g[a].down[i] \in DOMAIN g
    BY NodesOfNet
  <1>2. ASSUME NEW a \in DOMAIN g
        PROVE  /\ h[a].top = g[a].top /\ h[a].down \in Seq(DOMAIN h)
               /\ a \notin P => h[a].down = g[a].down
               /\ a \in P => /\ Len(h[a].down) = Len(g[a].down) + 1
                             /\ h[a].down[Len(g[a].down) + 1] = x
                             /\ \A i \in 1..Len(g[a].down) : h[a].down[i] = g[a].down[i]
               /\ Kids(g, a) \subseteq DOMAIN g
               /\ Kids(h, a) = Kids(g, a) \cup (IF a \in P THEN {x} ELSE {})
    <2>1. /\ g[a].down \in Seq(DOMAIN g) /\ Len(g[a].down) \in Nat
          /\ g[a].down \in Seq(DOMAIN h) /\ x \in DOMAIN h
      BY <1>1
    <2>2. CASE a \in P
      <3>1. h[a].down = Append(g[a].down, x) /\ h[a].top = g[a].top
        BY <2>2
      <3>2. /\ h[a].down \in Seq(DOMAIN h) /\ Len(h[a].down) = Len(g[a].down) + 1
            /\ h[a].down[Len(g[a].down) + 1] = x
            /\ \A i \in 1..Len(g[a].down) : h[a].down[i] = g[a].down[i]
        BY <2>1, <3>1
      <3>3. 1..Len(h[a].down) = 1..Len(g[a].down) \cup {Len(g[a].down) + 1}
        BY <2>1, <3>2
      <3>4. Kids(h, a) = Kids(g, a) \cup {x}
        <4> DEFINE n == Len(g[a].down)
        <4>1. n \in Nat /\ n + 1 \in 1..Len(h[a].down) /\ 1..n \subseteq 1..Len(h[a].down)
          BY <2>1, <3>2
        <4> HIDE DEF n
        <4>2. Kids(g, a) = {g[a].down[i] : i \in 1..n}
          BY ONLY Zenon DEF Kids, n
        <4>3. Kids(h, a) = {h[a].down[i] : i \in 1..n \cup {n + 1}}
          BY ONLY <3>3 DEF Kids, n
        <4>4. h[a].down[n + 1] = x /\ \A i \in 1..n : h[a].down[i] = g[a].down[i]
          BY ONLY <3>2 DEF n
        <4> QED
          BY ONLY <4>1, <4>2, <4>3, <4>4
      <3>5. Kids(g, a) \subseteq DOMAIN g
        BY ONLY <1>1 DEF Kids
      <3> QED
        BY ONLY <2>2, <3>1, <3>2, <3>4, <3>5
    <2>3. CASE a \notin P
      <3>1. h[a].down = g[a].down /\ h[a].top = g[a].top
        BY <2>3
      <3> QED
        BY <1>1, <2>1, <2>3, <3>1 DEF Kids
    <2> QED
      BY <2>2, <2>3
  <1>3. h[x].down = <<>> /\ Len(h[x].down) = 0 /\ Kids(h, x) = {}
    BY DEF Kids
  <1>4. IsNet(h)
    <2>1. IsFiniteSet(DOMAIN h)
      BY FS_AddElement DEF IsNet
    <2>3. h \in [DOMAIN h -> [down : Seq(DOMAIN h), top : BOOLEAN]]
      OBVIOUS
    <2>4. \A a, b \in DOMAIN h : h[a].top /\ h[b].top => a = b
      BY <1>2, <1>3 DEF IsNet
    <2> QED
      BY <2>1, <2>3, <2>4 DEF IsNet
  <1>5. OnePlace(h)
    <2> SUFFICES ASSUME NEW a \in DOMAIN h, NEW b \in DOMAIN h,
                        NEW i \in 1..Len(h[a].down), NEW j \in 1..Len(h[b].down),
                        h[a].down[i] = h[b].down[j]
                 PROVE  a = b /\ i = j
      BY DEF OnePlace
    <2>1. a \in DOMAIN g /\ b \in DOMAIN g
      BY <1>3
    <2>2. /\ i \in 1..Len(g[a].down) \/ (a \in P /\ i = Len(g[a].down) + 1)
          /\ j \in 1..Len(g[b].down) \/ (b \in P /\ j = Len(g[b].down) + 1)
      <3>1. \A c \in DOMAIN g : /\ Len(g[c].down) \in Nat
                                /\ c \notin P => Len(h[c].down) = Len(g[c].down)
                                /\ c \in P => Len(h[c].down) = Len(g[c].down) + 1
        BY <1>1, <1>2
      <3>2. \A n \in Nat : \A m \in 1..(n + 1) : m \in 1..n \/ m = n + 1
        OBVIOUS
      <3>3. i \in 1..Len(g[a].down) \/ (a \in P /\ i = Len(g[a].down) + 1)
        BY <2>1, <3>1, <3>2
      <3>4. j \in 1..Len(g[b].down) \/ (b \in P /\ j = Len(g[b].down) + 1)
        BY <2>1, <3>1, <3>2
      <3> QED
        BY <3>3, <3>4
    <2>3. CASE i \in 1..Len(g[a].down) /\ j \in 1..Len(g[b].down)
      <3>1. h[a].down[i] = g[a].down[i] /\ h[b].down[j] = g[b].down[j]
        BY <1>2, <2>1, <2>3
      <3>2. g[a].down[i] = g[b].down[j]
        BY <3>1
      <3> QED
        BY ONLY <1>a, <2>1, <2>3, <3>2
    <2>4. CASE i \in 1..Len(g[a].down) /\ (b \in P /\ j = Len(g[b].down) + 1)
      <3>1. h[a].down[i] = g[a].down[i] /\ g[a].down[i] \in DOMAIN g
        BY <1>1, <1>2, <2>1, <2>4
      <3>2. h[b].down[j] = x
        BY <1>2, <2>1, <2>4
      <3> QED
        BY <3>1, <3>2
    <2>5. CASE (a \in P /\ i = Len(g[a].down) + 1) /\ j \in 1..Len(g[b].down)
      <3>1. h[b].down[j] = g[b].down[j] /\ g[b].down[j] \in DOMAIN g
        BY <1>1, <1>2, <2>1, <2>5
      <3>2. h[a].down[i] = x
        BY <1>2, <2>1, <2>5
      <3> QED
        BY <3>1, <3>2
    <2>6. CASE (a \in P /\ i = Len(g[a].down) + 1) /\ (b \in P /\ j = Len(g[b].down) + 1)
      BY <2>6
    <2> QED
      BY <2>2, <2>3, <2>4, <2>5, <2>6
  <1>6. Below(h) = Below(g) \cup (IF P # {} THEN {x} ELSE {})
    <2>1. \A y : y \in Below(h) <=> \E a \in DOMAIN h : y \in Kids(h, a)
      BY DEF Below
    <2>2. \A y : y \in Below(g) <=> \E a \in DOMAIN g : y \in Kids(g, a)
      BY DEF Below
    <2> QED
      BY <1>2, <1>3, <2>1, <2>2
  <1>7. Below(g) \subseteq DOMAIN g
    BY <1>2 DEF Below
  <1>8. Loose(h) = Loose(g) \cup (IF h[x].top = TRUE \/ P # {} THEN {} ELSE {x})
    BY <1>2, <1>3, <1>6, <1>7 DEF Loose
  <1>9. Found(h, Tops(h) \cup Loose(h))
    <2> SUFFICES ASSUME NEW S \in SUBSET DOMAIN h, Tops(h) \cup Loose(h) \subseteq S,
                        \A a \in S : Kids(h, a) \subseteq S
                 PROVE  S = DOMAIN h
      BY DEF Found
    <2> DEFINE R == S \ {x}
    <2>1. R \in SUBSET DOMAIN g /\ Tops(g) \cup Loose(g) \subseteq R
      BY <1>2, <1>8 DEF Tops, Loose
    <2>2. \A a \in R : Kids(g, a) \subseteq R
      BY <1>2, <2>1
    <2> HIDE DEF R
    <2>3. R = DOMAIN g
      BY <2>1, <2>2 DEF Found
    <2>4. DOMAIN g \subseteq S
      BY <2>3 DEF R
    <2>5. CASE P # {}
      BY <1>2, <2>4, <2>5
    <2>6. CASE P = {} /\ h[x].top # TRUE
      BY <1>8, <2>4, <2>6
    <2>7. CASE h[x].top = TRUE
      BY <1>3, <2>4, <2>7 DEF Tops
    <2> QED
      BY <2>4, <2>5, <2>6, <2>7
  <1> QED
    BY <1>4, <1>5, <1>8, <1>9

\* What is cut out of a list is the same, from another place on.
LEMMA CutShape ==
  ASSUME NEW S, NEW s \in Seq(S), NEW a \in Nat, NEW b \in Nat, a < b, b <= Len(s)
  PROVE  /\ SubSeq(s, a + 1, b) \in Seq(S) /\ Len(SubSeq(s, a + 1, b)) = b - a
         /\ \A i \in 1..Len(SubSeq(s, a + 1, b)) : SubSeq(s, a + 1, b)[i] = s[a + i]
  <1> DEFINE cut == SubSeq(s, a + 1, b)
  <1>1. /\ cut \in Seq(S) /\ Len(cut) = IF a + 1 <= b THEN b - (a + 1) + 1 ELSE 0
        /\ \A i \in 1..(b - (a + 1) + 1) : cut[i] = s[(a + 1) + i - 1]
    BY SubSeqProperties
  <1>2. b - (a + 1) + 1 = b - a /\ a + 1 <= b /\ \A i \in Nat : (a + 1) + i - 1 = a + i
    OBVIOUS
  <1>3. b - a \in Nat
    OBVIOUS
  <1> HIDE DEF cut
  <1>4. cut \in Seq(S) /\ Len(cut) = b - a
    BY ONLY <1>1, <1>2
  <1>5. ASSUME NEW i \in 1..Len(cut) PROVE cut[i] = s[a + i]
    <2>1. i \in 1..(b - (a + 1) + 1) /\ i \in Nat
      BY ONLY <1>2, <1>3, <1>4
    <2>2. cut[i] = s[(a + 1) + i - 1]
      BY ONLY <1>1, <2>1
    <2> QED
      BY ONLY <1>2, <2>1, <2>2
  <1> QED
    BY ONLY <1>4, <1>5 DEF cut

\* Branches x of the agents in W, for chunks of m of the children of these: x is the one with
\* number num[x] of the K[own[x]] of the agent own[x].
AreBranches(g, m, W, K, N, own, num) ==
    /\ m \in Nat \ {0} /\ W \in SUBSET DOMAIN g
    /\ \A a \in W : K[a] = (Len(g[a].down) + m - 1) \div m
    /\ IsFiniteSet(N) /\ N \cap DOMAIN g = {} /\ own \in [N -> W]
    /\ \A x \in N : num[x] \in 1..K[own[x]]
    /\ \A x, y \in N : own[x] = own[y] /\ num[x] = num[y] => x = y

\* The network h is g after the children of the agents in W went to these branches.
IsSplit(g, m, W, K, N, own, num, T, h) ==
    /\ h \in [DOMAIN g \cup N -> T]
    /\ \A x \in N : /\ h[x].down = SubSeq(g[own[x]].down, (num[x] - 1) * m + 1,
                                     ChunkEnd(Len(g[own[x]].down), m, K[own[x]], num[x]))
                    /\ h[x] \in [down : {h[x].down}, top : {FALSE}]
    /\ \A a \in W : /\ h[a].down \in Seq(N) /\ Len(h[a].down) = K[a]
                    /\ \A i \in 1..K[a] : own[h[a].down[i]] = a /\ num[h[a].down[i]] = i
                    /\ h[a] \in [down : {h[a].down}, top : {g[a].top}]
    /\ \A a \in DOMAIN g \ W : h[a] = g[a]

\* Nobody is lost in it or gets a second place, and no branch has too many children.
LEMMA GraphSplit ==
  ASSUME NEW g, IsNet(g), OnePlace(g), Found(g, Tops(g) \cup Loose(g)),
         NEW m, NEW W, NEW K, NEW N, NEW own, NEW num, AreBranches(g, m, W, K, N, own, num),
         NEW T, NEW h, IsSplit(g, m, W, K, N, own, num, T, h)
  PROVE  /\ IsNet(h) /\ OnePlace(h) /\ Found(h, Tops(h) \cup Loose(h)) /\ Loose(h) = Loose(g)
         /\ \A x \in N : Len(h[x].down) \in 1..m
  <1> USE DEF AreBranches, IsSplit
  <1> DEFINE start(x) == (num[x] - 1) * m
             end(x)   == ChunkEnd(Len(g[own[x]].down), m, K[own[x]], num[x])
  <1>0. DOMAIN h = DOMAIN g \cup N /\ IsFiniteSet(N) /\ N \cap DOMAIN g = {}
    OBVIOUS
  <1>a. \A x \in N : own[x] \in W /\ own[x] \in DOMAIN g /\ num[x] \in 1..K[own[x]]
    OBVIOUS
  <1>b. \A a \in W : a \in DOMAIN g /\ K[a] = (Len(g[a].down) + m - 1) \div m
    OBVIOUS
  <1>c. m \in Nat \ {0}
    OBVIOUS
  <1>1. \A a \in DOMAIN g : /\ g[a] \in [down : Seq(DOMAIN g), top : BOOLEAN]
                            /\ g[a].down \in Seq(DOMAIN g) /\ Len(g[a].down) \in Nat
                            /\ \A i \in 1..Len(g[a].down) : g[a].down[i] \in DOMAIN g
    BY NodesOfNet
  <1>2. \A a \in W : /\ K[a] \in Nat
                     /\ \A i \in 1..Len(g[a].down) : \E c \in 1..K[a] :
                            (c - 1) * m < i /\ i <= ChunkEnd(Len(g[a].down), m, K[a], c)
    <2>1. ASSUME NEW a \in W
          PROVE  /\ K[a] \in Nat
                 /\ \A i \in 1..Len(g[a].down) : \E c \in 1..K[a] :
                        (c - 1) * m < i /\ i <= ChunkEnd(Len(g[a].down), m, K[a], c)
      <3>1. Len(g[a].down) \in Nat /\ K[a] = (Len(g[a].down) + m - 1) \div m
        BY <1>1, <1>b
      <3> QED
        BY ONLY <1>c, <3>1, ChunksCover
    <2> QED
      BY <2>1
  <1>3. ASSUME NEW x \in N
        PROVE  /\ own[x] \in W /\ own[x] \in DOMAIN g /\ num[x] \in 1..K[own[x]]
               /\ start(x) \in Nat /\ end(x) \in Nat
               /\ start(x) < end(x) /\ end(x) <= Len(g[own[x]].down) /\ end(x) - start(x) <= m
    <2>1. own[x] \in W /\ own[x] \in DOMAIN g /\ num[x] \in 1..K[own[x]]
      BY <1>a
    <2>2. /\ Len(g[own[x]].down) \in Nat
          /\ K[own[x]] = (Len(g[own[x]].down) + m - 1) \div m
      BY <1>1, <1>b, <2>1
    <2>3. /\ start(x) \in Nat /\ end(x) \in Nat
          /\ start(x) < end(x) /\ end(x) <= Len(g[own[x]].down) /\ end(x) - start(x) <= m
      BY ONLY <1>c, <2>1, <2>2, ChunksCover
    <2> QED
      BY ONLY <2>1, <2>3
  <1>4. ASSUME NEW x \in N, NEW y \in N, own[x] = own[y], num[x] < num[y]
        PROVE  end(x) <= start(y)
    <2>1. /\ Len(g[own[x]].down) \in Nat /\ K[own[x]] = (Len(g[own[x]].down) + m - 1) \div m
          /\ num[x] \in 1..K[own[x]] /\ num[y] \in 1..K[own[x]]
      BY <1>1, <1>3, <1>4
    <2> QED
      BY <1>4, <2>1, ChunksCover
  <1>5. ASSUME NEW x \in N
        PROVE  /\ h[x].down \in Seq(DOMAIN g) /\ Len(h[x].down) = end(x) - start(x)
               /\ \A i \in 1..Len(h[x].down) : /\ start(x) + i \in 1..Len(g[own[x]].down)
                                               /\ start(x) + i <= end(x)
                                               /\ h[x].down[i] = g[own[x]].down[start(x) + i]
               /\ h[x].top = FALSE
    <2>1. h[x].down = SubSeq(g[own[x]].down, start(x) + 1, end(x)) /\ h[x].top = FALSE
      OBVIOUS
    <2>2. g[own[x]].down \in Seq(DOMAIN g)
      BY <1>1, <1>3
    <2>3. start(x) \in Nat /\ end(x) \in Nat /\ start(x) < end(x) /\ end(x) <= Len(g[own[x]].down)
      BY <1>3
    <2> HIDE DEF start, end
    <2>4. /\ h[x].down \in Seq(DOMAIN g) /\ Len(h[x].down) = end(x) - start(x)
          /\ \A i \in 1..Len(h[x].down) : h[x].down[i] = g[own[x]].down[start(x) + i]
      <3> DEFINE list == g[own[x]].down
                 cut  == h[x].down
                 u    == start(x)
                 v    == end(x)
      <3>1. cut = SubSeq(list, u + 1, v)
        BY ONLY <2>1
      <3>2. list \in Seq(DOMAIN g) /\ u \in Nat /\ v \in Nat /\ u < v /\ v <= Len(list)
        BY ONLY <2>2, <2>3
      <3> HIDE DEF list, cut, u, v
      <3>3. /\ cut \in Seq(DOMAIN g) /\ Len(cut) = v - u
            /\ \A i \in 1..Len(cut) : cut[i] = list[u + i]
        BY ONLY <3>1, <3>2, CutShape
      <3> QED
        BY ONLY <3>3 DEF list, cut, u, v
    <2>5. \A i \in 1..Len(h[x].down) : /\ start(x) + i \in 1..Len(g[own[x]].down)
                                        /\ start(x) + i <= end(x)
      BY ONLY <2>2, <2>3, <2>4
    <2> QED
      BY ONLY <2>1, <2>4, <2>5
  <1> HIDE DEF start, end
  <1>6. \A a \in W : h[a].top = g[a].top
    OBVIOUS
  <1>7. \A a \in DOMAIN g \ W : h[a] = g[a]
    OBVIOUS
  <1>8. \A a \in W : /\ h[a].down \in Seq(N) /\ Len(h[a].down) = K[a]
                     /\ \A i \in 1..Len(h[a].down) : h[a].down[i] \in N
                     /\ \A i \in 1..Len(h[a].down) : own[h[a].down[i]] = a /\ num[h[a].down[i]] = i
    OBVIOUS
  <1>9. \A x, y \in N : own[x] = own[y] /\ num[x] = num[y] => x = y
    OBVIOUS
  <1>10. IsNet(h)
    <2>1. IsFiniteSet(DOMAIN h)
      <3>1. IsFiniteSet(DOMAIN g)
        BY DEF IsNet
      <3>2. IsFiniteSet(DOMAIN g \cup N)
        BY ONLY <1>0, <3>1, FS_Union
      <3> QED
        BY <3>2
    <2>2. ASSUME NEW a \in DOMAIN h PROVE h[a] \in [down : Seq(DOMAIN h), top : BOOLEAN]
      <3>1. CASE a \in W
        <4>1. h[a] \in [down : {h[a].down}, top : {g[a].top}] /\ g[a].top \in BOOLEAN
          BY <1>1, <3>1
        <4>2. h[a].down \in Seq(DOMAIN h)
          BY <1>0, <1>8, <3>1
        <4> QED
          BY ONLY <4>1, <4>2
      <3>2. CASE a \in N
        <4>1. h[a] \in [down : {h[a].down}, top : {FALSE}]
          BY <3>2
        <4>2. h[a].down \in Seq(DOMAIN h)
          <5>1. h[a].down \in Seq(DOMAIN g)
            BY <1>5, <3>2
          <5> QED
            BY ONLY <1>0, <5>1
        <4> QED
          BY ONLY <4>1, <4>2
      <3>3. CASE a \in DOMAIN g \ W
        <4>1. g[a] \in [down : Seq(DOMAIN g), top : BOOLEAN] /\ DOMAIN g \subseteq DOMAIN h
          BY <1>0, <1>1, <3>3
        <4>2. Seq(DOMAIN g) \subseteq Seq(DOMAIN h)
          BY ONLY <4>1
        <4>3. h[a] = g[a]
          BY <1>7, <3>3
        <4> QED
          BY ONLY <4>1, <4>2, <4>3
      <3> QED
        BY <1>0, <3>1, <3>2, <3>3
    <2>3. h \in [DOMAIN h -> [down : Seq(DOMAIN h), top : BOOLEAN]]
      BY <2>2
    <2>4. ASSUME NEW a \in DOMAIN h, h[a].top PROVE a \in DOMAIN g /\ g[a].top
      BY <1>0, <1>5, <1>6, <1>7, <2>4
    <2>5. \A a, b \in DOMAIN g : g[a].top /\ g[b].top => a = b
      BY DEF IsNet
    <2>6. \A a, b \in DOMAIN h : h[a].top /\ h[b].top => a = b
      BY <2>4, <2>5
    <2> QED
      BY <2>1, <2>3, <2>6 DEF IsNet
  \* A place in the new network is that of a branch, or one there was before.
  <1>11. ASSUME NEW a \in DOMAIN h, NEW i \in 1..Len(h[a].down)
         PROVE  \/ a \in W /\ h[a].down[i] \in N /\ own[h[a].down[i]] = a /\ num[h[a].down[i]] = i
                \/ /\ a \in DOMAIN g \ W /\ i \in 1..Len(g[a].down)
                   /\ h[a].down[i] = g[a].down[i] /\ h[a].down[i] \in DOMAIN g
                \/ /\ a \in N /\ start(a) + i \in 1..Len(g[own[a]].down)
                   /\ h[a].down[i] = g[own[a]].down[start(a) + i] /\ h[a].down[i] \in DOMAIN g
    <2>1. CASE a \in W
      BY <1>8, <2>1
    <2>2. CASE a \in DOMAIN g \ W
      BY <1>1, <1>7, <2>2
    <2>3. CASE a \in N
      <3>1. /\ start(a) + i \in 1..Len(g[own[a]].down)
            /\ h[a].down[i] = g[own[a]].down[start(a) + i] /\ own[a] \in DOMAIN g
        <4>1. \A k \in 1..Len(h[a].down) : /\ start(a) + k \in 1..Len(g[own[a]].down)
                                            /\ h[a].down[k] = g[own[a]].down[start(a) + k]
          BY ONLY <1>5, <2>3
        <4>2. i \in 1..Len(h[a].down) /\ own[a] \in DOMAIN g
          BY <1>a, <2>3
        <4> QED
          BY ONLY <4>1, <4>2
      <3>2. h[a].down[i] \in DOMAIN g
        BY ONLY <1>1, <3>1
      <3> QED
        BY ONLY <2>3, <3>1, <3>2
    <2> QED
      BY <1>0, <2>1, <2>2, <2>3
  <1>12. OnePlace(h)
    <2> SUFFICES ASSUME NEW a \in DOMAIN h, NEW b \in DOMAIN h,
                        NEW i \in 1..Len(h[a].down), NEW j \in 1..Len(h[b].down),
                        h[a].down[i] = h[b].down[j]
                 PROVE  a = b /\ i = j
      BY DEF OnePlace
    <2>0. \A c, d \in DOMAIN g : \A k \in 1..Len(g[c].down), l \in 1..Len(g[d].down) :
              g[c].down[k] = g[d].down[l] => c = d /\ k = l
      BY DEF OnePlace
    <2>1. CASE h[a].down[i] \in N
      <3>0. h[a].down[i] \notin DOMAIN g /\ h[b].down[j] = h[a].down[i]
        BY <1>0, <2>1
      <3>1. own[h[a].down[i]] = a /\ num[h[a].down[i]] = i
        BY ONLY <1>11, <3>0
      <3>2. own[h[b].down[j]] = b /\ num[h[b].down[j]] = j
        BY ONLY <1>11, <3>0
      <3>3. h[a].down[i] = h[b].down[j]
        OBVIOUS
      <3> QED
        BY ONLY <3>1, <3>2, <3>3
    <2>2. CASE h[a].down[i] \notin N
      <3>1. \/ a \in DOMAIN g \ W /\ i \in 1..Len(g[a].down) /\ h[a].down[i] = g[a].down[i]
            \/ /\ a \in N /\ start(a) + i \in 1..Len(g[own[a]].down)
               /\ h[a].down[i] = g[own[a]].down[start(a) + i]
        BY <1>11, <2>2
      <3>2. \/ b \in DOMAIN g \ W /\ j \in 1..Len(g[b].down) /\ h[b].down[j] = g[b].down[j]
            \/ /\ b \in N /\ start(b) + j \in 1..Len(g[own[b]].down)
               /\ h[b].down[j] = g[own[b]].down[start(b) + j]
        BY <1>11, <2>2
      <3>3. CASE a \in DOMAIN g /\ b \in DOMAIN g
        BY <2>0, <3>1, <3>2, <3>3
      <3>4. CASE a \in N /\ b \in DOMAIN g
        <4>0. h[a].down[i] = h[b].down[j] /\ own[a] \in W
          BY <1>a, <3>4
        <4>1. b = own[a]
          BY ONLY <1>0, <1>a, <2>0, <3>1, <3>2, <3>4, <4>0
        <4> QED
          BY ONLY <1>0, <3>2, <3>4, <4>0, <4>1
      <3>5. CASE a \in DOMAIN g /\ b \in N
        <4>0. h[a].down[i] = h[b].down[j] /\ own[b] \in W
          BY <1>a, <3>5
        <4>1. a = own[b]
          BY ONLY <1>0, <1>a, <2>0, <3>1, <3>2, <3>5, <4>0
        <4> QED
          BY ONLY <1>0, <3>1, <3>5, <4>0, <4>1
      <3>6. CASE a \in N /\ b \in N
        <4>0. h[a].down[i] = h[b].down[j]
          OBVIOUS
        <4>1. own[a] = own[b] /\ start(a) + i = start(b) + j
          BY ONLY <1>0, <1>a, <2>0, <3>1, <3>2, <3>6, <4>0
        <4>2. /\ num[a] \in Nat /\ num[b] \in Nat /\ i \in Nat /\ j \in Nat
              /\ start(a) \in Nat /\ start(b) \in Nat /\ end(a) \in Nat /\ end(b) \in Nat
              /\ i > 0 /\ j > 0 /\ start(a) + i <= end(a) /\ start(b) + j <= end(b)
          <5>1. K[own[a]] \in Nat /\ K[own[b]] \in Nat /\ num[a] \in 1..K[own[a]] /\ num[b] \in 1..K[own[b]]
            BY <1>2, <1>a, <3>6
          <5>2. start(a) + i <= end(a) /\ start(b) + j <= end(b)
            BY <1>5, <3>6
          <5>3. start(a) \in Nat /\ start(b) \in Nat /\ end(a) \in Nat /\ end(b) \in Nat
            BY <1>3, <3>6
          <5>4. i \in Nat /\ j \in Nat /\ i > 0 /\ j > 0
            OBVIOUS
          <5> QED
            BY ONLY <5>1, <5>2, <5>3, <5>4
        <4>3. ~(num[a] < num[b])
          BY <1>4, <3>6, <4>1, <4>2
        <4>4. ~(num[b] < num[a])
          BY <1>4, <3>6, <4>1, <4>2
        <4>5. num[a] = num[b]
          BY <4>2, <4>3, <4>4
        <4>6. a = b
          BY <1>9, <3>6, <4>1, <4>5
        <4> QED
          BY <4>1, <4>2, <4>6
      <3> QED
        BY <1>0, <3>3, <3>4, <3>5, <3>6
    <2> QED
      BY <2>1, <2>2
  \* Every branch hangs below its agent, and every child below its agent or a branch of it.
  <1>13. ASSUME NEW x \in N PROVE x \in Kids(h, own[x])
    <2>1. own[x] \in W /\ num[x] \in 1..Len(h[own[x]].down)
      BY <1>3, <1>8
    <2>2. h[own[x]].down[num[x]] = x
      BY <1>8, <1>9, <2>1
    <2> QED
      BY <2>1, <2>2 DEF Kids
  <1>14. ASSUME NEW a \in DOMAIN g, NEW z \in Kids(g, a)
         PROVE  \/ z \in Kids(h, a)
                \/ \E x \in N : own[x] = a /\ z \in Kids(h, x)
    <2>1. PICK p \in 1..Len(g[a].down) : z = g[a].down[p]
      BY DEF Kids
    <2>2. CASE a \notin W
      BY <1>7, <2>1, <2>2 DEF Kids
    <2>3. CASE a \in W
      <3>1. PICK c \in 1..K[a] : (c - 1) * m < p /\ p <= ChunkEnd(Len(g[a].down), m, K[a], c)
        BY <1>2, <2>3
      <3> DEFINE x == h[a].down[c]
      <3>2. x \in N /\ own[x] = a /\ num[x] = c
        BY <1>8, <2>3
      <3> HIDE DEF x
      <3>3. start(x) < p /\ p <= end(x)
        BY <3>1, <3>2 DEF start, end
      <3>4. start(x) \in Nat /\ end(x) \in Nat /\ Len(h[x].down) = end(x) - start(x)
        BY <1>3, <1>5, <3>2
      <3>5. p \in Nat
        BY <1>1
      <3>6. p - start(x) \in 1..Len(h[x].down) /\ start(x) + (p - start(x)) = p
        BY <3>3, <3>4, <3>5
      <3>7. h[x].down[p - start(x)] = g[own[x]].down[start(x) + (p - start(x))]
        <4>1. \A k \in 1..Len(h[x].down) : h[x].down[k] = g[own[x]].down[start(x) + k]
          BY ONLY <1>5, <3>2
        <4> QED
          BY ONLY <3>6, <4>1
      <3>8. h[x].down[p - start(x)] = z
        BY <2>1, <3>2, <3>6, <3>7
      <3> QED
        BY <3>2, <3>6, <3>8 DEF Kids
    <2> QED
      BY <2>2, <2>3
  <1>15. ASSUME NEW a \in DOMAIN h, NEW z \in Kids(h, a), z \in DOMAIN g
         PROVE  z \in Below(g)
    <2>1. PICK i \in 1..Len(h[a].down) : z = h[a].down[i]
      BY <1>15 DEF Kids
    <2>2. CASE a \in DOMAIN g /\ i \in 1..Len(g[a].down) /\ z = g[a].down[i]
      BY <2>2 DEF Kids, Below
    <2>3. CASE a \in N /\ start(a) + i \in 1..Len(g[own[a]].down) /\ z = g[own[a]].down[start(a) + i]
      <3>1. z \in Kids(g, own[a]) /\ own[a] \in DOMAIN g
        BY <1>3, <2>3 DEF Kids
      <3> QED
        BY <3>1 DEF Below
    <2> QED
      BY <1>11, <1>15, <2>1, <2>2, <2>3
  <1>16. ASSUME NEW z \in DOMAIN g PROVE z \in Below(g) <=> z \in Below(h)
    <2>1. ASSUME z \in Below(g) PROVE z \in Below(h)
      <3>1. PICK a \in DOMAIN g : z \in Kids(g, a)
        BY <2>1 DEF Below
      <3> QED
        BY <1>0, <1>14, <3>1 DEF Below
    <2>2. ASSUME z \in Below(h) PROVE z \in Below(g)
      <3>1. PICK a \in DOMAIN h : z \in Kids(h, a)
        BY <2>2 DEF Below
      <3> QED
        BY <1>15, <3>1
    <2> QED
      BY <2>1, <2>2
  <1>17. N \subseteq Below(h)
    BY <1>0, <1>3, <1>13 DEF Below
  <1>18. \A a \in DOMAIN g : h[a].top = g[a].top
    BY <1>6, <1>7
  <1>19. Loose(h) = Loose(g)
    BY <1>0, <1>16, <1>17, <1>18 DEF Loose
  <1>20. Tops(h) = Tops(g)
    BY <1>0, <1>5, <1>18 DEF Tops
  <1>21. Found(h, Tops(h) \cup Loose(h))
    <2> SUFFICES ASSUME NEW S \in SUBSET DOMAIN h, Tops(h) \cup Loose(h) \subseteq S,
                        \A a \in S : Kids(h, a) \subseteq S
                 PROVE  S = DOMAIN h
      BY DEF Found
    <2> DEFINE R == S \cap DOMAIN g
    <2>1. R \in SUBSET DOMAIN g /\ Tops(g) \cup Loose(g) \subseteq R
      BY <1>19, <1>20 DEF Tops, Loose
    <2>2. \A x \in N : own[x] \in S => x \in S
      BY <1>13
    <2>3. ASSUME NEW a \in R, NEW z \in Kids(g, a) PROVE z \in R
      <3>1. z \in DOMAIN g
        BY <1>1 DEF Kids
      <3>2. z \in S
        BY <1>14, <2>2
      <3> QED
        BY <3>1, <3>2
    <2> HIDE DEF R
    <2>4. R = DOMAIN g
      BY <2>1, <2>3 DEF Found
    <2>5. DOMAIN g \subseteq S
      BY <2>4 DEF R
    <2>6. N \subseteq S
      BY <1>3, <2>2, <2>5
    <2> QED
      BY <1>0, <2>5, <2>6
  <1>22. ASSUME NEW x \in N PROVE Len(h[x].down) \in 1..m
    <2>1. /\ Len(h[x].down) = end(x) - start(x) /\ start(x) \in Nat /\ end(x) \in Nat
          /\ start(x) < end(x) /\ end(x) - start(x) <= m
      BY <1>3, <1>5
    <2> QED
      BY ONLY <1>c, <2>1
  <1> QED
    BY <1>10, <1>12, <1>19, <1>21, <1>22

\* A hub x for whoever hangs below nobody, below the agent top: all are found from those on
\* top and the hub, and from those on top alone unless the hub hangs below itself.
LEMMA GraphWithHub ==
  ASSUME NEW g, IsNet(g), OnePlace(g), Found(g, Tops(g) \cup Loose(g)), NEW x, x \notin DOMAIN g, NEW top \in DOMAIN g,
         NEW list, Once(list, Loose(g)),
         NEW h \in [DOMAIN g \cup {x} -> [down : Seq(DOMAIN g \cup {x}), top : BOOLEAN]],
         h[x].down = list, ~h[x].top,
         h[top].down = Append(g[top].down, x), h[top].top = g[top].top,
         \A a \in DOMAIN g \ {top} : h[a] = g[a]
  PROVE  /\ IsNet(h) /\ OnePlace(h)
         /\ Found(h, Tops(h) \cup {x}) /\ (Found(h, Tops(h)) \/ Circle(h, x))
  <1>0. DOMAIN h = DOMAIN g \cup {x} /\ x \notin DOMAIN g /\ top \in DOMAIN g
    OBVIOUS
  <1>1. \A a \in DOMAIN g : /\ g[a] \in [down : Seq(DOMAIN g), top : BOOLEAN]
                            /\ g[a].down \in Seq(DOMAIN g) /\ Len(g[a].down) \in Nat
                            /\ \A i \in 1..Len(g[a].down) : g[a].down[i] \in DOMAIN g
    BY NodesOfNet
  <1>2. /\ list \in Seq(Loose(g)) /\ h[x].down = list /\ h[x].top = FALSE
        /\ \A i \in 1..Len(list) : list[i] \in Loose(g)
        /\ \A i, j \in 1..Len(list) : list[i] = list[j] => i = j
    <2>1. list \in Seq(Loose(g))
      BY DEF Once
    <2>3. \A i, j \in 1..Len(list) : list[i] = list[j] => i = j
      BY DEF Once
    <2>4. h[x].down = list /\ h[x].top = FALSE
      OBVIOUS
    <2>5. \A i \in 1..Len(list) : list[i] \in Loose(g)
      BY ONLY <2>1
    <2> QED
      BY ONLY <2>1, <2>3, <2>4, <2>5
  <1>3. /\ h[top].down = Append(g[top].down, x) /\ h[top].top = g[top].top
        /\ Len(h[top].down) = Len(g[top].down) + 1
        /\ h[top].down[Len(g[top].down) + 1] = x
        /\ \A i \in 1..Len(g[top].down) : h[top].down[i] = g[top].down[i]
    <2>1. h[top].down = Append(g[top].down, x) /\ h[top].top = g[top].top
      OBVIOUS
    <2>2. g[top].down \in Seq(DOMAIN g)
      BY <1>1
    <2> QED
      BY ONLY <2>1, <2>2
  <1>4. \A a \in DOMAIN g \ {top} : h[a] = g[a]
    OBVIOUS
  <1>5. Loose(g) \subseteq DOMAIN g
    BY DEF Loose
  <1>6. IsNet(h)
    <2>1. IsFiniteSet(DOMAIN g)
      BY DEF IsNet
    <2>2. IsFiniteSet(DOMAIN h)
      <3>1. IsFiniteSet(DOMAIN g \cup {x})
        BY ONLY <2>1, FS_AddElement
      <3> QED
        BY <1>0, <3>1
    <2>4. h \in [DOMAIN h -> [down : Seq(DOMAIN h), top : BOOLEAN]]
      OBVIOUS
    <2>5. \A a, b \in DOMAIN g : g[a].top /\ g[b].top => a = b
      BY DEF IsNet
    <2>6. ASSUME NEW a \in DOMAIN h, h[a].top PROVE a \in DOMAIN g /\ g[a].top
      BY <1>0, <1>2, <1>3, <1>4, <2>6
    <2>7. \A a, b \in DOMAIN h : h[a].top /\ h[b].top => a = b
      BY ONLY <2>5, <2>6
    <2> QED
      BY <2>2, <2>4, <2>7 DEF IsNet
  <1>7. ASSUME NEW a \in DOMAIN h, NEW i \in 1..Len(h[a].down)
        PROVE  \/ a = x /\ i \in 1..Len(list) /\ h[a].down[i] = list[i] /\ list[i] \in Loose(g)
               \/ a = top /\ i = Len(g[top].down) + 1 /\ h[a].down[i] = x
               \/ /\ a \in DOMAIN g /\ i \in 1..Len(g[a].down)
                  /\ h[a].down[i] = g[a].down[i] /\ g[a].down[i] \in Below(g)
    <2>0. \A c \in DOMAIN g : \A k \in 1..Len(g[c].down) : g[c].down[k] \in Below(g)
      BY DEF Below, Kids
    <2>1. CASE a = x
      BY <1>2, <2>1
    <2>2. CASE a = top
      <3>1. i \in 1..Len(g[top].down) \/ i = Len(g[top].down) + 1
        <4>1. i \in 1..(Len(g[top].down) + 1) /\ Len(g[top].down) \in Nat
          BY <1>1, <1>3, <2>2
        <4> QED
          BY ONLY <4>1
      <3> QED
        BY ONLY <1>0, <1>3, <2>0, <2>2, <3>1
    <2>3. CASE a \in DOMAIN g \ {top}
      BY <1>4, <2>0, <2>3
    <2> QED
      BY <1>0, <2>1, <2>2, <2>3
  <1>8. Loose(g) \cap Below(g) = {} /\ Below(g) \subseteq DOMAIN g
    <2>1. \A a \in DOMAIN g : Kids(g, a) \subseteq DOMAIN g
      BY ONLY <1>1 DEF Kids
    <2> QED
      BY ONLY <2>1 DEF Loose, Below
  <1>9. ASSUME NEW a \in DOMAIN h, NEW b \in DOMAIN h,
               NEW i \in 1..Len(h[a].down), NEW j \in 1..Len(h[b].down),
               h[a].down[i] = h[b].down[j]
        PROVE  a = b /\ i = j
    <2>0. \A c, d \in DOMAIN g : \A k \in 1..Len(g[c].down), l \in 1..Len(g[d].down) :
              g[c].down[k] = g[d].down[l] => c = d /\ k = l
      BY DEF OnePlace
    <2>1. \/ a = x /\ i \in 1..Len(list) /\ h[a].down[i] = list[i] /\ list[i] \in Loose(g)
          \/ a = top /\ i = Len(g[top].down) + 1 /\ h[a].down[i] = x
          \/ /\ a \in DOMAIN g /\ i \in 1..Len(g[a].down)
             /\ h[a].down[i] = g[a].down[i] /\ g[a].down[i] \in Below(g)
      BY ONLY <1>7
    <2>2. \/ b = x /\ j \in 1..Len(list) /\ h[b].down[j] = list[j] /\ list[j] \in Loose(g)
          \/ b = top /\ j = Len(g[top].down) + 1 /\ h[b].down[j] = x
          \/ /\ b \in DOMAIN g /\ j \in 1..Len(g[b].down)
             /\ h[b].down[j] = g[b].down[j] /\ g[b].down[j] \in Below(g)
      BY ONLY <1>7
    <2> QED
      BY ONLY <1>0, <1>2, <1>5, <1>8, <1>9, <2>0, <2>1, <2>2
  <1>10. Kids(h, x) = Loose(g) /\ x \in Kids(h, top)
    <2>1. Loose(g) = {list[i] : i \in 1..Len(list)}
      BY DEF Once
    <2>2. Len(g[top].down) + 1 \in 1..Len(h[top].down)
      <3>1. Len(g[top].down) \in Nat
        BY <1>0, <1>1
      <3> QED
        BY ONLY <1>3, <3>1
    <2> QED
      BY <1>2, <1>3, <2>1, <2>2 DEF Kids
  <1>11. ASSUME NEW a \in DOMAIN g PROVE Kids(g, a) \subseteq Kids(h, a) /\ Kids(g, a) \subseteq DOMAIN g
    <2>1. Kids(g, a) \subseteq DOMAIN g
      BY <1>1 DEF Kids
    <2>2. CASE a = top
      <3>1. Len(g[top].down) \in Nat
        BY <1>0, <1>1
      <3>2. 1..Len(g[top].down) \subseteq 1..Len(h[top].down)
        BY ONLY <1>3, <3>1
      <3>3. ASSUME NEW i \in 1..Len(g[top].down) PROVE g[top].down[i] \in Kids(h, top)
        <4>1. i \in 1..Len(h[top].down) /\ h[top].down[i] = g[top].down[i]
          BY ONLY <1>3, <3>2
        <4> QED
          BY ONLY <4>1 DEF Kids
      <3>4. Kids(g, top) \subseteq Kids(h, top)
        BY ONLY <3>3 DEF Kids
      <3> QED
        BY ONLY <2>1, <2>2, <3>4
    <2>3. CASE a # top
      BY <1>4, <2>1, <2>3 DEF Kids
    <2> QED
      BY <2>2, <2>3
  <1>12. Tops(h) = Tops(g)
    BY <1>0, <1>2, <1>3, <1>4 DEF Tops
  <1>13. ASSUME NEW S \in SUBSET DOMAIN h, \A a \in S : Kids(h, a) \subseteq S,
                Tops(g) \cup Loose(g) \subseteq S
         PROVE  S = DOMAIN h
    <2> DEFINE R == S \cap DOMAIN g
    <2>1. Tops(g) \cup Loose(g) \subseteq R
      BY <1>13 DEF Tops, Loose
    <2>2. \A a \in R : Kids(g, a) \subseteq R
      BY <1>11, <1>13
    <2>3. R = DOMAIN g
      BY <2>1, <2>2 DEF Found
    <2>4. top \in S
      BY <1>0, <2>3
    <2> QED
      BY <1>0, <1>10, <1>13, <2>3, <2>4
  <1>14. Found(h, Tops(h) \cup {x})
    <2> SUFFICES ASSUME NEW S \in SUBSET DOMAIN h, Tops(h) \cup {x} \subseteq S,
                        \A a \in S : Kids(h, a) \subseteq S
                 PROVE  S = DOMAIN h
      BY DEF Found
    <2>1. Tops(g) \cup Loose(g) \subseteq S
      BY <1>10, <1>12
    <2> QED
      BY <1>13, <2>1
  <1>15. ASSUME ~Circle(h, x) PROVE Found(h, Tops(h))
    <2>1. PICK C \in SUBSET DOMAIN h :
              Loose(g) \subseteq C /\ (\A a \in C : Kids(h, a) \subseteq C) /\ x \notin C
      BY <1>10, <1>15 DEF Circle
    <2>2. top \notin C
      BY <1>10, <2>1
    <2> SUFFICES ASSUME NEW S \in SUBSET DOMAIN h, Tops(h) \subseteq S,
                        \A a \in S : Kids(h, a) \subseteq S
                 PROVE  S = DOMAIN h
      BY DEF Found
    <2>3. S \cup C \in SUBSET DOMAIN h /\ \A a \in S \cup C : Kids(h, a) \subseteq S \cup C
      BY <2>1
    <2>4. Tops(g) \cup Loose(g) \subseteq S \cup C
      BY <1>12, <2>1
    <2>5. S \cup C = DOMAIN h
      BY <1>13, <2>3, <2>4
    <2>6. x \in S
      BY <1>0, <2>1, <2>5
    <2>7. Tops(g) \cup Loose(g) \subseteq S
      BY <1>10, <1>12, <2>6
    <2> QED
      BY <1>13, <2>7
  <1>16. OnePlace(h)
    BY <1>9 DEF OnePlace
  <1> QED
    BY <1>6, <1>14, <1>15, <1>16

\* The instance has a copy of these definitions.
LEMMA SiteSets == /\ \A S : Site!Cardinality(S) = Cardinality(S)
                  /\ \A S : Site!IsFiniteSet(S) <=> IsFiniteSet(S)
  BY DEF Site!Cardinality, Cardinality, Site!IsFiniteSet, IsFiniteSet

\* A finite set as a list: everything in it, once.
LEMMA ListOf ==
  ASSUME NEW S, IsFiniteSet(S)
  PROVE  /\ Site!SetToSeq(S) \in Seq(S) /\ Len(Site!SetToSeq(S)) = Cardinality(S)
         /\ S = {Site!SetToSeq(S)[i] : i \in 1..Len(Site!SetToSeq(S))}
         /\ \A i, j \in 1..Len(Site!SetToSeq(S)) :
                Site!SetToSeq(S)[i] = Site!SetToSeq(S)[j] => i = j
  <1> DEFINE n == Cardinality(S)
  <1>1. n \in Nat /\ ExistsBijection(1..n, S)
    BY FS_CardinalityType
  <1>2. \E f \in [1..n -> S] : \A i, j \in 1..n : f[i] = f[j] => i = j
    BY <1>1 DEF ExistsBijection, Bijection, Injection, IsInjective
  <1>3. Site!SetToSeq(S) = CHOOSE f \in [1..n -> S] : Site!IsInjective(f)
    BY SiteSets DEF Site!SetToSeq
  <1>4. \E f \in [1..n -> S] : Site!IsInjective(f)
    BY <1>2 DEF Site!IsInjective
  <1>5. Site!SetToSeq(S) \in [1..n -> S] /\ Site!IsInjective(Site!SetToSeq(S))
    BY <1>3, <1>4
  <1>6. Site!SetToSeq(S) \in Surjection(1..n, S)
    <2>1. Site!SetToSeq(S) \in Injection(1..n, S)
      BY <1>5 DEF Site!IsInjective, Injection, IsInjective
    <2>2. Cardinality(1..n) = n
      BY <1>1, FS_Interval
    <2> QED
      BY <2>1, <2>2, FS_Injection
  <1> HIDE DEF n
  <1>7. Site!SetToSeq(S) \in Seq(S) /\ Len(Site!SetToSeq(S)) = n
    BY <1>1, <1>5
  <1>8. S = {Site!SetToSeq(S)[i] : i \in 1..n}
    BY <1>5, <1>6 DEF Surjection
  <1> QED
    BY <1>5, <1>7, <1>8 DEF Site!IsInjective, n

\* What holds of the agents is said of a network, and what is asked of it.
NetMeaning ==
    /\ Site!linked = Below(agents) /\ Site!unlinked = Loose(agents) /\ Site!tops = Tops(agents)
    /\ \A a \in DOMAIN agents : Site!children(a) = Kids(agents, a)
    /\ \A from : Site!Reach(from) <=> Found(agents, from)
    /\ Site!HubInCircle <=> Site!Hub \in DOMAIN agents /\ Circle(agents, Site!Hub)
    /\ (\A a, b \in DOMAIN agents :
           \A i \in DOMAIN agents[a].down, j \in DOMAIN agents[b].down :
               agents[a].down[i] = agents[b].down[j] => a = b /\ i = j) <=> OnePlace(agents)

LEMMA NetIs == IsNet(agents) => NetMeaning
  <1> SUFFICES ASSUME IsNet(agents) PROVE NetMeaning
    OBVIOUS
  <1>1. ASSUME NEW a \in DOMAIN agents
        PROVE  DOMAIN agents[a].down = 1..Len(agents[a].down) /\ Site!children(a) = Kids(agents, a)
    <2>1. agents[a].down \in Seq(DOMAIN agents)
      BY DEF IsNet
    <2>2. DOMAIN agents[a].down = 1..Len(agents[a].down)
      BY <2>1
    <2> QED
      BY <2>2 DEF Site!children, Site!Range, Kids
  <1>2. Site!linked = Below(agents)
    BY <1>1 DEF Site!linked, Below
  <1>3. Site!unlinked = Loose(agents)
    BY <1>2 DEF Site!unlinked, Loose
  <1>4. /\ \A from : Site!Reach(from) <=> Found(agents, from)
        /\ Site!HubInCircle <=> Site!Hub \in DOMAIN agents /\ Circle(agents, Site!Hub)
    <2>1. \A S \in SUBSET DOMAIN agents :
              Site!Closed(S) <=> (\A a \in S : Kids(agents, a) \subseteq S)
      BY <1>1 DEF Site!Closed
    <2>2. \A from : Site!Reach(from) <=> Found(agents, from)
      BY <2>1 DEF Site!Reach, Found
    <2>3. CASE Site!Hub \in DOMAIN agents
      <3>1. Site!children(Site!Hub) = Kids(agents, Site!Hub)
        BY <1>1, <2>3
      <3> QED
        BY <2>1, <2>2, <2>3, <3>1 DEF Site!HubInCircle, Circle
    <2>4. CASE Site!Hub \notin DOMAIN agents
      BY <2>2, <2>4 DEF Site!HubInCircle
    <2> QED
      BY <2>3, <2>4
  <1>5. (\A a, b \in DOMAIN agents :
            \A i \in DOMAIN agents[a].down, j \in DOMAIN agents[b].down :
               agents[a].down[i] = agents[b].down[j] => a = b /\ i = j) <=> OnePlace(agents)
    <2> DEFINE Places(a) == DOMAIN agents[a].down
               Alone == \A a, b \in DOMAIN agents : \A i \in Places(a), j \in Places(b) :
                            agents[a].down[i] = agents[b].down[j] => a = b /\ i = j
    <2>1. \A a \in DOMAIN agents : Places(a) = 1..Len(agents[a].down)
      BY <1>1
    <2> HIDE DEF Places
    <2>2. ASSUME Alone PROVE OnePlace(agents)
      <3>1. SUFFICES ASSUME NEW a \in DOMAIN agents, NEW b \in DOMAIN agents,
                            NEW i \in 1..Len(agents[a].down), NEW j \in 1..Len(agents[b].down),
                            agents[a].down[i] = agents[b].down[j]
                     PROVE  a = b /\ i = j
        BY DEF OnePlace
      <3>2. i \in Places(a) /\ j \in Places(b)
        BY <2>1
      <3> QED
        BY <2>2, <3>1, <3>2
    <2>3. ASSUME OnePlace(agents) PROVE Alone
      <3>1. SUFFICES ASSUME NEW a \in DOMAIN agents, NEW b \in DOMAIN agents,
                            NEW i \in Places(a), NEW j \in Places(b),
                            agents[a].down[i] = agents[b].down[j]
                     PROVE  a = b /\ i = j
        OBVIOUS
      <3>2. i \in 1..Len(agents[a].down) /\ j \in 1..Len(agents[b].down)
        BY <2>1
      <3> QED
        BY <2>3, <3>1, <3>2 DEF OnePlace
    <2>4. Alone <=> OnePlace(agents)
      BY <2>2, <2>3
    <2> QED
      BY <2>4 DEF Places
  <1>6. Site!tops = Tops(agents)
    BY DEF Site!tops, Tops
  <1> QED
    BY <1>1, <1>2, <1>3, <1>4, <1>5, <1>6 DEF NetMeaning

LEMMA NetIsNext == IsNet(agents') => NetMeaning'
  <1>1. (IsNet(agents) => NetMeaning)'
    BY NetIs, PTL
  <1> QED
    BY <1>1

\* What the invariant says of the network until it is written.
LEMMA CrawledNet ==
  ASSUME Site!SiteInv, phase # "written"
  PROVE  /\ IsNet(agents) /\ OnePlace(agents) /\ Found(agents, Tops(agents) \cup Loose(agents))
         /\ Loose(agents) # {} => Site!Blank \in DOMAIN agents
         /\ Site!Hub \notin DOMAIN agents
  <1>1. IsNet(agents)
    BY SiteSets DEF Site!SiteInv, Site!QueueInv, IsNet
  <1>2. NetMeaning
    BY <1>1, NetIs
  <1>3. OnePlace(agents)
    BY <1>2 DEF NetMeaning, Site!SiteInv, Site!NetworkSound
  <1>4. /\ Found(agents, Tops(agents) \cup Loose(agents))
        /\ Loose(agents) # {} => Site!Blank \in DOMAIN agents
    BY <1>2 DEF NetMeaning, Site!SiteInv, Site!RootsInv
  <1>5. Site!Hub \notin DOMAIN agents
    BY DEF Site!SiteInv, Site!NamesInv, Site!Hub, Site!Plain, Site!Titles
  <1> QED
    BY <1>1, <1>3, <1>4, <1>5

\* What is to be shown of a network that is not written yet.
LEMMA CrawledNext ==
  ASSUME Site!QueueInv', Site!NamesInv', phase' # "written", OnePlace(agents'),
         Found(agents', Tops(agents') \cup Loose(agents')),
         Loose(agents') # {} => Site!Blank \in DOMAIN agents'
  PROVE  Site!SiteInv'
  <1>1. IsNet(agents')
    BY SiteSets DEF Site!QueueInv, IsNet
  <1>2. NetMeaning'
    BY <1>1, NetIsNext
  <1>3. Site!RootsInv'
    BY <1>2 DEF NetMeaning, Site!RootsInv
  <1>4. Site!Hub \notin DOMAIN agents'
    BY DEF Site!NamesInv, Site!Hub, Site!Plain, Site!Titles
  <1>5. Site!NetworkSound'
    BY <1>2, <1>4 DEF NetMeaning, Site!NetworkSound, Site!Hub, Site!Blank, Site!Plain
  <1> QED
    BY <1>3, <1>5 DEF Site!SiteInv

LEMMA SkipKeeps ==
  ASSUME Site!SiteInv, Site!SkipPage
  PROVE  Site!SiteInv'
  <1>1. /\ phase = "crawl" /\ toVisit # <<>> /\ toVisit' = Tail(toVisit)
        /\ maxChildren' = maxChildren /\ visited' = visited /\ agents' = agents
        /\ phase' = phase /\ passes' = passes /\ count' = count
    BY DEF Site!SkipPage, Site!Crawling
  <1>2. /\ toVisit' \in Seq([url : Urls, parent : DOMAIN agents \cup {Site!NoParent}])
        /\ \A i \in DOMAIN toVisit' : toVisit'[i].parent # Site!NoParent
    <2>1. /\ toVisit \in Seq([url : Urls, parent : DOMAIN agents \cup {Site!NoParent}])
          /\ \A i \in DOMAIN toVisit : toVisit[i].parent = Site!NoParent => i = 1
      BY DEF Site!SiteInv, Site!QueueInv
    <2>2. /\ Tail(toVisit) \in Seq([url : Urls, parent : DOMAIN agents \cup {Site!NoParent}])
          /\ \A i \in DOMAIN Tail(toVisit) : i + 1 \in DOMAIN toVisit /\ Tail(toVisit)[i] = toVisit[i + 1] /\ i + 1 # 1
      BY <1>1, <2>1
    <2> QED
      BY ONLY <1>1, <2>1, <2>2
  <1>3. Site!QueueInv'
    BY <1>1, <1>2 DEF Site!SiteInv, Site!QueueInv, Site!NoParent, Site!Blank, Site!Plain
  <1>4. Site!NamesInv'
    BY <1>1 DEF Site!SiteInv, Site!NamesInv, Site!Wide, Site!Branches, Site!Titles
  <1> QED
    BY <1>1, <1>3, <1>4, CrawledNet, CrawledNext

LEMMA EndsKeeps ==
  ASSUME Site!SiteInv, Site!CrawlEnds
  PROVE  Site!SiteInv'
  <1>1. /\ phase = "crawl" /\ phase' = "limit" /\ toVisit' = toVisit
        /\ maxChildren' = maxChildren /\ visited' = visited /\ agents' = agents
        /\ passes' = passes /\ count' = count
    BY DEF Site!CrawlEnds
  <1>3. Site!QueueInv'
    BY <1>1 DEF Site!SiteInv, Site!QueueInv, Site!NoParent, Site!Blank, Site!Plain
  <1>4. Site!NamesInv'
    BY <1>1 DEF Site!SiteInv, Site!NamesInv, Site!Wide, Site!Branches, Site!Titles
  <1> QED
    BY <1>1, <1>3, <1>4, CrawledNet, CrawledNext

\* The name of a new agent is not taken.
LEMMA NameIsNew ==
  ASSUME Site!SiteInv, phase = "crawl", NEW heading \in Site!Titles, NEW url \in Urls \ visited
  PROVE  /\ Site!Name(heading, url) \notin DOMAIN agents
         /\ Site!Name(heading, url) \in [title : Site!Titles, of : {url, ""}, branch : {0}]
         /\ Site!Name(heading, url) # Site!NoParent
  <1>1. \A a \in DOMAIN agents : a.of \in visited \cup {""}
    BY DEF Site!SiteInv, Site!NamesInv
  <1>2. url # "" /\ url # "no parent" /\ url \notin visited
    BY SiteAssumption
  <1> QED
    BY <1>1, <1>2 DEF Site!Name, Site!Plain, Site!NoParent, Site!Blank

LEMMA ProcessKeeps ==
  ASSUME Site!SiteInv, NEW heading \in Site!Titles, NEW n \in Links, NEW cut \in BOOLEAN,
         Site!ProcessPage(heading, n, cut)
  PROVE  Site!SiteInv'
  <1> DEFINE first == Head(toVisit)
             new   == Site!Name(heading, first.url)
             fresh == Site!SetToSeq(Urls \ (visited \cup {toVisit[i].url : i \in DOMAIN toVisit}))
             Entry(names) == [url : Urls, parent : names \cup {Site!NoParent}]
  <1>1. /\ phase = "crawl" /\ toVisit # <<>> /\ phase' = phase /\ passes' = passes
        /\ maxChildren' = maxChildren /\ first.url \notin visited /\ n <= Len(fresh)
        /\ agents' = Site!WithAgent(new, first.parent) /\ visited' = visited \cup {first.url}
        /\ count < MaxAgents /\ count' = IF cut THEN count ELSE count + 1
        /\ toVisit' = Tail(toVisit) \o [i \in 1..n |-> [url |-> fresh[i], parent |-> new]]
    BY DEF Site!ProcessPage, Site!Crawling
  <1>2. /\ toVisit \in Seq(Entry(DOMAIN agents))
        /\ \A i \in DOMAIN toVisit : toVisit[i].parent = Site!NoParent => (i = 1 /\ DOMAIN agents = {})
        /\ n \in Nat /\ visited \subseteq Urls
    BY SiteAssumption DEF Site!SiteInv, Site!QueueInv
  <1>3. /\ first \in Entry(DOMAIN agents)
        /\ first.parent = Site!NoParent => DOMAIN agents = {}
        /\ Tail(toVisit) \in Seq(Entry(DOMAIN agents))
        /\ \A i \in DOMAIN Tail(toVisit) : Tail(toVisit)[i].parent # Site!NoParent
    <2>1. /\ first = toVisit[1] /\ 1 \in DOMAIN toVisit /\ first \in Entry(DOMAIN agents)
          /\ Tail(toVisit) \in Seq(Entry(DOMAIN agents))
          /\ \A i \in DOMAIN Tail(toVisit) : i + 1 \in DOMAIN toVisit /\ Tail(toVisit)[i] = toVisit[i + 1] /\ i + 1 # 1
      <3> HIDE DEF Entry
      <3> QED
        BY <1>1, <1>2
    <2> QED
      BY ONLY <1>2, <2>1
  <1>4. fresh \in Seq(Urls)
    <2> DEFINE left == Urls \ (visited \cup {toVisit[i].url : i \in DOMAIN toVisit})
    <2>1. IsFiniteSet(left) /\ left \subseteq Urls
      BY SiteAssumption, FS_Subset
    <2> HIDE DEF left
    <2>2. Site!SetToSeq(left) \in Seq(left)
      BY <2>1, ListOf
    <2> QED
      BY <2>1, <2>2 DEF left
  <1>5. /\ new \notin DOMAIN agents /\ new # Site!NoParent
        /\ new \in [title : Site!Titles, of : {first.url, ""}, branch : {0}]
    BY <1>1, <1>3, NameIsNew
  <1> HIDE DEF new, fresh
  <1> DEFINE P == {first.parent} \cap (DOMAIN agents \ {Site!Blank})
             T == [down : Seq(DOMAIN agents \cup {new}), top : BOOLEAN]
  <1>6. /\ agents' \in [DOMAIN agents \cup {new} -> T]
        /\ \A a \in DOMAIN agents :
               /\ agents'[a].down = IF a \in P THEN Append(agents[a].down, new) ELSE agents[a].down
               /\ agents'[a].top = agents[a].top
        /\ agents'[new].down = <<>>
        /\ agents'[new].top = TRUE => first.parent = Site!NoParent
        /\ first.parent = Site!NoParent => agents'[new].top = TRUE
    <2> DEFINE hung == IF first.parent \in DOMAIN agents \ {Site!Blank}
                         THEN [agents EXCEPT ![first.parent].down = Append(@, new)] ELSE agents
    <2>1. agents' = [a \in DOMAIN agents \cup {new} |->
                        IF a = new THEN [down |-> <<>>, top |-> first.parent = Site!NoParent] ELSE hung[a]]
      BY <1>1 DEF Site!WithAgent
    <2>2. agents \in [DOMAIN agents -> [down : Seq(DOMAIN agents), top : BOOLEAN]]
      BY DEF Site!SiteInv, Site!QueueInv
    <2>3. ASSUME NEW a \in DOMAIN agents
          PROVE  /\ hung[a] = [down |-> IF a \in P THEN Append(agents[a].down, new) ELSE agents[a].down,
                               top |-> agents[a].top]
                 /\ hung[a] \in T
      <3>1. agents[a] \in [down : Seq(DOMAIN agents), top : BOOLEAN]
        BY <2>2
      <3>2. agents[a] = [down |-> agents[a].down, top |-> agents[a].top]
        BY <3>1
      <3>3. hung[a] = [down |-> IF a \in P THEN Append(agents[a].down, new) ELSE agents[a].down,
                       top |-> agents[a].top]
        BY <2>2, <3>2
      <3>4. /\ agents[a].down \in Seq(DOMAIN agents \cup {new}) /\ agents[a].top \in BOOLEAN
            /\ Append(agents[a].down, new) \in Seq(DOMAIN agents \cup {new})
        BY <3>1
      <3> HIDE DEF hung, P
      <3>5. [down |-> IF a \in P THEN Append(agents[a].down, new) ELSE agents[a].down,
             top |-> agents[a].top] \in T
        BY ONLY <3>4
      <3> QED
        BY ONLY <3>3, <3>5
    <2>4. [down |-> <<>>, top |-> first.parent = Site!NoParent] \in T
      <3>1. <<>> \in Seq(DOMAIN agents \cup {new}) /\ (first.parent = Site!NoParent) \in BOOLEAN
        OBVIOUS
      <3> QED
        BY ONLY <3>1
    <2> HIDE DEF hung, P, T, first
    <2>5. agents' \in [DOMAIN agents \cup {new} -> T]
      BY ONLY <2>1, <2>3, <2>4
    <2>6. agents'[new] = [down |-> <<>>, top |-> first.parent = Site!NoParent]
      BY ONLY <2>1
    <2>7. \A a \in DOMAIN agents : agents'[a] = hung[a]
      BY ONLY <1>5, <2>1
    <2>8. ASSUME NEW a \in DOMAIN agents
          PROVE  /\ agents'[a].down = IF a \in P THEN Append(agents[a].down, new) ELSE agents[a].down
                 /\ agents'[a].top = agents[a].top
      <3>1. agents'[a] = [down |-> IF a \in P THEN Append(agents[a].down, new) ELSE agents[a].down,
                          top |-> agents[a].top]
        BY ONLY <2>3, <2>7
      <3> QED
        BY ONLY <3>1
    <2>9. agents'[new].down = <<>> /\ agents'[new].top = (first.parent = Site!NoParent)
      BY ONLY <2>6
    <2> QED
      BY ONLY <2>5, <2>8, <2>9
  <1>7. IsNet(agents) /\ OnePlace(agents) /\ Found(agents, Tops(agents) \cup Loose(agents))
    BY <1>1, CrawledNet
  <1>8. P \in SUBSET DOMAIN agents /\ (\A a, b \in P : a = b) /\ (agents'[new].top = TRUE => DOMAIN agents = {})
    BY <1>3, <1>6
  <1>9. /\ Site!Blank \in DOMAIN agents \/ Loose(agents) = {}
        /\ Site!Blank \in DOMAIN agents \/ agents'[new].top = TRUE \/ P # {}
    BY <1>1, <1>3, <1>6, CrawledNet
  <1> HIDE DEF P
  <1>10. /\ IsNet(agents') /\ OnePlace(agents') /\ Found(agents', Tops(agents') \cup Loose(agents'))
         /\ Loose(agents') = Loose(agents) \cup (IF agents'[new].top = TRUE \/ P # {} THEN {} ELSE {new})
    <2> HIDE DEF first, Entry
    <2> QED
      BY ONLY <1>5, <1>6, <1>7, <1>8, GraphWithAgent
  <1> HIDE DEF T
  <1>11. Loose(agents') # {} => Site!Blank \in DOMAIN agents'
    BY <1>6, <1>9, <1>10
  <1>12. /\ toVisit' \in Seq(Entry(DOMAIN agents'))
         /\ \A i \in DOMAIN toVisit' : toVisit'[i].parent # Site!NoParent
    <2> DEFINE more == [i \in 1..n |-> [url |-> fresh[i], parent |-> new]]
    <2>1. ASSUME NEW i \in 1..n
          PROVE  /\ [url |-> fresh[i], parent |-> new] \in Entry(DOMAIN agents')
                 /\ [url |-> fresh[i], parent |-> new].parent # Site!NoParent
      <3>1. fresh[i] \in Urls /\ new \in DOMAIN agents'
        BY <1>1, <1>2, <1>4, <1>6
      <3> QED
        BY <1>5, <3>1
    <2>2. Tail(toVisit) \in Seq(Entry(DOMAIN agents'))
      <3>1. Entry(DOMAIN agents) \subseteq Entry(DOMAIN agents')
        BY <1>6
      <3> HIDE DEF Entry
      <3> QED
        BY <1>3, <3>1
    <2>3. /\ more \in Seq(Entry(DOMAIN agents')) /\ Len(more) = n
          /\ \A i \in 1..n : more[i].parent # Site!NoParent
      <3> HIDE DEF Entry
      <3> QED
        BY <1>2, <2>1
    <2>4. toVisit' = Tail(toVisit) \o more
      BY <1>1
    <2> HIDE DEF more, Entry, first
    <2>5. /\ toVisit' \in Seq(Entry(DOMAIN agents'))
          /\ \A i \in DOMAIN toVisit' : \/ i \in DOMAIN Tail(toVisit) /\ toVisit'[i] = Tail(toVisit)[i]
                                        \/ i - Len(Tail(toVisit)) \in 1..n /\ toVisit'[i] = more[i - Len(Tail(toVisit))]
      BY ONLY <1>2, <2>2, <2>3, <2>4
    <2> QED
      BY ONLY <1>3, <2>3, <2>5
  <1>13. \A a \in DOMAIN agents' : /\ a \in [title : Site!Titles, of : visited' \cup {""}, branch : Nat]
                                   /\ a.branch = 0
    <2>1. \A a \in DOMAIN agents : /\ a \in [title : Site!Titles, of : visited \cup {""}, branch : Nat]
                                   /\ a.branch = 0
      BY <1>1 DEF Site!SiteInv, Site!NamesInv
    <2>2. visited \subseteq visited' /\ first.url \in visited' /\ DOMAIN agents' = DOMAIN agents \cup {new}
      BY <1>1, <1>6
    <2> HIDE DEF first
    <2>3. /\ new \in [title : Site!Titles, of : visited' \cup {""}, branch : Nat]
          /\ new.branch = 0
      <3>1. new \in [title : Site!Titles, of : {first.url, ""}, branch : {0}]
        BY ONLY <1>5
      <3>2. {first.url, ""} \subseteq visited' \cup {""}
        BY ONLY <2>2
      <3>3. \A Y, Z, r : r \in [title : Y, of : Z, branch : {0}] => r.branch = 0
        OBVIOUS
      <3>4. \A Y, Z, X, r : Z \subseteq X /\ r \in [title : Y, of : Z, branch : {0}] => r \in [title : Y, of : X, branch : Nat]
        OBVIOUS
      <3> QED
        BY ONLY <3>1, <3>2, <3>3, <3>4
    <2>4. [title : Site!Titles, of : visited \cup {""}, branch : Nat] \subseteq
          [title : Site!Titles, of : visited' \cup {""}, branch : Nat]
      BY ONLY <2>2
    <2> QED
      BY ONLY <2>1, <2>2, <2>3, <2>4
  <1>14. Site!QueueInv'
    <2>1. visited' \subseteq Urls
      BY <1>1, <1>2, <1>3
    <2>2. IsFiniteSet(DOMAIN agents') /\ agents' \in [DOMAIN agents' -> [down : Seq(DOMAIN agents'), top : BOOLEAN]]
          /\ \A a, b \in DOMAIN agents' : agents'[a].top /\ agents'[b].top => a = b
      BY <1>10 DEF IsNet
    <2>3. maxChildren' \in Limits /\ passes' \in 0..MaxPasses /\ phase' \in {"crawl", "limit", "written"}
      BY <1>1 DEF Site!SiteInv, Site!QueueInv
    <2>4. count' \in 0..MaxAgents
      <3>1. count \in 0..MaxAgents /\ MaxAgents \in Nat
        BY BoundsAssumption DEF Site!SiteInv, Site!QueueInv
      <3> QED
        BY ONLY <1>1, <3>1
    <2> QED
      BY <1>12, <2>1, <2>2, <2>3, <2>4, SiteSets DEF Site!QueueInv, Site!NoParent, Site!Blank, Site!Plain
  <1>15. Site!NamesInv'
    <2>1. \A a \in DOMAIN agents' : Site!Branches(a)' = {}
      <3>1. ASSUME NEW a \in DOMAIN agents' PROVE Site!Branches(a)' \subseteq {b \in DOMAIN agents' : b.branch > 0}
        BY ONLY Zenon DEF Site!Branches
      <3>2. {b \in DOMAIN agents' : b.branch > 0} = {}
        <4>1. \A b \in DOMAIN agents' : b.branch = 0
          BY ONLY <1>13
        <4> QED
          BY ONLY <4>1
      <3> QED
        BY ONLY <3>1, <3>2
    <2> QED
      BY <1>13, <2>1 DEF Site!NamesInv, Site!Branches, Site!Titles
  <1>16. phase' # "written"
    BY <1>1
  <1> QED
    BY ONLY <1>10, <1>11, <1>14, <1>15, <1>16, CrawledNext

\* What is to be shown of the network that is written.
LEMMA WrittenNext ==
  ASSUME Site!QueueInv', phase' = "written", OnePlace(agents'),
         Site!Hub \in DOMAIN agents' => Site!Blank \in DOMAIN agents',
         Found(agents', Tops(agents') \cup ({Site!Hub} \cap DOMAIN agents')),
         Found(agents', Tops(agents')) \/ (Site!Hub \in DOMAIN agents' /\ Circle(agents', Site!Hub)),
         \A a \in DOMAIN agents' : Site!Wide(a)' => a = Site!Hub \/ Site!Hub \in Kids(agents', a)
  PROVE  Site!SiteInv'
  <1>1. IsNet(agents')
    BY SiteSets DEF Site!QueueInv, IsNet
  <1>2. NetMeaning'
    BY <1>1, NetIsNext
  <1>3. Site!NamesInv' /\ Site!RootsInv'
    BY DEF Site!NamesInv, Site!RootsInv
  <1>4. /\ Site!Reach(Site!tops \cup ({Site!Hub} \cap DOMAIN agents))'
        /\ (Site!Reach(Site!tops) \/ Site!HubInCircle)'
        /\ (\A a \in DOMAIN agents : Site!Wide(a) => a = Site!Hub \/ Site!Hub \in Site!children(a))'
    BY <1>2 DEF NetMeaning, Site!Hub, Site!Plain
  <1>5. Site!NetworkSound'
    BY <1>2, <1>4 DEF NetMeaning, Site!NetworkSound, Site!Hub, Site!Blank, Site!Plain
  <1> QED
    BY <1>3, <1>5 DEF Site!SiteInv

LEMMA WriteKeeps ==
  ASSUME Site!SiteInv, Site!WriteNetwork
  PROVE  Site!SiteInv'
  <1>1. /\ phase = "limit" /\ phase' = "written" /\ \A a \in DOMAIN agents : ~Site!Wide(a)
        /\ maxChildren' = maxChildren /\ toVisit' = toVisit /\ visited' = visited /\ passes' = passes
        /\ count' = count
    BY DEF Site!WriteNetwork
  <1>2. /\ IsNet(agents) /\ OnePlace(agents) /\ Found(agents, Tops(agents) \cup Loose(agents))
        /\ Loose(agents) # {} => Site!Blank \in DOMAIN agents
        /\ Site!Hub \notin DOMAIN agents
    BY <1>1, CrawledNet
  <1>3. Site!unlinked = Loose(agents)
    BY <1>2, NetIs DEF NetMeaning
  <1>4. CASE Site!unlinked = {} /\ agents' = agents
    <2>1. Site!QueueInv'
      BY <1>1, <1>4 DEF Site!SiteInv, Site!QueueInv, Site!NoParent, Site!Blank, Site!Plain
    <2>2. Found(agents', Tops(agents'))
      BY <1>2, <1>3, <1>4
    <2>3. \A a \in DOMAIN agents' : ~(Site!Wide(a)')
      BY <1>1, <1>4 DEF Site!Wide
    <2>4. OnePlace(agents') /\ Site!Hub \notin DOMAIN agents'
      BY <1>2, <1>4
    <2>5. Tops(agents') \cup ({Site!Hub} \cap DOMAIN agents') = Tops(agents')
      BY <2>4
    <2> QED
      BY ONLY <1>1, <2>1, <2>2, <2>3, <2>4, <2>5, WrittenNext
  <1>5. ASSUME Site!unlinked # {}, NEW top \in DOMAIN agents, agents' = Site!WithHub(top)
        PROVE  Site!SiteInv'
    <2> DEFINE list == Site!SetToSeq(Loose(agents))
               T == [down : Seq(DOMAIN agents \cup {Site!Hub}), top : BOOLEAN]
    <2>1. /\ list \in Seq(Loose(agents)) /\ Loose(agents) = {list[i] : i \in 1..Len(list)}
          /\ \A i, j \in 1..Len(list) : list[i] = list[j] => i = j
      <3>1. IsFiniteSet(Loose(agents))
        BY <1>2, FS_Subset DEF Loose, IsNet
      <3> QED
        BY <3>1, ListOf
    <2> HIDE DEF list
    <2>2. agents' = [a \in DOMAIN agents \cup {Site!Hub} |->
                        IF a = Site!Hub THEN [down |-> list, top |-> FALSE]
                        ELSE IF a = top THEN [agents[a] EXCEPT !.down = Append(@, Site!Hub)] ELSE agents[a]]
      BY <1>3, <1>5 DEF Site!WithHub, list
    <2>3. /\ DOMAIN agents' = DOMAIN agents \cup {Site!Hub}
          /\ agents'[Site!Hub] = [down |-> list, top |-> FALSE]
          /\ agents'[top] = [agents[top] EXCEPT !.down = Append(@, Site!Hub)]
          /\ \A a \in DOMAIN agents \ {top} : agents'[a] = agents[a]
      BY ONLY <1>2, <1>5, <2>2
    <2>4. agents[top] = [down |-> agents[top].down, top |-> agents[top].top]
      <3>1. agents[top] \in [down : Seq(DOMAIN agents), top : BOOLEAN]
        BY <1>2 DEF IsNet
      <3> QED
        BY ONLY <3>1
    <2>5. agents'[top] = [down |-> Append(agents[top].down, Site!Hub), top |-> agents[top].top]
      BY ONLY <2>3, <2>4
    <2>6. /\ agents'[Site!Hub].down = list /\ agents'[Site!Hub].top = FALSE
          /\ agents'[top].down = Append(agents[top].down, Site!Hub)
          /\ agents'[top].top = agents[top].top
      BY ONLY <2>3, <2>5
    <2>a. agents' \in [DOMAIN agents \cup {Site!Hub} -> T]
      <3>1. agents \in [DOMAIN agents -> [down : Seq(DOMAIN agents), top : BOOLEAN]]
        BY <1>2 DEF IsNet
      <3>2. agents' \in [DOMAIN agents \cup {Site!Hub} -> {agents'[a] : a \in DOMAIN agents \cup {Site!Hub}}]
        BY ONLY <2>2
      <3>3. ASSUME NEW a \in DOMAIN agents PROVE agents[a] \in T
        BY ONLY <3>1
      <3>4. agents[top].down \in Seq(DOMAIN agents) /\ agents[top].top \in BOOLEAN
        BY ONLY <1>5, <3>1
      <3>5. agents'[top] \in T
        BY ONLY <2>5, <3>4
      <3>6. list \in Seq(DOMAIN agents \cup {Site!Hub})
        BY ONLY <2>1 DEF Loose
      <3>7. agents'[Site!Hub] \in T
        BY ONLY <2>3, <3>6
      <3> HIDE DEF T
      <3>8. ASSUME NEW a \in DOMAIN agents \cup {Site!Hub} PROVE agents'[a] \in T
        BY ONLY <2>3, <3>3, <3>5, <3>7
      <3> QED
        BY ONLY <3>2, <3>8
    <2>7. /\ IsNet(agents') /\ OnePlace(agents')
          /\ Found(agents', Tops(agents') \cup {Site!Hub})
          /\ Found(agents', Tops(agents')) \/ Circle(agents', Site!Hub)
      <3> DEFINE x == Site!Hub
      <3>1. IsNet(agents) /\ OnePlace(agents) /\ Found(agents, Tops(agents) \cup Loose(agents)) /\ x \notin DOMAIN agents /\ top \in DOMAIN agents
        BY <1>2
      <3>2. ~agents'[x].top
        BY ONLY <2>6
      <3>3. \A a \in DOMAIN agents \ {top} : agents'[a] = agents[a]
        BY <2>3
      <3>4. /\ agents'[x].down = list
            /\ agents'[top].down = Append(agents[top].down, x)
            /\ agents'[top].top = agents[top].top
        BY <2>6
      <3> HIDE DEF x
      <3>5. agents' \in [DOMAIN agents \cup {x} -> [down : Seq(DOMAIN agents \cup {x}), top : BOOLEAN]]
        BY ONLY <2>a DEF x
      <3> HIDE DEF T
      <3>6. Once(list, Loose(agents))
        BY ONLY <2>1 DEF Once
      <3>7. /\ IsNet(agents') /\ OnePlace(agents')
            /\ Found(agents', Tops(agents') \cup {x})
            /\ Found(agents', Tops(agents')) \/ Circle(agents', x)
        BY ONLY <3>1, <3>2, <3>3, <3>4, <3>5, <3>6, GraphWithHub
      <3> QED
        BY ONLY <3>7 DEF x
    <2>8. Site!QueueInv'
      <3>1. /\ toVisit \in Seq([url : Urls, parent : DOMAIN agents \cup {Site!NoParent}])
            /\ \A i \in DOMAIN toVisit : toVisit[i].parent # Site!NoParent
        BY DEF Site!SiteInv, Site!QueueInv
      <3>2. toVisit' \in Seq([url : Urls, parent : DOMAIN agents' \cup {Site!NoParent}])
        <4>1. [url : Urls, parent : DOMAIN agents \cup {Site!NoParent}] \subseteq
              [url : Urls, parent : DOMAIN agents' \cup {Site!NoParent}]
          BY <2>3
        <4>2. \A X, Y, q : X \subseteq Y /\ q \in Seq(X) => q \in Seq(Y)
          OBVIOUS
        <4>3. toVisit \in Seq([url : Urls, parent : DOMAIN agents' \cup {Site!NoParent}])
          BY ONLY <3>1, <4>1, <4>2
        <4> QED
          BY ONLY <1>1, <4>3
      <3>3. IsFiniteSet(DOMAIN agents') /\ agents' \in [DOMAIN agents' -> [down : Seq(DOMAIN agents'), top : BOOLEAN]]
            /\ \A a, b \in DOMAIN agents' : agents'[a].top /\ agents'[b].top => a = b
        BY <2>7 DEF IsNet
      <3>4. /\ maxChildren' \in Limits /\ visited' \subseteq Urls /\ count' \in 0..MaxAgents
            /\ passes' \in 0..MaxPasses /\ phase' \in {"crawl", "limit", "written"}
        BY <1>1 DEF Site!SiteInv, Site!QueueInv
      <3> QED
        BY <1>1, <3>1, <3>2, <3>3, <3>4, SiteSets DEF Site!QueueInv, Site!NoParent, Site!Blank, Site!Plain
    <2>9. Site!Hub \in DOMAIN agents' /\ Site!Blank \in DOMAIN agents'
      BY <1>2, <1>3, <1>5, <2>3
    <2>10. ASSUME NEW a \in DOMAIN agents', Site!Wide(a)'
           PROVE  a = Site!Hub \/ Site!Hub \in Kids(agents', a)
      <3>1. CASE a = top
        <4>1. agents[top].down \in Seq(DOMAIN agents)
          BY <1>2, <1>5 DEF IsNet
        <4>2. /\ Len(Append(agents[top].down, Site!Hub)) \in 1..Len(Append(agents[top].down, Site!Hub))
              /\ Append(agents[top].down, Site!Hub)[Len(Append(agents[top].down, Site!Hub))] = Site!Hub
          BY ONLY <4>1
        <4> QED
          BY ONLY <2>6, <3>1, <4>2 DEF Kids
      <3>2. CASE a \in DOMAIN agents \ {top}
        <4>1. agents'[a] = agents[a] /\ ~Site!Wide(a)
          BY <1>1, <2>3, <3>2
        <4>2. ~(Site!Wide(a)')
          BY ONLY <1>1, <4>1 DEF Site!Wide
        <4> QED
          BY ONLY <2>10, <4>2
      <3> QED
        BY <2>3, <3>1, <3>2
    <2>11. Tops(agents') \cup ({Site!Hub} \cap DOMAIN agents') = Tops(agents') \cup {Site!Hub}
      BY <2>9
    <2> QED
      BY ONLY <1>1, <2>7, <2>8, <2>9, <2>10, <2>11, WrittenNext
  <1> QED
    BY <1>4, <1>5 DEF Site!WriteNetwork

\* A branch of an agent has a new name, from which the agent and the number are known.
LEMMA BranchIs ==
  ASSUME Site!SiteInv, phase # "written", NEW a \in DOMAIN agents, a.branch = 0
  PROVE  /\ IsFiniteSet(Site!Branches(a)) /\ Cardinality(Site!Branches(a)) \in Nat
         /\ \A i \in Nat \ {0} :
                /\ Site!Branch(a, i) \notin DOMAIN agents
                /\ Site!Branch(a, i) \in [title : Site!Titles, of : visited \cup {""}, branch : Nat]
                /\ Site!Branch(a, i).branch = Cardinality(Site!Branches(a)) + i
                /\ [Site!Branch(a, i) EXCEPT !.branch = 0] = a
  <1> DEFINE c == Cardinality(Site!Branches(a))
             Names == [title : Site!Titles, of : visited \cup {""}, branch : Nat]
  <1>1. a \in Names /\ \A b \in Site!Branches(a) : b.branch <= c
    BY SiteSets DEF Site!SiteInv, Site!NamesInv
  <1>2. IsFiniteSet(Site!Branches(a)) /\ c \in Nat
    <2>1. IsFiniteSet(DOMAIN agents)
      BY SiteSets DEF Site!SiteInv, Site!QueueInv
    <2>2. Site!Branches(a) \subseteq DOMAIN agents
      BY Zenon DEF Site!Branches
    <2> QED
      BY <2>1, <2>2, FS_Subset, FS_CardinalityType
  <1>3. \A i \in Nat : Site!Branch(a, i) = [a EXCEPT !.branch = c + i]
    BY SiteSets DEF Site!Branch
  <1> HIDE DEF c
  <1>4. ASSUME NEW i \in Nat \ {0}
        PROVE  /\ Site!Branch(a, i) \in Names /\ Site!Branch(a, i).branch = c + i
               /\ [Site!Branch(a, i) EXCEPT !.branch = 0] = a
               /\ Site!Branch(a, i) \notin DOMAIN agents
    <2>1. Site!Branch(a, i) = [a EXCEPT !.branch = c + i] /\ c + i \in Nat /\ c + i > c
      BY <1>2, <1>3
    <2>a. c \in Nat /\ i \in Nat /\ c + i > c /\ c + i > 0 /\ c + i \in Nat /\ ~(c + i <= c)
      <3>1. c \in Nat
        BY ONLY <1>2
      <3>2. i \in Nat \ {0}
        OBVIOUS
      <3> QED
        BY ONLY <3>1, <3>2
    <2>2. a = [title |-> a.title, of |-> a.of, branch |-> 0] /\ a.title \in Site!Titles /\ a.of \in visited \cup {""}
      BY <1>1
    <2>3. Site!Branch(a, i) = [title |-> a.title, of |-> a.of, branch |-> c + i]
      BY ONLY <2>1, <2>2
    <2>4. Site!Branch(a, i) \in Names /\ Site!Branch(a, i).branch = c + i
      BY ONLY <2>1, <2>2, <2>3
    <2>5. [Site!Branch(a, i) EXCEPT !.branch = 0] = a
      <3> DEFINE Unsplit(x) == [x EXCEPT !.branch = 0]
      <3>1. \A t, o, n : Unsplit([title |-> t, of |-> o, branch |-> n]) = [title |-> t, of |-> o, branch |-> 0]
        OBVIOUS
      <3> HIDE DEF Unsplit
      <3>2. Unsplit(Site!Branch(a, i)) = a
        BY ONLY <2>2, <2>3, <3>1
      <3> QED
        BY ONLY <3>2 DEF Unsplit
    <2>6. ASSUME Site!Branch(a, i) \in DOMAIN agents PROVE FALSE
      <3>1. [Site!Branch(a, i) EXCEPT !.branch = a.branch] = a /\ Site!Branch(a, i).branch > 0
        <4>1. a.branch = 0
          OBVIOUS
        <4>2. [Site!Branch(a, i) EXCEPT !.branch = a.branch] = a
          BY ONLY <2>5, <4>1, Zenon
        <4>3. Site!Branch(a, i).branch > 0
          BY ONLY <2>a, <2>4
        <4> QED
          BY ONLY <4>2, <4>3
      <3>2. Site!Branch(a, i) \in Site!Branches(a)
        BY ONLY <2>6, <3>1 DEF Site!Branches
      <3> QED
        <4>1. Site!Branch(a, i).branch = c + i
          BY ONLY <2>4
        <4>2. Site!Branch(a, i).branch <= c
          BY ONLY <1>1, <3>2, Zenon
        <4> QED
          BY ONLY <2>a, <4>1, <4>2
    <2> QED
      BY <2>4, <2>5, <2>6
  <1> QED
    BY <1>2, <1>4 DEF c

\* There are as many new branches as there are numbers for them.
LEMMA BranchesCounted ==
  ASSUME Site!SiteInv, phase # "written", NEW a \in DOMAIN agents, a.branch = 0, NEW k \in Nat
  PROVE  /\ IsFiniteSet({Site!Branch(a, i) : i \in 1..k})
         /\ Cardinality({Site!Branch(a, i) : i \in 1..k}) = k
  <1> DEFINE B == {Site!Branch(a, i) : i \in 1..k}
             f == [i \in 1..k |-> Site!Branch(a, i)]
  <1>1. IsFiniteSet(1..k) /\ Cardinality(1..k) = k
    BY FS_Interval
  <1>2. \A i, j \in 1..k : f[i] = f[j] => i = j
    <2>1. \A i \in 1..k : f[i].branch = Cardinality(Site!Branches(a)) + i
      <3>1. ASSUME NEW i \in 1..k PROVE f[i].branch = Cardinality(Site!Branches(a)) + i
        <4>1. i \in Nat \ {0} /\ f[i] = Site!Branch(a, i)
          OBVIOUS
        <4> HIDE DEF f
        <4>2. Site!Branch(a, i).branch = Cardinality(Site!Branches(a)) + i
          BY <4>1, BranchIs, Zenon
        <4> QED
          BY ONLY <4>1, <4>2
      <3> QED
        BY <3>1
    <2>2. Cardinality(Site!Branches(a)) \in Nat
      BY BranchIs
    <2> HIDE DEF f
    <2> QED
      BY <2>1, <2>2
  <1>3. f \in Surjection(1..k, B)
    BY DEF Surjection
  <1>4. f \in Injection(1..k, B)
    BY <1>2, <1>3 DEF Surjection, Injection, IsInjective
  <1> HIDE DEF f, B
  <1>5. IsFiniteSet(B) /\ Cardinality(B) = k
    BY <1>1, <1>3, <1>4, FS_Surjection
  <1> QED
    BY <1>5 DEF B

\* The branches of a pass: each is one of a too wide agent, with a number of its own.
Widest   == {a \in DOMAIN agents : Site!Wide(a)}
Fresh    == UNION {{Site!Branch(a, i) : i \in 1..Site!Chunks(a)} : a \in Widest}
OwnOf(x) == [x EXCEPT !.branch = 0]
NumOf(x) == x.branch - Cardinality(Site!Branches(OwnOf(x)))

LEMMA WidestIs ==
  ASSUME Site!SiteInv, phase # "written"
  PROVE  /\ maxChildren \in Nat \ {0}
         /\ \A a \in Widest : /\ a \in DOMAIN agents /\ a.branch = 0
                              /\ agents[a].down \in Seq(DOMAIN agents) /\ Len(agents[a].down) \in Nat
                              /\ Site!Chunks(a) = (Len(agents[a].down) + maxChildren - 1) \div maxChildren
                              /\ Site!Chunks(a) \in Nat
  <1>1. maxChildren \in Nat \ {0}
    BY SiteAssumption DEF Site!SiteInv, Site!QueueInv
  <1>2. ASSUME NEW a \in Widest
        PROVE  /\ a \in DOMAIN agents /\ a.branch = 0
               /\ agents[a].down \in Seq(DOMAIN agents) /\ Len(agents[a].down) \in Nat
               /\ Site!Chunks(a) = (Len(agents[a].down) + maxChildren - 1) \div maxChildren
               /\ Site!Chunks(a) \in Nat
    <2>1. a \in DOMAIN agents /\ Site!Wide(a)
      BY DEF Widest
    <2>2. a.branch = 0
      <3>1. a.branch \in Nat /\ ~(a.branch > 0)
        BY <2>1 DEF Site!SiteInv, Site!NamesInv
      <3> QED
        BY ONLY <3>1
    <2>3. agents[a].down \in Seq(DOMAIN agents) /\ Len(agents[a].down) \in Nat
      BY <2>1 DEF Site!SiteInv, Site!QueueInv
    <2>4. Site!Chunks(a) = (Len(agents[a].down) + maxChildren - 1) \div maxChildren
      BY DEF Site!Chunks
    <2>5. Len(agents[a].down) + maxChildren - 1 \in Nat
      BY <1>1, <2>3
    <2>6. Site!Chunks(a) \in Nat
      BY ONLY <1>1, <2>4, <2>5, Division
    <2> QED
      BY ONLY <2>1, <2>2, <2>3, <2>4, <2>6
  <1> QED
    BY <1>1, <1>2

LEMMA FreshIs ==
  ASSUME Site!SiteInv, phase # "written"
  PROVE  /\ IsFiniteSet(Fresh) /\ Fresh \cap DOMAIN agents = {}
         /\ \A x \in Fresh : /\ x \in [title : Site!Titles, of : visited \cup {""}, branch : Nat]
                             /\ x.branch > 0
                             /\ OwnOf(x) \in Widest /\ NumOf(x) \in 1..Site!Chunks(OwnOf(x))
                             /\ x = Site!Branch(OwnOf(x), NumOf(x))
         /\ \A a \in Widest : \A i \in 1..Site!Chunks(a) :
                /\ Site!Branch(a, i) \in Fresh
                /\ OwnOf(Site!Branch(a, i)) = a /\ NumOf(Site!Branch(a, i)) = i
  <1>1. ASSUME NEW a \in Widest, NEW i \in 1..Site!Chunks(a)
        PROVE  /\ Site!Branch(a, i) \in Fresh /\ Site!Branch(a, i) \notin DOMAIN agents
               /\ Site!Branch(a, i) \in [title : Site!Titles, of : visited \cup {""}, branch : Nat]
               /\ Site!Branch(a, i).branch > 0
               /\ OwnOf(Site!Branch(a, i)) = a /\ NumOf(Site!Branch(a, i)) = i
    <2>1. a \in DOMAIN agents /\ a.branch = 0 /\ Site!Chunks(a) \in Nat
      BY WidestIs
    <2>2. i \in Nat \ {0}
      BY <2>1
    <2>3. /\ Cardinality(Site!Branches(a)) \in Nat
          /\ Site!Branch(a, i) \notin DOMAIN agents
          /\ Site!Branch(a, i) \in [title : Site!Titles, of : visited \cup {""}, branch : Nat]
          /\ Site!Branch(a, i).branch = Cardinality(Site!Branches(a)) + i
          /\ [Site!Branch(a, i) EXCEPT !.branch = 0] = a
      BY <2>1, <2>2, BranchIs, Zenon
    <2>4. OwnOf(Site!Branch(a, i)) = a
      BY <2>3, Zenon DEF OwnOf
    <2>5. NumOf(Site!Branch(a, i)) = Site!Branch(a, i).branch - Cardinality(Site!Branches(a))
      BY <2>4, Zenon DEF NumOf
    <2> DEFINE c == Cardinality(Site!Branches(a))
    <2>6. c \in Nat /\ Site!Branch(a, i).branch = c + i /\ NumOf(Site!Branch(a, i)) = Site!Branch(a, i).branch - c
      BY ONLY <2>3, <2>5
    <2> HIDE DEF c
    <2>7. NumOf(Site!Branch(a, i)) = i /\ Site!Branch(a, i).branch > 0
      BY ONLY <2>2, <2>6
    <2>8. Site!Branch(a, i) \in Fresh
      BY DEF Fresh
    <2> QED
      BY ONLY <2>3, <2>4, <2>7, <2>8
  <1>2. ASSUME NEW x \in Fresh
        PROVE  /\ x \in [title : Site!Titles, of : visited \cup {""}, branch : Nat] /\ x.branch > 0
               /\ OwnOf(x) \in Widest /\ NumOf(x) \in 1..Site!Chunks(OwnOf(x))
               /\ x = Site!Branch(OwnOf(x), NumOf(x)) /\ x \notin DOMAIN agents
    <2>0. PICK a \in Widest : x \in {Site!Branch(a, i) : i \in 1..Site!Chunks(a)}
      BY DEF Fresh
    <2>1. PICK i \in 1..Site!Chunks(a) : x = Site!Branch(a, i)
      BY <2>0
    <2>2. /\ Site!Branch(a, i) \notin DOMAIN agents
          /\ Site!Branch(a, i) \in [title : Site!Titles, of : visited \cup {""}, branch : Nat]
          /\ Site!Branch(a, i).branch > 0
          /\ OwnOf(Site!Branch(a, i)) = a /\ NumOf(Site!Branch(a, i)) = i
      BY <1>1
    <2>3. OwnOf(x) = a /\ NumOf(x) = i
      BY ONLY <2>1, <2>2
    <2>4. a \in Widest /\ i \in 1..Site!Chunks(a)
      OBVIOUS
    <2> QED
      BY ONLY <2>1, <2>2, <2>3, <2>4
  <1>3. IsFiniteSet(Fresh)
    <2> DEFINE f == [a \in Widest |-> {Site!Branch(a, i) : i \in 1..Site!Chunks(a)}]
               Sets == {f[a] : a \in Widest}
    <2>1. IsFiniteSet(Widest)
      <3>1. IsFiniteSet(DOMAIN agents)
        BY SiteSets DEF Site!SiteInv, Site!QueueInv
      <3> QED
        BY <3>1, FS_Subset DEF Widest
    <2>2. f \in Surjection(Widest, Sets)
      BY DEF Surjection
    <2>3. IsFiniteSet(Sets)
      <3> HIDE DEF f, Sets
      <3> QED
        BY <2>1, <2>2, FS_Surjection
    <2>4. ASSUME NEW a \in Widest PROVE IsFiniteSet({Site!Branch(a, i) : i \in 1..Site!Chunks(a)})
      <3>1. a \in DOMAIN agents /\ a.branch = 0 /\ Site!Chunks(a) \in Nat
        BY WidestIs
      <3> QED
        BY <3>1, BranchesCounted
    <2>5. \A Z \in Sets : IsFiniteSet(Z)
      BY <2>4
    <2>6. Fresh = UNION Sets
      BY DEF Fresh
    <2> HIDE DEF Sets
    <2> QED
      BY ONLY <2>3, <2>5, <2>6, FS_UNION
  <1> QED
    BY <1>1, <1>2, <1>3

\* The network after a pass: a branch has the chunk with its number, a too wide agent its
\* branches, and any other agent what it had.
LEMMA LimitedIs ==
  ASSUME Site!SiteInv, phase # "written", NEW h, h = Site!Limited(Widest)
  PROVE  /\ h \in [DOMAIN agents \cup Fresh -> {h[x] : x \in DOMAIN h}]
         /\ \A x \in Fresh : h[x] = [down |-> Site!Chunk(OwnOf(x), NumOf(x)), top |-> FALSE]
         /\ \A a \in Widest : /\ h[a].down = [i \in 1..Site!Chunks(a) |-> Site!Branch(a, i)]
                              /\ h[a] = [down |-> h[a].down, top |-> agents[a].top]
         /\ \A a \in DOMAIN agents \ Widest : h[a] = agents[a]
  <1> DEFINE branches == UNION {{<<a, i>> : i \in 1..Site!Chunks(a)} : a \in Widest}
             Of(x)    == CHOOSE b \in branches : Site!Branch(b[1], b[2]) = x
  <1>1. /\ Fresh \cap DOMAIN agents = {}
        /\ \A x \in Fresh : /\ OwnOf(x) \in Widest /\ NumOf(x) \in 1..Site!Chunks(OwnOf(x))
                            /\ x = Site!Branch(OwnOf(x), NumOf(x))
        /\ \A a \in Widest : \A i \in 1..Site!Chunks(a) :
               /\ Site!Branch(a, i) \in Fresh
               /\ OwnOf(Site!Branch(a, i)) = a /\ NumOf(Site!Branch(a, i)) = i
    BY FreshIs
  <1>2. \A b : b \in branches <=> \E a \in Widest : \E i \in 1..Site!Chunks(a) : b = <<a, i>>
    OBVIOUS
  <1>3. {Site!Branch(b[1], b[2]) : b \in branches} = Fresh
    <2> HIDE DEF branches
    <2>1. ASSUME NEW b \in branches PROVE Site!Branch(b[1], b[2]) \in Fresh
      <3>1. PICK a \in Widest : \E i \in 1..Site!Chunks(a) : b = <<a, i>>
        BY <1>2
      <3>2. PICK i \in 1..Site!Chunks(a) : b = <<a, i>>
        BY <3>1
      <3>3. b[1] = a /\ b[2] = i
        BY ONLY <3>2
      <3>4. Site!Branch(a, i) \in Fresh
        BY <1>1
      <3> QED
        BY ONLY <3>3, <3>4
    <2>2. ASSUME NEW x \in Fresh PROVE \E b \in branches : x = Site!Branch(b[1], b[2])
      <3>1. <<OwnOf(x), NumOf(x)>> \in branches
        BY <1>1, <1>2
      <3> QED
        BY <1>1, <3>1
    <2> QED
      BY ONLY <2>1, <2>2
  <1>4. h = [x \in DOMAIN agents \cup Fresh |->
                IF x \in Fresh
                  THEN [down |-> Site!Chunk(Of(x)[1], Of(x)[2]), top |-> FALSE]
                ELSE IF x \in Widest
                  THEN [agents[x] EXCEPT !.down = [i \in 1..Site!Chunks(x) |-> Site!Branch(x, i)]]
                ELSE agents[x]]
    BY <1>3, Zenon DEF Site!Limited
  <1> HIDE DEF branches
  <1>5. ASSUME NEW x \in Fresh PROVE Of(x)[1] = OwnOf(x) /\ Of(x)[2] = NumOf(x)
    <2>1. \E b \in branches : Site!Branch(b[1], b[2]) = x
      <3>1. <<OwnOf(x), NumOf(x)>> \in branches
        BY <1>1, <1>2
      <3> QED
        BY <1>1, <3>1
    <2>2. Of(x) \in branches /\ Site!Branch(Of(x)[1], Of(x)[2]) = x
      BY <2>1
    <2> HIDE DEF Of
    <2>3. PICK a \in Widest : \E i \in 1..Site!Chunks(a) : Of(x) = <<a, i>>
      BY <1>2, <2>2
    <2>4. PICK i \in 1..Site!Chunks(a) : Of(x) = <<a, i>>
      BY <2>3
    <2>5. Of(x)[1] = a /\ Of(x)[2] = i
      BY ONLY <2>4
    <2>6. OwnOf(Site!Branch(a, i)) = a /\ NumOf(Site!Branch(a, i)) = i
      BY <1>1
    <2>7. Site!Branch(a, i) = x
      BY ONLY <2>2, <2>5
    <2> QED
      BY ONLY <2>5, <2>6, <2>7
  <1> HIDE DEF Of
  <1>6. DOMAIN h = DOMAIN agents \cup Fresh /\ h \in [DOMAIN agents \cup Fresh -> {h[x] : x \in DOMAIN h}]
    BY ONLY <1>4
  <1>7. ASSUME NEW x \in Fresh PROVE h[x] = [down |-> Site!Chunk(OwnOf(x), NumOf(x)), top |-> FALSE]
    <2>1. h[x] = [down |-> Site!Chunk(Of(x)[1], Of(x)[2]), top |-> FALSE]
      BY <1>4, Zenon
    <2> QED
      BY <1>5, <2>1, Zenon
  <1>8. \A a \in DOMAIN agents \ Widest : h[a] = agents[a]
    BY <1>1, <1>4, Zenon
  <1>9. ASSUME NEW a \in Widest
        PROVE  /\ h[a].down = [i \in 1..Site!Chunks(a) |-> Site!Branch(a, i)]
               /\ h[a] = [down |-> h[a].down, top |-> agents[a].top]
    <2>1. a \in DOMAIN agents /\ a \notin Fresh
      BY <1>1 DEF Widest
    <2> DEFINE list == [i \in 1..Site!Chunks(a) |-> Site!Branch(a, i)]
    <2> HIDE DEF list
    <2>2. h[a] = [agents[a] EXCEPT !.down = list]
      BY <1>4, <2>1, Zenon DEF list
    <2>3. agents[a] = [down |-> agents[a].down, top |-> agents[a].top]
      <3>1. agents[a] \in [down : Seq(DOMAIN agents), top : BOOLEAN]
        BY <2>1 DEF Site!SiteInv, Site!QueueInv
      <3> QED
        BY ONLY <3>1
    <2>4. \A d, t, e : [[down |-> d, top |-> t] EXCEPT !.down = e] = [down |-> e, top |-> t]
      OBVIOUS
    <2>5. h[a] = [down |-> list, top |-> agents[a].top]
      <3>1. [agents[a] EXCEPT !.down = list] = [[down |-> agents[a].down, top |-> agents[a].top] EXCEPT !.down = list]
        BY ONLY <2>3, Zenon
      <3> QED
        BY ONLY <2>2, <2>4, <3>1, Zenon
    <2>6. h[a].down = list
      BY ONLY <2>5
    <2> QED
      BY ONLY <2>5, <2>6 DEF list
  <1> QED
    BY <1>6, <1>7, <1>8, <1>9

\* After a pass there are more branches, and their numbers still have no gap.
LEMMA NumbersKept ==
  ASSUME Site!SiteInv, phase # "written", DOMAIN agents' = DOMAIN agents \cup Fresh,
         NEW a \in DOMAIN agents, a.branch = 0, NEW b \in Site!Branches(a)'
  PROVE  b.branch <= Site!Cardinality(Site!Branches(a)')
  <1> DEFINE B == Site!Branches(a)
             More == {x \in Fresh : OwnOf(x) = a}
             c == Cardinality(B)
  <1>0. a.branch = 0 /\ b \in Site!Branches(a)'
    OBVIOUS
  <1>1. B = {x \in DOMAIN agents : x.branch > 0 /\ OwnOf(x) = a}
    BY ONLY <1>0, Zenon DEF Site!Branches, OwnOf
  <1>2. Site!Branches(a)' = {x \in DOMAIN agents' : x.branch > 0 /\ OwnOf(x) = a}
    BY ONLY <1>0, Zenon DEF Site!Branches, OwnOf
  <1>3. /\ IsFiniteSet(Fresh) /\ Fresh \cap DOMAIN agents = {}
        /\ \A x \in Fresh : /\ x.branch > 0
                            /\ OwnOf(x) \in Widest /\ NumOf(x) \in 1..Site!Chunks(OwnOf(x))
                            /\ x = Site!Branch(OwnOf(x), NumOf(x))
        /\ \A d \in Widest : \A i \in 1..Site!Chunks(d) :
               /\ Site!Branch(d, i) \in Fresh /\ OwnOf(Site!Branch(d, i)) = d
    BY FreshIs
  <1>4. Site!Branches(a)' = B \cup More /\ B \cap More = {}
    BY <1>1, <1>2, <1>3
  <1>5. /\ IsFiniteSet(B) /\ c \in Nat
        /\ \A i \in Nat \ {0} : Site!Branch(a, i).branch = c + i
    BY BranchIs
  <1>6. \A x \in B : x.branch <= c
    BY SiteSets DEF Site!SiteInv, Site!NamesInv
  <1>7. CASE a \notin Widest
    <2>1. More = {}
      BY <1>3, <1>7
    <2>2. Site!Branches(a)' = B
      BY ONLY <1>4, <2>1
    <2> QED
      BY <1>0, <1>6, <2>2, SiteSets
  <1>8. CASE a \in Widest
    <2> DEFINE k == Site!Chunks(a)
    <2>1. k \in Nat
      BY <1>8, WidestIs
    <2>2. More = {Site!Branch(a, i) : i \in 1..k}
      <3>1. ASSUME NEW x \in More PROVE \E i \in 1..k : x = Site!Branch(a, i)
        BY <1>3
      <3>2. ASSUME NEW i \in 1..k PROVE Site!Branch(a, i) \in More
        BY <1>3, <1>8
      <3> HIDE DEF More, k
      <3> QED
        BY ONLY <3>1, <3>2
    <2>3. IsFiniteSet(More) /\ Cardinality(More) = k
      BY <2>1, <2>2, BranchesCounted
    <2> HIDE DEF B, More, k, c
    <2>4. Cardinality(B \cup More) = c + k
      <3>1. Cardinality(B \cup More) = Cardinality(B) + Cardinality(More) - Cardinality(B \cap More)
        BY ONLY <1>5, <2>3, FS_Union
      <3>2. Cardinality(B \cap More) = 0
        BY ONLY <1>4, FS_EmptySet
      <3> QED
        BY ONLY <1>5, <2>1, <2>3, <3>1, <3>2 DEF c
    <2>5. Site!Cardinality(Site!Branches(a)') = c + k
      BY <1>4, <2>4, SiteSets
    <2>6. ASSUME b \in B PROVE b.branch <= c + k
      <3>1. b.branch <= c
        BY ONLY <1>6, <2>6
      <3>2. b.branch \in Nat
        <4>1. b \in DOMAIN agents
          BY <1>1, <2>6
        <4> QED
          BY <4>1 DEF Site!SiteInv, Site!NamesInv
      <3> QED
        BY ONLY <1>5, <2>1, <3>1, <3>2
    <2>7. ASSUME b \in More PROVE b.branch <= c + k
      <3>1. PICK i \in 1..k : b = Site!Branch(a, i)
        BY ONLY <2>2, <2>7
      <3>2. i \in Nat \ {0} /\ i <= k
        BY ONLY <2>1
      <3>3. b.branch = c + i
        BY ONLY <1>5, <3>1, <3>2
      <3> QED
        BY ONLY <1>5, <2>1, <3>2, <3>3
    <2> QED
      BY <1>0, <1>4, <2>5, <2>6, <2>7
  <1> QED
    BY <1>7, <1>8

\* A pass splits the network: nobody gets a second place or is lost.
LEMMA PassSplits ==
  ASSUME Site!SiteInv, phase # "written", NEW h, h = Site!Limited(Widest)
  PROVE  /\ IsNet(h) /\ OnePlace(h) /\ Found(h, Tops(h) \cup Loose(h)) /\ Loose(h) = Loose(agents)
         /\ \A x \in Fresh : Len(h[x].down) \in 1..maxChildren
         /\ DOMAIN h = DOMAIN agents \cup Fresh
         /\ \A a \in DOMAIN agents \ Widest : h[a] = agents[a]
  <1> DEFINE K   == [a \in Widest |-> Site!Chunks(a)]
             own == [x \in Fresh |-> OwnOf(x)]
             num == [x \in Fresh |-> NumOf(x)]
             T   == {h[x] : x \in DOMAIN h}
  <1>1. /\ IsNet(agents) /\ OnePlace(agents) /\ Found(agents, Tops(agents) \cup Loose(agents))
    BY CrawledNet
  <1>2. /\ maxChildren \in Nat \ {0} /\ Widest \in SUBSET DOMAIN agents
        /\ \A a \in Widest : /\ K[a] = (Len(agents[a].down) + maxChildren - 1) \div maxChildren
                             /\ K[a] = Site!Chunks(a) /\ K[a] \in Nat
    BY WidestIs
  <1>3. /\ IsFiniteSet(Fresh) /\ Fresh \cap DOMAIN agents = {}
        /\ \A x \in Fresh : /\ OwnOf(x) \in Widest /\ NumOf(x) \in 1..Site!Chunks(OwnOf(x))
                            /\ x = Site!Branch(OwnOf(x), NumOf(x))
        /\ \A a \in Widest : \A i \in 1..Site!Chunks(a) :
               /\ Site!Branch(a, i) \in Fresh
               /\ OwnOf(Site!Branch(a, i)) = a /\ NumOf(Site!Branch(a, i)) = i
    BY FreshIs
  <1>4. /\ own \in [Fresh -> Widest]
        /\ \A x \in Fresh : own[x] = OwnOf(x) /\ num[x] = NumOf(x) /\ num[x] \in 1..K[own[x]]
        /\ \A x, y \in Fresh : own[x] = own[y] /\ num[x] = num[y] => x = y
    <2>1. \A x \in Fresh : own[x] = OwnOf(x) /\ num[x] = NumOf(x)
      OBVIOUS
    <2>2. own \in [Fresh -> Widest]
      BY <1>3
    <2> HIDE DEF own, num, K
    <2>3. ASSUME NEW x \in Fresh PROVE num[x] \in 1..K[own[x]]
      <3>1. K[OwnOf(x)] = Site!Chunks(OwnOf(x))
        BY <1>2, <1>3
      <3>2. NumOf(x) \in 1..Site!Chunks(OwnOf(x))
        BY <1>3
      <3> QED
        BY ONLY <2>1, <3>1, <3>2
    <2>4. ASSUME NEW x \in Fresh, NEW y \in Fresh, own[x] = own[y], num[x] = num[y] PROVE x = y
      <3>1. x = Site!Branch(own[x], num[x]) /\ y = Site!Branch(own[y], num[y])
        BY <1>3, <2>1, Zenon
      <3> QED
        BY <2>4, <3>1, Zenon
    <2> QED
      BY <2>1, <2>2, <2>3, <2>4
  <1>5. /\ h \in [DOMAIN agents \cup Fresh -> T]
        /\ \A x \in Fresh : h[x] = [down |-> Site!Chunk(OwnOf(x), NumOf(x)), top |-> FALSE]
        /\ \A a \in Widest : /\ h[a].down = [i \in 1..Site!Chunks(a) |-> Site!Branch(a, i)]
                             /\ h[a] = [down |-> h[a].down, top |-> agents[a].top]
        /\ \A a \in DOMAIN agents \ Widest : h[a] = agents[a]
    BY LimitedIs
  <1>6. DOMAIN h = DOMAIN agents \cup Fresh
    BY ONLY <1>5
  <1> HIDE DEF K, own, num, T
  <1>7. ASSUME NEW x \in Fresh
        PROVE  /\ h[x].down = SubSeq(agents[own[x]].down, (num[x] - 1) * maxChildren + 1,
                                  ChunkEnd(Len(agents[own[x]].down), maxChildren, K[own[x]], num[x]))
               /\ h[x] \in [down : {h[x].down}, top : {FALSE}]
    <2>1. h[x] = [down |-> Site!Chunk(own[x], num[x]), top |-> FALSE]
      BY <1>4, <1>5, Zenon
    <2>2. h[x].down = Site!Chunk(own[x], num[x])
      BY ONLY <2>1
    <2>3. h[x] \in [down : {h[x].down}, top : {FALSE}]
      BY ONLY <2>1
    <2>4. own[x] \in Widest
      BY <1>4
    <2>5. K[own[x]] = Site!Chunks(own[x])
      BY <1>2, <2>4
    <2>6. Site!Chunk(own[x], num[x]) =
            SubSeq(agents[own[x]].down, (num[x] - 1) * maxChildren + 1,
                   ChunkEnd(Len(agents[own[x]].down), maxChildren, K[own[x]], num[x]))
      BY <2>5, Zenon DEF Site!Chunk, ChunkEnd
    <2> QED
      BY ONLY <2>2, <2>3, <2>6
  <1>8. ASSUME NEW a \in Widest
        PROVE  /\ h[a].down \in Seq(Fresh) /\ Len(h[a].down) = K[a]
               /\ \A i \in 1..K[a] : own[h[a].down[i]] = a /\ num[h[a].down[i]] = i
               /\ h[a] \in [down : {h[a].down}, top : {agents[a].top}]
    <2>1. h[a].down = [i \in 1..K[a] |-> Site!Branch(a, i)] /\ K[a] = Site!Chunks(a) /\ K[a] \in Nat
      BY <1>2, <1>5
    <2>2. ASSUME NEW i \in 1..K[a]
          PROVE  /\ Site!Branch(a, i) \in Fresh
                 /\ own[Site!Branch(a, i)] = a /\ num[Site!Branch(a, i)] = i
      <3>1. /\ Site!Branch(a, i) \in Fresh
            /\ OwnOf(Site!Branch(a, i)) = a /\ NumOf(Site!Branch(a, i)) = i
        BY <1>3, <2>1
      <3>2. /\ own[Site!Branch(a, i)] = OwnOf(Site!Branch(a, i))
            /\ num[Site!Branch(a, i)] = NumOf(Site!Branch(a, i))
        BY <1>4, <3>1
      <3> QED
        BY ONLY <3>1, <3>2
    <2>3. h[a].down \in Seq(Fresh) /\ Len(h[a].down) = K[a]
      BY ONLY <2>1, <2>2
    <2>4. \A i \in 1..K[a] : own[h[a].down[i]] = a /\ num[h[a].down[i]] = i
      BY ONLY <2>1, <2>2
    <2>5. h[a] = [down |-> h[a].down, top |-> agents[a].top]
      BY <1>5
    <2>6. h[a] \in [down : {h[a].down}, top : {agents[a].top}]
      BY ONLY <2>5
    <2> QED
      BY ONLY <2>3, <2>4, <2>6
  <1>9. \A a \in DOMAIN agents \ Widest : h[a] = agents[a]
    BY <1>5
  <1>10. /\ IsNet(h) /\ OnePlace(h) /\ Found(h, Tops(h) \cup Loose(h)) /\ Loose(h) = Loose(agents)
         /\ \A x \in Fresh : Len(h[x].down) \in 1..maxChildren
    <2>1. AreBranches(agents, maxChildren, Widest, K, Fresh, own, num)
      BY ONLY <1>2, <1>3, <1>4 DEF AreBranches
    <2>2. IsSplit(agents, maxChildren, Widest, K, Fresh, own, num, T, h)
      BY ONLY <1>5, <1>7, <1>8, <1>9 DEF IsSplit
    <2> QED
      BY ONLY <1>1, <2>1, <2>2, GraphSplit
  <1> QED
    BY ONLY <1>6, <1>9, <1>10

LEMMA EnforceKeeps ==
  ASSUME Site!SiteInv, Site!EnforceMaxFanout
  PROVE  Site!SiteInv'
  <1>1. /\ phase = "limit" /\ passes < MaxPasses /\ agents' = Site!Limited(Widest)
        /\ passes' = passes + 1 /\ maxChildren' = maxChildren /\ toVisit' = toVisit
        /\ visited' = visited /\ phase' = phase /\ count' = count /\ DOMAIN agents # {}
    BY DEF Site!EnforceMaxFanout, Widest
  <1>2. /\ IsNet(agents') /\ OnePlace(agents') /\ Found(agents', Tops(agents') \cup Loose(agents'))
        /\ Loose(agents') = Loose(agents)
        /\ \A x \in Fresh : Len(agents'[x].down) \in 1..maxChildren
        /\ DOMAIN agents' = DOMAIN agents \cup Fresh
        /\ \A a \in DOMAIN agents \ Widest : agents'[a] = agents[a]
    <2>1. phase # "written"
      BY <1>1
    <2> QED
      BY <1>1, <2>1, PassSplits
  <1>3. Loose(agents') # {} => Site!Blank \in DOMAIN agents'
    BY <1>1, <1>2, CrawledNet
  <1>4. Site!QueueInv'
    <2>1. /\ toVisit \in Seq([url : Urls, parent : DOMAIN agents \cup {Site!NoParent}])
          /\ \A i \in DOMAIN toVisit : toVisit[i].parent # Site!NoParent
      BY <1>1 DEF Site!SiteInv, Site!QueueInv
    <2>2. toVisit' \in Seq([url : Urls, parent : DOMAIN agents' \cup {Site!NoParent}])
      <3>1. [url : Urls, parent : DOMAIN agents \cup {Site!NoParent}] \subseteq
            [url : Urls, parent : DOMAIN agents' \cup {Site!NoParent}]
        BY <1>2
      <3>2. \A X, Y, q : X \subseteq Y /\ q \in Seq(X) => q \in Seq(Y)
        OBVIOUS
      <3>3. toVisit \in Seq([url : Urls, parent : DOMAIN agents' \cup {Site!NoParent}])
        BY ONLY <2>1, <3>1, <3>2
      <3> QED
        BY ONLY <1>1, <3>3
    <2>3. IsFiniteSet(DOMAIN agents') /\ agents' \in [DOMAIN agents' -> [down : Seq(DOMAIN agents'), top : BOOLEAN]]
          /\ \A a, b \in DOMAIN agents' : agents'[a].top /\ agents'[b].top => a = b
      BY <1>2 DEF IsNet
    <2>4. passes' \in 0..MaxPasses
      <3>1. passes \in 0..MaxPasses /\ passes < MaxPasses /\ passes' = passes + 1 /\ MaxPasses \in Nat
        BY <1>1, BoundsAssumption DEF Site!SiteInv, Site!QueueInv
      <3> QED
        BY ONLY <3>1
    <2>5. /\ maxChildren' \in Limits /\ visited' \subseteq Urls /\ count' \in 0..MaxAgents
          /\ phase' \in {"crawl", "limit", "written"}
      BY <1>1 DEF Site!SiteInv, Site!QueueInv
    <2> QED
      BY <1>1, <2>1, <2>2, <2>3, <2>4, <2>5, SiteSets DEF Site!QueueInv, Site!NoParent, Site!Blank, Site!Plain
  <1>5. ASSUME NEW a \in DOMAIN agents'
        PROVE  /\ a \in [title : Site!Titles, of : visited' \cup {""}, branch : Nat]
               /\ phase' # "crawl"
               /\ a.branch > 0 => ~(Site!Wide(a)')
               /\ a.branch = 0 => \A b \in Site!Branches(a)' : b.branch <= Site!Cardinality(Site!Branches(a)')
    <2>0. phase # "written"
      BY <1>1
    <2>1. a \in DOMAIN agents \/ a \in Fresh
      BY <1>2
    <2>2. a \in [title : Site!Titles, of : visited \cup {""}, branch : Nat]
      <3>1. CASE a \in DOMAIN agents
        BY <2>0, <3>1 DEF Site!SiteInv, Site!NamesInv
      <3>2. CASE a \in Fresh
        BY <2>0, <3>2, FreshIs
      <3> QED
        BY <2>1, <3>1, <3>2
    <2>3. CASE a \in Fresh
      <3>1. Len(agents'[a].down) \in 1..maxChildren /\ maxChildren \in Nat
        BY <1>2, <2>0, <2>3, WidestIs
      <3>2. ~(Len(agents'[a].down) > maxChildren')
        BY ONLY <1>1, <3>1
      <3>3. ~(Site!Wide(a)')
        BY ONLY <3>2 DEF Site!Wide
      <3>4. a.branch > 0
        BY <2>0, <2>3, FreshIs
      <3>5. a.branch # 0
        BY ONLY <3>4
      <3> QED
        BY <1>1, <2>2, <3>3, <3>5
    <2>4. CASE a \in DOMAIN agents
      <3>1. a.branch > 0 => ~(Site!Wide(a)')
        <4>1. a.branch > 0 => ~Site!Wide(a)
          BY <2>0, <2>4 DEF Site!SiteInv, Site!NamesInv
        <4>2. ~Site!Wide(a) => agents'[a] = agents[a]
          BY <1>2, <2>4 DEF Widest
        <4> QED
          BY ONLY <1>1, <4>1, <4>2 DEF Site!Wide
      <3>2. a.branch = 0 => \A b \in Site!Branches(a)' : b.branch <= Site!Cardinality(Site!Branches(a)')
        BY <1>2, <2>0, <2>4, NumbersKept
      <3> QED
        BY <1>1, <2>2, <3>1, <3>2
    <2> QED
      BY <2>1, <2>3, <2>4
  <1>6. Site!NamesInv'
    BY <1>5 DEF Site!NamesInv, Site!Titles
  <1>7. phase' # "written"
    BY <1>1
  <1> QED
    BY ONLY <1>2, <1>3, <1>4, <1>6, <1>7, CrawledNext

LEMMA SiteKeeps == Site!SiteInv /\ [Site!Next]_siteVars => Site!SiteInv'
  <1> SUFFICES ASSUME Site!SiteInv, [Site!Next]_siteVars PROVE Site!SiteInv'
    OBVIOUS
  <1>1. ASSUME NEW heading \in Site!Titles, NEW n \in Links, NEW cut \in BOOLEAN,
               Site!ProcessPage(heading, n, cut)
        PROVE  Site!SiteInv'
    BY <1>1, ProcessKeeps
  <1>2. CASE UNCHANGED siteVars
    <2>1. /\ maxChildren' = maxChildren /\ toVisit' = toVisit /\ visited' = visited
          /\ agents' = agents /\ phase' = phase /\ passes' = passes /\ count' = count
      BY <1>2 DEF siteVars
    <2>2. Site!QueueInv'
      BY <2>1 DEF Site!SiteInv, Site!QueueInv, Site!NoParent, Site!Blank, Site!Plain
    <2>3. Site!NamesInv'
      BY <2>1 DEF Site!SiteInv, Site!NamesInv, Site!Wide, Site!Branches, Site!Titles
    <2>4. IsNet(agents) /\ NetMeaning
      BY SiteSets, NetIs DEF Site!SiteInv, Site!QueueInv, IsNet
    <2>5. CASE phase # "written"
      BY <2>1, <2>2, <2>3, <2>5, CrawledNet, CrawledNext
    <2>6. CASE phase = "written"
      <3>1. OnePlace(agents) /\ (Site!Hub \in DOMAIN agents => Site!Blank \in DOMAIN agents)
        BY <2>4 DEF NetMeaning, Site!SiteInv, Site!NetworkSound
      <3>2. /\ Found(agents, Tops(agents) \cup ({Site!Hub} \cap DOMAIN agents))
            /\ Found(agents, Tops(agents)) \/ (Site!Hub \in DOMAIN agents /\ Circle(agents, Site!Hub))
            /\ \A a \in DOMAIN agents : Site!Wide(a) => a = Site!Hub \/ Site!Hub \in Kids(agents, a)
        BY <2>4, <2>6 DEF NetMeaning, Site!SiteInv, Site!NetworkSound
      <3>3. /\ Found(agents', Tops(agents') \cup ({Site!Hub} \cap DOMAIN agents'))
            /\ Found(agents', Tops(agents')) \/ (Site!Hub \in DOMAIN agents' /\ Circle(agents', Site!Hub))
            /\ \A a \in DOMAIN agents' : Site!Wide(a)' => a = Site!Hub \/ Site!Hub \in Kids(agents', a)
        BY <2>1, <3>2 DEF Site!Wide
      <3>4. OnePlace(agents') /\ (Site!Hub \in DOMAIN agents' => Site!Blank \in DOMAIN agents') /\ phase' = "written"
        BY <2>1, <2>6, <3>1
      <3> QED
        BY <2>2, <3>3, <3>4, WrittenNext
    <2> QED
      BY <2>5, <2>6
  <1> QED
    BY <1>1, <1>2, SkipKeeps, EndsKeeps, EnforceKeeps, WriteKeeps DEF Site!Next

\* No agents are a network.
LEMMA SiteBegins == Site!Init => Site!SiteInv
  <1> SUFFICES ASSUME Site!Init PROVE Site!SiteInv
    OBVIOUS
  <1>1. /\ maxChildren \in Limits /\ visited = {} /\ agents = <<>> /\ phase = "crawl" /\ passes = 0
        /\ count = 0
        /\ toVisit = <<[url |-> StartUrl, parent |-> Site!NoParent]>>
    BY DEF Site!Init
  <1>2. DOMAIN agents = {}
    BY <1>1
  <1>3. Site!QueueInv
    <2>1. [url |-> StartUrl, parent |-> Site!NoParent] \in [url : Urls, parent : DOMAIN agents \cup {Site!NoParent}]
      BY SiteAssumption
    <2>2. /\ toVisit \in Seq([url : Urls, parent : DOMAIN agents \cup {Site!NoParent}])
          /\ \A i \in DOMAIN toVisit : i = 1
      BY ONLY <1>1, <2>1
    <2>3. IsFiniteSet(DOMAIN agents)
      BY <1>2, FS_EmptySet
    <2>4. agents \in [DOMAIN agents -> [down : Seq(DOMAIN agents), top : BOOLEAN]]
      <3>1. agents = [x \in {} |-> x]
        BY <1>1
      <3> QED
        BY ONLY <1>2, <3>1
    <2> QED
      BY <1>1, <1>2, <2>2, <2>3, <2>4, SiteSets, BoundsAssumption DEF Site!QueueInv
  <1>4. Site!NamesInv
    BY <1>2 DEF Site!NamesInv
  <1>5. Site!RootsInv
    BY <1>2 DEF Site!RootsInv, Site!unlinked, Site!tops, Site!Reach
  <1>6. Site!NetworkSound
    BY <1>1, <1>2 DEF Site!NetworkSound
  <1> QED
    BY <1>3, <1>4, <1>5, <1>6 DEF Site!SiteInv

LEMMA SiteInvariant == Init /\ [][Next]_vars => []Site!SiteInv
  <1>1. Init => Site!SiteInv
    BY SiteBegins DEF Init
  <1>2. [Next]_vars => [Site!Next]_siteVars
    BY DEF Next, vars, Still, ChatStep, TenantStep, LaunchStep, SolveStep, SiteStep, FlaskStep, RemoteStep
  <1> QED
    BY <1>1, <1>2, SiteKeeps, PTL


-----------------------------------------------------------------------------
(* Results                                                                 *)

\* What is worked out is sound, for any depth, candidates, pages and limits: an answer is
\* composed from answers and the votes that end a count early decide it, provided that only
\* one candidate can have votes enough (solve and _solve_trace; number_of_votes is by default
\* 2 * winning_vote_count - 1); and in the network of a site nobody is a child twice, however
\* often agents are split, and what is written is found from the top agent and the hub: it is
\* a tree below the top agent unless a hub was hung below itself (crawl, enforce_max_fanout
\* and main).
THEOREM ResultsAreSound ==
  ASSUME NumberOfVotes < 2 * WinningVotes
  PROVE  Spec => []ResultsSound
  <1>1. Solve!TreeInv /\ Solve!BallotInv /\ Site!SiteInv => ResultsSound
    BY TreeSound, BallotSound DEF ResultsSound, Solve!AnswersSound, Site!SiteInv
  <1> QED
    BY <1>1, SolveInvariant, SiteInvariant, PTL DEF Spec

-----------------------------------------------------------------------------
(* FlaskAssistant                                                          *)

\* What a step of a task does to it: it calls with the state of now or holds none.
LEMMA TaskEffect ==
  ASSUME Flask!TypeOK, NEW k \in Clients,
         Flask!Wake(k) \/ Flask!CallReturns(k) \/ Flask!CallRaises(k) \/ Flask!TakeInput(k)
  PROVE  /\ loop' \in [Clients -> [pc : {"off", "wait", "call", "take", "dead"},
                                  input : {"none", "text"}, state : Nat]]
         /\ \A l \in Clients \ {k} : loop'[l] = loop[l]
         /\ loop[k].pc \in {"wait", "call", "take"} /\ loop'[k].pc \in {"wait", "call", "take", "dead"}
         /\ loop'[k].pc = "call" => Flask!Wake(k) /\ loop'[k].state = state
         /\ loop'[k].pc # "call" => loop'[k].state = 0
  <1> DEFINE Records == [pc : {"off", "wait", "call", "take", "dead"},
                         input : {"none", "text"}, state : Nat]
  <1>1. /\ loop \in [Clients -> Records] /\ session \in Nat /\ state \in Nat \ {0}
        /\ loop[k].pc = "call" <=> loop[k].state # 0
    BY DEF Flask!TypeOK, Flask!FlagsOK, Flask!TasksOK, Flask!InputsOK, Flask!SessionsOK
  <1>2. SUFFICES \E t \in Records : /\ loop' = [loop EXCEPT ![k] = t]
                                    /\ loop[k].pc \in {"wait", "call", "take"}
                                    /\ t.pc \in {"wait", "call", "take", "dead"}
                                    /\ t.pc = "call" => Flask!Wake(k) /\ t.state = state
                                    /\ t.pc # "call" => t.state = 0
    BY <1>1, <1>2
  <1>3. CASE Flask!Wake(k)
    <2>1. PICK speaks \in BOOLEAN :
              loop' = [loop EXCEPT ![k] = [loop[k] EXCEPT !.pc = IF speaks THEN "call" ELSE "take",
                                                          !.state = IF speaks THEN state ELSE 0]]
      BY <1>1, <1>3 DEF Flask!Wake
    <2> DEFINE t == [loop[k] EXCEPT !.pc = IF speaks THEN "call" ELSE "take",
                                    !.state = IF speaks THEN state ELSE 0]
    <2>2. t \in Records /\ (t.pc = "call" => t.state = state) /\ (t.pc # "call" => t.state = 0)
          /\ t.pc \in {"call", "take"}
      BY <1>1
    <2> QED
      BY <1>3, <2>1, <2>2 DEF Flask!Wake
  <1>4. CASE Flask!CallReturns(k)
    <2> DEFINE t == [loop[k] EXCEPT !.pc = "take", !.state = 0]
    <2>1. t \in Records /\ t.pc = "take" /\ t.state = 0
      BY <1>1
    <2>2. loop' = [loop EXCEPT ![k] = t] /\ loop[k].pc = "call"
      BY <1>1, <1>4 DEF Flask!CallReturns
    <2> QED
      BY <2>1, <2>2
  <1> DEFINE dead == [pc |-> "dead", input |-> "none", state |-> 0]
  <1>5. dead \in Records /\ dead.pc = "dead" /\ dead.state = 0
    OBVIOUS
  <1>6. CASE Flask!CallRaises(k)
    <2>1. loop[k].pc = "call"
      BY <1>6 DEF Flask!CallRaises
    <2>2. loop' = [loop EXCEPT ![k] = dead]
      <3>1. [Flask!Off EXCEPT !.pc = "dead"] = dead
        BY DEF Flask!Off
      <3> QED
        BY <1>6, <3>1, Zenon DEF Flask!CallRaises
    <2> QED
      BY <1>5, <2>1, <2>2
  <1>7. CASE Flask!TakeInput(k)
    <2>1. loop[k].pc = "take" /\ loop[k].state = 0
      BY <1>1, <1>7 DEF Flask!TakeInput
    <2>2. CASE inputs # <<>> /\ Head(inputs) = "exit"
      <3>1. loop' = [loop EXCEPT ![k] = dead]
        BY <1>7, <2>2 DEF Flask!TakeInput, Flask!Off
      <3> QED
        BY <1>5, <2>1, <3>1
    <2>3. CASE ~(inputs # <<>> /\ Head(inputs) = "exit")
      <3> DEFINE t(input) == [loop[k] EXCEPT !.pc = "wait", !.input = input]
      <3>1. PICK input \in {"none", "text"} : loop' = [loop EXCEPT ![k] = t(input)]
        <4>1. inputs # <<>> => Head(inputs) = "text"
          BY <2>3 DEF Flask!TypeOK, Flask!FlagsOK, Flask!TasksOK, Flask!InputsOK, Flask!SessionsOK
        <4> QED
          BY <1>1, <1>7, <2>3, <4>1 DEF Flask!TakeInput
      <3>2. t(input) \in Records /\ t(input).pc = "wait" /\ t(input).state = 0
        BY <1>1, <2>1
      <3> QED
        BY <2>1, <3>1, <3>2
    <2> QED
      BY <2>2, <2>3
  <1> QED
    BY <1>3, <1>4, <1>6, <1>7

LEMMA FlaskCrossed == Flask!FlaskInv /\ [Flask!Next]_flaskVars => Flask!NotCrossed'
  <1> SUFFICES ASSUME Flask!TypeOK, Flask!NotCrossed, [Flask!Next]_flaskVars PROVE Flask!NotCrossed'
    BY DEF Flask!FlaskInv
  <1> USE BoundsAssumption DEF Flask!NotCrossed, Flask!Calling, Flask!Resets, Flask!globals, Flask!queues, Flask!Off, Flask!TypeOK, Flask!FlagsOK, Flask!TasksOK, Flask!InputsOK, Flask!SessionsOK
  <1>1. ASSUME NEW k \in Clients, Flask!Wake(k) PROVE Flask!NotCrossed'
    <2> DEFINE speaks == loop[k].input # "none" \/ context \/ app = "conscious"
    <2>1. /\ crossed' = (crossed \/ (speaks /\ Flask!Resets # {}))
          /\ UNCHANGED <<client, session, state>>
      BY <1>1 DEF Flask!Wake
    <2>2. /\ \A l \in Clients \ {k} : loop'[l] = loop[l]
          /\ loop'[k].pc = IF speaks THEN "call" ELSE "take"
          /\ loop'[k].state = IF speaks THEN state ELSE 0
      BY <1>1 DEF Flask!Wake
    <2> HIDE DEF speaks
    <2>3. Flask!Calling' = {l \in Clients : loop'[l].pc = "call"} /\ Flask!Resets' = Flask!Resets
      BY <2>1
    <2>4. \A l \in Clients : loop'[l].pc = "call" =>
              \/ loop[l].pc = "call" /\ loop'[l].state = loop[l].state
              \/ l = k /\ speaks /\ loop'[l].state = state
      BY <2>2
    <2>5. ~crossed' => ~crossed /\ (speaks => Flask!Resets = {})
      BY <2>1
    <2> QED
      BY <2>1, <2>3, <2>4, <2>5
  <1>2. ASSUME NEW k \in Clients, Flask!CallReturns(k) PROVE Flask!NotCrossed'
    BY <1>2 DEF Flask!CallReturns
  <1>3. ASSUME NEW k \in Clients, Flask!CallRaises(k) PROVE Flask!NotCrossed'
    BY <1>3 DEF Flask!CallRaises
  <1>4. ASSUME NEW k \in Clients, Flask!TakeInput(k) PROVE Flask!NotCrossed'
    <2>1. \A l \in Clients \ {k} : loop'[l] = loop[l]
      BY <1>4, TaskEffect
    <2>2. loop'[k].pc # "call"
      <3>1. ~Flask!Wake(k)
        BY <1>4 DEF Flask!TakeInput, Flask!Wake
      <3> QED
        BY <1>4, <3>1, TaskEffect
    <2>3. UNCHANGED <<client, state, session, crossed>>
      BY <1>4 DEF Flask!TakeInput
    <2>4. Flask!Calling' \subseteq Flask!Calling /\ \A l \in Flask!Calling' : loop'[l] = loop[l]
      BY <2>1, <2>2
    <2> QED
      BY <2>3, <2>4
  <1>5. ASSUME NEW k \in Clients, Flask!Connect(k) PROVE Flask!NotCrossed'
    BY <1>5 DEF Flask!Connect
  <1>6. ASSUME NEW k \in Clients, Flask!StartTask(k) PROVE Flask!NotCrossed'
    <2>1. loop' = [loop EXCEPT ![k] = [loop[k] EXCEPT !.pc = "wait"]]
      BY <1>6 DEF Flask!StartTask
    <2>2. Flask!Calling' \subseteq Flask!Calling /\ \A l \in Flask!Calling' : loop'[l] = loop[l]
      BY <2>1
    <2>3. Flask!Resets' \subseteq Flask!Resets /\ UNCHANGED <<state, session, crossed>>
      BY <1>6 DEF Flask!StartTask
    <2> QED
      BY <2>2, <2>3
  <1>7. ASSUME NEW k \in Clients, Flask!UserInput(k) PROVE Flask!NotCrossed'
    BY <1>7 DEF Flask!UserInput
  <1>8. ASSUME NEW k \in Clients, Flask!GuiContext(k) PROVE Flask!NotCrossed'
    BY <1>8 DEF Flask!GuiContext
  <1>9. ASSUME NEW k \in Clients, Flask!NewChat(k) PROVE Flask!NotCrossed'
    BY <1>9 DEF Flask!NewChat
  <1>10. ASSUME NEW k \in Clients, Flask!SetUp(k) PROVE Flask!NotCrossed'
    BY <1>10 DEF Flask!SetUp
  <1>11. ASSUME NEW k \in Clients, Flask!SetUpFails(k) PROVE Flask!NotCrossed'
    BY <1>11 DEF Flask!SetUpFails
  <1>12. CASE Flask!Shutdown
    BY <1>12 DEF Flask!Shutdown
  <1>13. CASE UNCHANGED flaskVars
    BY <1>13 DEF flaskVars
  <1> QED
    BY <1>1, <1>2, <1>3, <1>4, <1>5, <1>6, <1>7, <1>8, <1>9, <1>10, <1>11, <1>12, <1>13 DEF Flask!Next, Flask!Task

LEMMA FlaskOverlapped == Flask!FlaskInv /\ [Flask!Next]_flaskVars => Flask!NotOverlapped'
  <1> SUFFICES ASSUME Flask!TypeOK, Flask!NotOverlapped, [Flask!Next]_flaskVars PROVE Flask!NotOverlapped'
    BY DEF Flask!FlaskInv
  <1> USE BoundsAssumption DEF Flask!NotOverlapped, Flask!Resets, Flask!globals, Flask!queues, Flask!Off, Flask!TypeOK, Flask!FlagsOK, Flask!TasksOK, Flask!InputsOK, Flask!SessionsOK
  <1>1. ASSUME NEW k \in Clients, Flask!Wake(k) PROVE Flask!NotOverlapped'
    BY <1>1 DEF Flask!Wake
  <1>2. ASSUME NEW k \in Clients, Flask!CallReturns(k) PROVE Flask!NotOverlapped'
    BY <1>2 DEF Flask!CallReturns
  <1>3. ASSUME NEW k \in Clients, Flask!CallRaises(k) PROVE Flask!NotOverlapped'
    BY <1>3 DEF Flask!CallRaises
  <1>4. ASSUME NEW k \in Clients, Flask!TakeInput(k) PROVE Flask!NotOverlapped'
    BY <1>4 DEF Flask!TakeInput
  <1>5. ASSUME NEW k \in Clients, Flask!Connect(k) PROVE Flask!NotOverlapped'
    BY <1>5 DEF Flask!Connect
  <1>6. ASSUME NEW k \in Clients, Flask!StartTask(k) PROVE Flask!NotOverlapped'
    BY <1>6 DEF Flask!StartTask
  <1>7. ASSUME NEW k \in Clients, Flask!UserInput(k) PROVE Flask!NotOverlapped'
    BY <1>7 DEF Flask!UserInput
  <1>8. ASSUME NEW k \in Clients, Flask!GuiContext(k) PROVE Flask!NotOverlapped'
    BY <1>8 DEF Flask!GuiContext
  <1>9. ASSUME NEW k \in Clients, Flask!NewChat(k) PROVE Flask!NotOverlapped'
    BY <1>9 DEF Flask!NewChat
  <1>10. ASSUME NEW k \in Clients, Flask!SetUp(k) PROVE Flask!NotOverlapped'
    <2>1. /\ client' = [client EXCEPT ![k] = "here"] /\ client[k] = "reset"
          /\ made' = made + 1 /\ session' = made + 1
          /\ UNCHANGED <<closed, overlapped>>
      BY <1>10 DEF Flask!SetUp
    <2>2. CASE overlapped
      BY <2>1, <2>2
    <2>3. CASE ~overlapped
      <3>1. \A j \in Clients : client'[j] # "reset"
        BY <2>1, <2>3
      <3>2. 1..made \subseteq closed
        BY <2>1, <2>3
      <3>3. (1..made') \ closed' \subseteq {session'}
        BY <2>1, <3>2
      <3> QED
        BY <3>1, <3>3
    <2> QED
      BY <2>2, <2>3
  <1>11. ASSUME NEW k \in Clients, Flask!SetUpFails(k) PROVE Flask!NotOverlapped'
    BY <1>11 DEF Flask!SetUpFails
  <1>12. CASE Flask!Shutdown
    BY <1>12 DEF Flask!Shutdown
  <1>13. CASE UNCHANGED flaskVars
    BY <1>13 DEF flaskVars
  <1> QED
    BY <1>1, <1>2, <1>3, <1>4, <1>5, <1>6, <1>7, <1>8, <1>9, <1>10, <1>11, <1>12, <1>13 DEF Flask!Next, Flask!Task

LEMMA FlaskRaced == Flask!FlaskInv /\ [Flask!Next]_flaskVars => Flask!NotRaced'
  <1> SUFFICES ASSUME Flask!TypeOK, Flask!NotRaced, [Flask!Next]_flaskVars PROVE Flask!NotRaced'
    BY DEF Flask!FlaskInv
  <1> USE BoundsAssumption DEF Flask!NotRaced, Flask!globals, Flask!queues, Flask!Off, Flask!TypeOK, Flask!FlagsOK, Flask!TasksOK, Flask!InputsOK, Flask!SessionsOK
  <1>1. ASSUME NEW k \in Clients, Flask!Wake(k) PROVE Flask!NotRaced'
    <2>1. \A l \in Clients : loop'[l].pc # "off" => loop[l].pc # "off"
      BY <1>1, TaskEffect
    <2> QED
      BY <1>1, <2>1 DEF Flask!Wake
  <1>2. ASSUME NEW k \in Clients, Flask!CallReturns(k) PROVE Flask!NotRaced'
    <2>1. \A l \in Clients : loop'[l].pc # "off" => loop[l].pc # "off"
      BY <1>2, TaskEffect
    <2> QED
      BY <1>2, <2>1 DEF Flask!CallReturns
  <1>3. ASSUME NEW k \in Clients, Flask!CallRaises(k) PROVE Flask!NotRaced'
    BY <1>3 DEF Flask!CallRaises
  <1>4. ASSUME NEW k \in Clients, Flask!TakeInput(k) PROVE Flask!NotRaced'
    <2>1. \A l \in Clients : loop'[l].pc # "off" => loop[l].pc # "off"
      BY <1>4, TaskEffect
    <2> QED
      BY <1>4, <2>1 DEF Flask!TakeInput
  <1>5. ASSUME NEW k \in Clients, Flask!Connect(k) PROVE Flask!NotRaced'
    <2>1. client' = [client EXCEPT ![k] = IF started THEN "here" ELSE "starting"]
      BY <1>5 DEF Flask!Connect
    <2>2. ~raced' => ~raced /\ (started \/ ~\E j \in Clients : client[j] = "starting")
      BY <1>5, Zenon DEF Flask!Connect
    <2>3. UNCHANGED <<loop, started>>
      BY <1>5 DEF Flask!Connect
    <2>4. \A l \in Clients : client'[l] = "starting" => client[l] = "starting" \/ (l = k /\ ~started)
      BY <2>1
    <2>5. ASSUME ~raced' PROVE /\ ~raced /\ (started \/ ~\E j \in Clients : client[j] = "starting")
                               /\ \A l, m \in Clients : client'[l] = "starting"
                                                            /\ client'[m] = "starting" => l = m
                               /\ \A l \in Clients : client'[l] = "starting" => ~started
      <3>1. ~raced /\ (started \/ ~\E j \in Clients : client[j] = "starting")
        BY <2>2, <2>5
      <3>2. /\ \A l, m \in Clients : client[l] = "starting" /\ client[m] = "starting" => l = m
            /\ \A l \in Clients : client[l] = "starting" => ~started
        BY <3>1
      <3>3. \A l, m \in Clients : client'[l] = "starting" /\ client'[m] = "starting" => l = m
        BY ONLY <3>1, <3>2, <2>4
      <3>4. \A l \in Clients : client'[l] = "starting" => ~started
        BY ONLY <3>2, <2>4
      <3> QED
        BY <3>1, <3>3, <3>4
    <2> QED
      BY <2>3, <2>5
  <1>6. ASSUME NEW k \in Clients, Flask!StartTask(k) PROVE Flask!NotRaced'
    BY <1>6 DEF Flask!StartTask
  <1>7. ASSUME NEW k \in Clients, Flask!UserInput(k) PROVE Flask!NotRaced'
    BY <1>7 DEF Flask!UserInput
  <1>8. ASSUME NEW k \in Clients, Flask!GuiContext(k) PROVE Flask!NotRaced'
    BY <1>8 DEF Flask!GuiContext
  <1>9. ASSUME NEW k \in Clients, Flask!NewChat(k) PROVE Flask!NotRaced'
    <2>1. UNCHANGED <<loop, started, raced>>
      BY <1>9 DEF Flask!NewChat
    <2>2. \A l \in Clients : client'[l] = "starting" => client[l] = "starting"
      BY <1>9 DEF Flask!NewChat
    <2> QED
      BY <2>1, <2>2
  <1>10. ASSUME NEW k \in Clients, Flask!SetUp(k) PROVE Flask!NotRaced'
    <2>1. UNCHANGED <<loop, started, raced>>
      BY <1>10 DEF Flask!SetUp
    <2>2. \A l \in Clients : client'[l] = "starting" => client[l] = "starting"
      BY <1>10 DEF Flask!SetUp
    <2> QED
      BY <2>1, <2>2
  <1>11. ASSUME NEW k \in Clients, Flask!SetUpFails(k) PROVE Flask!NotRaced'
    <2>1. UNCHANGED <<loop, started, raced>>
      BY <1>11 DEF Flask!SetUpFails
    <2>2. \A l \in Clients : client'[l] = "starting" => client[l] = "starting"
      BY <1>11 DEF Flask!SetUpFails
    <2> QED
      BY <2>1, <2>2
  <1>12. CASE Flask!Shutdown
    BY <1>12 DEF Flask!Shutdown
  <1>13. CASE UNCHANGED flaskVars
    BY <1>13 DEF flaskVars
  <1> QED
    BY <1>1, <1>2, <1>3, <1>4, <1>5, <1>6, <1>7, <1>8, <1>9, <1>10, <1>11, <1>12, <1>13 DEF Flask!Next, Flask!Task

\* The instance has a copy of the definition of Cardinality.
LEMMA SameCardinality == \A S : Flask!Cardinality(S) = Cardinality(S)
  BY DEF Flask!Cardinality, Cardinality

\* Chats that are being reset count towards the sessions that will have been made.
LEMMA ResetsCounted ==
  ASSUME Flask!TypeOK, NEW k \in Clients, NEW to \in {"away", "starting", "here", "reset"},
         client' = [client EXCEPT ![k] = to]
  PROVE  /\ Flask!Cardinality(Flask!Resets) \in Nat
         /\ client[k] # "reset" /\ to # "reset" => Flask!Resets' = Flask!Resets
         /\ client[k] # "reset" /\ to = "reset" =>
                Flask!Cardinality(Flask!Resets') = Flask!Cardinality(Flask!Resets) + 1
         /\ client[k] = "reset" /\ to # "reset" =>
                Flask!Cardinality(Flask!Resets') = Flask!Cardinality(Flask!Resets) - 1
  <1>1. IsFiniteSet(Flask!Resets)
    <2>1. Flask!Resets \subseteq Clients
      BY DEF Flask!Resets
    <2> QED
      BY <2>1, BoundsAssumption, FS_Subset
  <1>2. client \in [Clients -> {"away", "starting", "here", "reset"}]
    BY DEF Flask!TypeOK, Flask!FlagsOK, Flask!TasksOK, Flask!InputsOK, Flask!SessionsOK
  <1>3. Flask!Cardinality(Flask!Resets) \in Nat
    BY <1>1, FS_CardinalityType, SameCardinality
  <1>4. client[k] # "reset" /\ to # "reset" => Flask!Resets' = Flask!Resets
    BY <1>2 DEF Flask!Resets
  <1>5. CASE client[k] # "reset" /\ to = "reset"
    <2>1. Flask!Resets' = Flask!Resets \cup {k} /\ k \notin Flask!Resets
      BY <1>2, <1>5 DEF Flask!Resets
    <2>2. Cardinality(Flask!Resets \cup {k}) = Cardinality(Flask!Resets) + 1
      BY <1>1, <2>1, FS_AddElement
    <2> QED
      BY <1>3, <1>5, <2>1, <2>2, SameCardinality
  <1>6. CASE client[k] = "reset" /\ to # "reset"
    <2>1. Flask!Resets' = Flask!Resets \ {k} /\ k \in Flask!Resets
      BY <1>2, <1>6 DEF Flask!Resets
    <2>2. Cardinality(Flask!Resets \ {k}) = Cardinality(Flask!Resets) - 1
      BY <1>1, <2>1, FS_RemoveElement
    <2> QED
      BY <1>3, <1>6, <2>1, <2>2, SameCardinality
  <1> QED
    BY <1>3, <1>4, <1>5, <1>6

LEMMA FlagTypes == Flask!TypeOK /\ [Flask!Next]_flaskVars => Flask!FlagsOK'
  <1> SUFFICES ASSUME Flask!TypeOK, [Flask!Next]_flaskVars PROVE Flask!FlagsOK'
    OBVIOUS
  <1> USE DEF Flask!globals, Flask!queues
  <1>1. ASSUME NEW k \in Clients, Flask!Wake(k) PROVE Flask!FlagsOK'
    BY <1>1 DEF Flask!TypeOK, Flask!FlagsOK, Flask!Wake
  <1>2. ASSUME NEW k \in Clients, Flask!CallReturns(k) PROVE Flask!FlagsOK'
    BY <1>2 DEF Flask!TypeOK, Flask!FlagsOK, Flask!CallReturns
  <1>3. ASSUME NEW k \in Clients, Flask!CallRaises(k) PROVE Flask!FlagsOK'
    BY <1>3 DEF Flask!TypeOK, Flask!FlagsOK, Flask!CallRaises
  <1>4. ASSUME NEW k \in Clients, Flask!TakeInput(k) PROVE Flask!FlagsOK'
    BY <1>4 DEF Flask!TypeOK, Flask!FlagsOK, Flask!TakeInput
  <1>5. ASSUME NEW k \in Clients, Flask!Connect(k) PROVE Flask!FlagsOK'
    BY <1>5 DEF Flask!TypeOK, Flask!FlagsOK, Flask!Connect
  <1>6. ASSUME NEW k \in Clients, Flask!StartTask(k) PROVE Flask!FlagsOK'
    BY <1>6 DEF Flask!TypeOK, Flask!FlagsOK, Flask!StartTask
  <1>7. ASSUME NEW k \in Clients, Flask!UserInput(k) PROVE Flask!FlagsOK'
    BY <1>7 DEF Flask!TypeOK, Flask!FlagsOK, Flask!UserInput
  <1>8. ASSUME NEW k \in Clients, Flask!GuiContext(k) PROVE Flask!FlagsOK'
    BY <1>8 DEF Flask!TypeOK, Flask!FlagsOK, Flask!GuiContext
  <1>9. ASSUME NEW k \in Clients, Flask!NewChat(k) PROVE Flask!FlagsOK'
    BY <1>9 DEF Flask!TypeOK, Flask!FlagsOK, Flask!NewChat
  <1>10. ASSUME NEW k \in Clients, Flask!SetUp(k) PROVE Flask!FlagsOK'
    BY <1>10 DEF Flask!TypeOK, Flask!FlagsOK, Flask!SetUp
  <1>11. ASSUME NEW k \in Clients, Flask!SetUpFails(k) PROVE Flask!FlagsOK'
    BY <1>11 DEF Flask!TypeOK, Flask!FlagsOK, Flask!SetUpFails
  <1>12. CASE Flask!Shutdown
    BY <1>12 DEF Flask!TypeOK, Flask!FlagsOK, Flask!Shutdown
  <1>13. CASE UNCHANGED flaskVars
    BY <1>13 DEF Flask!TypeOK, Flask!FlagsOK, flaskVars
  <1> QED
    BY <1>1, <1>2, <1>3, <1>4, <1>5, <1>6, <1>7, <1>8, <1>9, <1>10, <1>11, <1>12, <1>13 DEF Flask!Next, Flask!Task

LEMMA TaskTypes == Flask!TypeOK /\ [Flask!Next]_flaskVars => Flask!TasksOK'
  <1> SUFFICES ASSUME Flask!TypeOK, [Flask!Next]_flaskVars PROVE Flask!TasksOK'
    OBVIOUS
  <1>1. ASSUME NEW k \in Clients,
               Flask!Wake(k) \/ Flask!CallReturns(k) \/ Flask!CallRaises(k) \/ Flask!TakeInput(k)
        PROVE  Flask!TasksOK'
    <2>1. /\ loop' \in [Clients -> [pc : {"off", "wait", "call", "take", "dead"},
                                   input : {"none", "text"}, state : Nat]]
          /\ \A l \in Clients \ {k} : loop'[l] = loop[l]
          /\ loop'[k].pc = "call" => loop'[k].state = state
          /\ loop'[k].pc # "call" => loop'[k].state = 0
      BY <1>1, TaskEffect
    <2>2. UNCHANGED <<made, client>>
      BY <1>1 DEF Flask!Wake, Flask!CallReturns, Flask!CallRaises, Flask!TakeInput, Flask!globals
    <2>3. /\ \A l \in Clients : /\ loop[l].pc = "call" <=> loop[l].state # 0
                                /\ loop[l].state <= made
                                /\ client[l] \in {"away", "starting"} => loop[l].pc = "off"
          /\ made \in Nat /\ state \in 1..made
          /\ loop[k].pc # "off"
      BY <1>1, TaskEffect DEF Flask!TypeOK, Flask!TasksOK, Flask!SessionsOK
    <2>4. ASSUME NEW l \in Clients
          PROVE  /\ loop'[l].pc = "call" <=> loop'[l].state # 0
                 /\ loop'[l].state <= made'
                 /\ client'[l] \in {"away", "starting"} => loop'[l].pc = "off"
      <3>1. CASE l = k
        BY <2>1, <2>2, <2>3, <3>1
      <3>2. CASE l # k
        BY <2>1, <2>2, <2>3, <3>2
      <3> QED
        BY <3>1, <3>2
    <2> QED
      BY <2>1, <2>4 DEF Flask!TasksOK
  <1>2. ASSUME NEW k \in Clients, Flask!StartTask(k) PROVE Flask!TasksOK'
    <2>1. loop' = [loop EXCEPT ![k] = [loop[k] EXCEPT !.pc = "wait"]]
      BY <1>2 DEF Flask!StartTask
    <2>2. UNCHANGED made /\ client' = [client EXCEPT ![k] = "here"] /\ loop[k].pc = "off"
      BY <1>2 DEF Flask!StartTask, Flask!globals, Flask!TypeOK, Flask!TasksOK
    <2> QED
      BY <2>1, <2>2 DEF Flask!TypeOK, Flask!TasksOK, Flask!SessionsOK
  <1> USE DEF Flask!TypeOK, Flask!TasksOK, Flask!SessionsOK, Flask!globals, Flask!queues
  <1>3. ASSUME NEW k \in Clients, Flask!Connect(k) PROVE Flask!TasksOK'
    BY <1>3 DEF Flask!Connect
  <1>4. ASSUME NEW k \in Clients, Flask!UserInput(k) PROVE Flask!TasksOK'
    BY <1>4 DEF Flask!UserInput
  <1>5. ASSUME NEW k \in Clients, Flask!GuiContext(k) PROVE Flask!TasksOK'
    BY <1>5 DEF Flask!GuiContext
  <1>6. ASSUME NEW k \in Clients, Flask!NewChat(k) PROVE Flask!TasksOK'
    BY <1>6 DEF Flask!NewChat
  <1>7. ASSUME NEW k \in Clients, Flask!SetUp(k) PROVE Flask!TasksOK'
    BY <1>7 DEF Flask!SetUp
  <1>8. ASSUME NEW k \in Clients, Flask!SetUpFails(k) PROVE Flask!TasksOK'
    BY <1>8 DEF Flask!SetUpFails
  <1>9. CASE Flask!Shutdown
    BY <1>9 DEF Flask!Shutdown
  <1>10. CASE UNCHANGED flaskVars
    BY <1>10 DEF flaskVars
  <1> QED
    BY <1>1, <1>2, <1>3, <1>4, <1>5, <1>6, <1>7, <1>8, <1>9, <1>10 DEF Flask!Next, Flask!Task

LEMMA InputTypes == Flask!TypeOK /\ [Flask!Next]_flaskVars => Flask!InputsOK'
  <1> SUFFICES ASSUME Flask!TypeOK, [Flask!Next]_flaskVars PROVE Flask!InputsOK'
    OBVIOUS
  <1> USE DEF Flask!globals, Flask!queues
  <1>1. ASSUME NEW k \in Clients, Flask!Wake(k) PROVE Flask!InputsOK'
    BY <1>1 DEF Flask!TypeOK, Flask!InputsOK, Flask!Wake
  <1>2. ASSUME NEW k \in Clients, Flask!CallReturns(k) PROVE Flask!InputsOK'
    BY <1>2 DEF Flask!TypeOK, Flask!InputsOK, Flask!CallReturns
  <1>3. ASSUME NEW k \in Clients, Flask!CallRaises(k) PROVE Flask!InputsOK'
    BY <1>3 DEF Flask!TypeOK, Flask!InputsOK, Flask!CallRaises
  <1>4. ASSUME NEW k \in Clients, Flask!TakeInput(k) PROVE Flask!InputsOK'
    <2>1. inputs' = inputs \/ (inputs # <<>> /\ inputs' = Tail(inputs))
      BY <1>4 DEF Flask!TakeInput
    <2>2. UNCHANGED asked
      BY <1>4 DEF Flask!TakeInput
    <2>3. Flask!InputsOK
      BY DEF Flask!TypeOK
    <2> QED
      BY <2>1, <2>2, <2>3 DEF Flask!InputsOK
  <1>5. ASSUME NEW k \in Clients, Flask!Connect(k) PROVE Flask!InputsOK'
    BY <1>5 DEF Flask!TypeOK, Flask!InputsOK, Flask!Connect
  <1>6. ASSUME NEW k \in Clients, Flask!StartTask(k) PROVE Flask!InputsOK'
    BY <1>6 DEF Flask!TypeOK, Flask!InputsOK, Flask!StartTask
  <1>7. ASSUME NEW k \in Clients, Flask!UserInput(k) PROVE Flask!InputsOK'
    BY <1>7, BoundsAssumption DEF Flask!TypeOK, Flask!InputsOK, Flask!UserInput
  <1>8. ASSUME NEW k \in Clients, Flask!GuiContext(k) PROVE Flask!InputsOK'
    BY <1>8 DEF Flask!TypeOK, Flask!InputsOK, Flask!GuiContext
  <1>9. ASSUME NEW k \in Clients, Flask!NewChat(k) PROVE Flask!InputsOK'
    BY <1>9 DEF Flask!TypeOK, Flask!InputsOK, Flask!NewChat
  <1>10. ASSUME NEW k \in Clients, Flask!SetUp(k) PROVE Flask!InputsOK'
    BY <1>10 DEF Flask!TypeOK, Flask!InputsOK, Flask!SetUp
  <1>11. ASSUME NEW k \in Clients, Flask!SetUpFails(k) PROVE Flask!InputsOK'
    BY <1>11 DEF Flask!TypeOK, Flask!InputsOK, Flask!SetUpFails
  <1>12. CASE Flask!Shutdown
    BY <1>12 DEF Flask!TypeOK, Flask!InputsOK, Flask!Shutdown
  <1>13. CASE UNCHANGED flaskVars
    BY <1>13 DEF Flask!TypeOK, Flask!InputsOK, flaskVars
  <1> QED
    BY <1>1, <1>2, <1>3, <1>4, <1>5, <1>6, <1>7, <1>8, <1>9, <1>10, <1>11, <1>12, <1>13 DEF Flask!Next, Flask!Task

LEMMA SessionTypes == Flask!TypeOK /\ [Flask!Next]_flaskVars => Flask!SessionsOK'
  <1> SUFFICES ASSUME Flask!TypeOK, [Flask!Next]_flaskVars PROVE Flask!SessionsOK'
    OBVIOUS
  <1>1. Flask!SessionsOK /\ MaxSessions \in Nat
    BY BoundsAssumption DEF Flask!TypeOK
  <1>2. ASSUME NEW k \in Clients,
               Flask!Wake(k) \/ Flask!CallReturns(k) \/ Flask!CallRaises(k) \/ Flask!TakeInput(k)
        PROVE  Flask!SessionsOK'
    <2>1. /\ UNCHANGED <<client, made, session, closed>>
          /\ UNCHANGED state \/ (loop[k].pc = "call" /\ state' = loop[k].state)
      BY <1>2 DEF Flask!Wake, Flask!CallReturns, Flask!CallRaises, Flask!TakeInput, Flask!globals
    <2>2. loop[k].pc = "call" => loop[k].state \in 1..made
      BY <1>1 DEF Flask!TypeOK, Flask!TasksOK, Flask!SessionsOK
    <2> QED
      BY <1>1, <2>1, <2>2 DEF Flask!SessionsOK, Flask!Resets
  <1>3. ASSUME NEW k \in Clients,
               Flask!UserInput(k) \/ Flask!GuiContext(k)
        PROVE  Flask!SessionsOK'
    BY <1>1, <1>3
    DEF Flask!UserInput, Flask!GuiContext, Flask!globals, Flask!queues,
        Flask!SessionsOK, Flask!Resets
  <1>4. ASSUME NEW k \in Clients, Flask!Connect(k) \/ Flask!StartTask(k)
        PROVE  Flask!SessionsOK'
    <2>1. PICK to \in {"here", "starting"} : client' = [client EXCEPT ![k] = to]
      BY <1>4 DEF Flask!Connect, Flask!StartTask
    <2>2. client[k] # "reset" /\ UNCHANGED <<made, session, state, closed>>
      BY <1>4 DEF Flask!Connect, Flask!StartTask, Flask!globals
    <2>3. Flask!Resets' = Flask!Resets
      BY <2>1, <2>2, ResetsCounted
    <2> QED
      BY <1>1, <2>1, <2>2, <2>3 DEF Flask!SessionsOK
  <1>5. ASSUME NEW k \in Clients, Flask!NewChat(k) PROVE Flask!SessionsOK'
    <2>1. /\ client' = [client EXCEPT ![k] = "reset"] /\ client[k] # "reset"
          /\ made + Flask!Cardinality(Flask!Resets) < MaxSessions
          /\ closed' = closed \cup {session} /\ UNCHANGED <<made, session, state>>
      BY <1>5 DEF Flask!NewChat, Flask!queues, Flask!Resets
    <2>2. /\ Flask!Cardinality(Flask!Resets) \in Nat
          /\ Flask!Cardinality(Flask!Resets') = Flask!Cardinality(Flask!Resets) + 1
      BY <2>1, ResetsCounted
    <2>3. made' + Flask!Cardinality(Flask!Resets') <= MaxSessions
      BY <1>1, <2>1, <2>2 DEF Flask!SessionsOK
    <2>4. session' \in 1..made' /\ state' \in 1..made' /\ closed' \subseteq 1..made' /\ made' \in Nat
      BY <1>1, <2>1 DEF Flask!SessionsOK
    <2>5. client' \in [Clients -> {"away", "starting", "here", "reset"}]
      BY <1>1, <2>1 DEF Flask!SessionsOK
    <2> QED
      BY <2>3, <2>4, <2>5 DEF Flask!SessionsOK, Flask!Resets
  <1>6. ASSUME NEW k \in Clients, Flask!SetUp(k) \/ Flask!SetUpFails(k) PROVE Flask!SessionsOK'
    <2>1. client' = [client EXCEPT ![k] = "here"] /\ client[k] = "reset" /\ UNCHANGED closed
      BY <1>6 DEF Flask!SetUp, Flask!SetUpFails, Flask!globals
    <2>2. \/ made' = made + 1 /\ session' = made + 1 /\ state' = made + 1
          \/ UNCHANGED <<made, session, state>>
      BY <1>6 DEF Flask!SetUp, Flask!SetUpFails, Flask!globals
    <2>3. /\ Flask!Cardinality(Flask!Resets) \in Nat
          /\ Flask!Cardinality(Flask!Resets') = Flask!Cardinality(Flask!Resets) - 1
      BY <2>1, ResetsCounted
    <2>4. made \in Nat /\ made + Flask!Cardinality(Flask!Resets) <= MaxSessions
      BY <1>1 DEF Flask!SessionsOK, Flask!Resets
    <2>5. made' + Flask!Cardinality(Flask!Resets') <= MaxSessions
      BY <1>1, <2>2, <2>3, <2>4
    <2>6. session' \in 1..made' /\ state' \in 1..made' /\ closed' \subseteq 1..made' /\ made' \in Nat
      BY <1>1, <2>1, <2>2 DEF Flask!SessionsOK
    <2>7. client' \in [Clients -> {"away", "starting", "here", "reset"}]
      BY <1>1, <2>1 DEF Flask!SessionsOK
    <2> QED
      BY <2>5, <2>6, <2>7 DEF Flask!SessionsOK, Flask!Resets
  <1>7. CASE UNCHANGED flaskVars
    BY <1>1, <1>7 DEF flaskVars, Flask!SessionsOK, Flask!Resets
  <1>8. CASE Flask!Shutdown
    BY <1>1, <1>8 DEF Flask!Shutdown, Flask!queues, Flask!SessionsOK, Flask!Resets
  <1> QED
    BY <1>2, <1>3, <1>4, <1>5, <1>6, <1>7, <1>8 DEF Flask!Next, Flask!Task

\* One task talks to the agent: a set no two of whose elements differ has at most one.
LEMMA AtMostOne ==
  ASSUME NEW S, \A x, y \in S : x = y PROVE Cardinality(S) \in 0..1
  <1>1. CASE S = {}
    BY <1>1, FS_EmptySet
  <1>2. CASE S # {}
    <2>1. PICK x \in S : S = {x}
      BY <1>2
    <2> QED
      BY <2>1, FS_Singleton
  <1> QED
    BY <1>1, <1>2

LEMMA FlaskKept == Flask!FlaskInv => Flask!ConversationKept
  <1> SUFFICES ASSUME Flask!FlaskInv PROVE Flask!ConversationKept
    OBVIOUS
  <1>1. state # session => crossed
    BY DEF Flask!FlaskInv, Flask!NotCrossed
  <1>2. Flask!Resets = {} /\ ~overlapped => (1..made) \ closed \subseteq {session}
    BY DEF Flask!FlaskInv, Flask!NotOverlapped
  <1> DEFINE Tasks == {l \in Clients : loop[l].pc # "off"}
  <1>3. ~raced => Cardinality(Tasks) \in 0..1
    <2> SUFFICES ASSUME ~raced PROVE Cardinality(Tasks) \in 0..1
      OBVIOUS
    <2>1. \A l, m \in Tasks : l = m
      BY DEF Flask!FlaskInv, Flask!NotRaced
    <2> HIDE DEF Tasks
    <2> QED
      BY <2>1, AtMostOne
  <1>4. Cardinality(Tasks) \in 0..1 => ~(Cardinality(Tasks) > 1)
    OBVIOUS
  <1> QED
    BY <1>1, <1>2, <1>3, <1>4, SameCardinality DEF Flask!ConversationKept

LEMMA FlaskInvariant == Init /\ [][Next]_vars => []Flask!FlaskInv
  <1>1. Init => Flask!FlaskInv
    <2> SUFFICES ASSUME Init PROVE Flask!FlaskInv
      OBVIOUS
    <2> USE DEF Init, Flask!Init
    <2>1. Flask!Resets = {} /\ Flask!Calling = {}
      BY DEF Flask!Resets, Flask!Calling, Flask!Off
    <2>2. Flask!SessionsOK
      <3>1. Flask!Cardinality(Flask!Resets) = 0
        BY <2>1, FS_EmptySet, SameCardinality
      <3> QED
        BY <3>1, BoundsAssumption DEF Flask!SessionsOK
    <2>3. Flask!FlagsOK /\ Flask!TasksOK
      <3>1. Flask!FlagsOK
        BY DEF Flask!FlagsOK
      <3>2. \A l \in Clients : loop[l] = [pc |-> "off", input |-> "none", state |-> 0]
        BY DEF Flask!Off
      <3> QED
        BY <3>1, <3>2 DEF Flask!TasksOK, Flask!Off
    <2>4. Flask!InputsOK
      BY BoundsAssumption DEF Flask!InputsOK
    <2>5. Flask!NotCrossed
      BY <2>1 DEF Flask!NotCrossed
    <2>6. Flask!NotOverlapped
      BY <2>1 DEF Flask!NotOverlapped
    <2>7. Flask!NotRaced
      BY DEF Flask!NotRaced, Flask!Off
    <2> QED
      BY <2>2, <2>3, <2>4, <2>5, <2>6, <2>7 DEF Flask!FlaskInv, Flask!TypeOK
  <1>2. Flask!FlaskInv /\ [Flask!Next]_flaskVars => Flask!FlaskInv'
    BY FlagTypes, TaskTypes, InputTypes, SessionTypes, FlaskCrossed, FlaskOverlapped, FlaskRaced
    DEF Flask!FlaskInv, Flask!TypeOK
  <1>3. [Next]_vars => [Flask!Next]_flaskVars
    BY DEF Next, vars, Still, ChatStep, TenantStep, LaunchStep, SolveStep, SiteStep, FlaskStep, RemoteStep
  <1> QED
    BY <1>1, <1>2, <1>3, PTL

-----------------------------------------------------------------------------
(* RemoteAgents                                                            *)

\* Posting to a session appends to it, or opens the next one.
LEMMA OnForceEffect ==
  ASSUME Remote!TypeOK, NEW s \in 1 .. Len(force) + 1
  PROVE  /\ Remote!OnForce(s) \in Seq(Seq(Nat))
         /\ Len(Remote!OnForce(s)) = IF s <= Len(force) THEN Len(force) ELSE Len(force) + 1
         /\ \A t \in 1 .. Len(force) : t # s => Remote!OnForce(s)[t] = force[t]
         /\ Remote!OnForce(s)[s] = IF s <= Len(force) THEN Append(force[s], posed + 1)
                                                      ELSE <<posed + 1>>
  <1>1. force \in Seq(Seq(Nat)) /\ posed + 1 \in Nat /\ Len(force) \in Nat
    <2>1. force \in Seq(Seq(Nat)) /\ posed \in 0 .. MaxInquiries
      BY DEF Remote!TypeOK
    <2>2. Len(force) \in Nat
      BY <2>1, LenProperties
    <2> QED
      BY <2>1, <2>2
  <1>2. CASE s <= Len(force)
    <2>1. force[s] \in Seq(Nat) /\ s \in 1 .. Len(force)
      BY <1>1, <1>2, ElementOfSeq
    <2>2. Append(force[s], posed + 1) \in Seq(Nat)
      BY <1>1, <2>1
    <2>3. Remote!OnForce(s) = [force EXCEPT ![s] = Append(force[s], posed + 1)]
      BY <1>2 DEF Remote!OnForce
    <2> QED
      BY <1>1, <1>2, <2>1, <2>2, <2>3, ExceptSeq
  <1>3. CASE ~(s <= Len(force))
    <2>1. Remote!OnForce(s) = Append(force, <<posed + 1>>) /\ s = Len(force) + 1
      BY <1>1, <1>3 DEF Remote!OnForce
    <2>2. <<posed + 1>> \in Seq(Nat)
      BY <1>1
    <2> QED
      BY <1>1, <1>3, <2>1, <2>2, AppendProperties
  <1> QED
    BY <1>2, <1>3

\* What the inquiries of ServiceNow's sessions can become: one more, or one answered.
LEMMA NowEffect ==
  ASSUME Remote!TypeOK, \/ Remote!NewSession
                        \/ \E s \in DOMAIN now : now' = [now EXCEPT ![s].answered = TRUE]
  PROVE  /\ now' \in Seq(Remote!Session) /\ Len(now') >= Len(now)
         /\ \A s \in 1 .. Len(now) : now'[s].inquiry = now[s].inquiry
         /\ Remote!NewSession => /\ Len(now') = Len(now) + 1
                                 /\ now'[Len(now) + 1].inquiry = posed + 1
  <1>1. now \in Seq(Remote!Session) /\ posed + 1 \in Nat /\ Len(now) \in Nat
    <2>1. now \in Seq(Remote!Session) /\ posed \in 0 .. MaxInquiries
      BY DEF Remote!TypeOK
    <2>2. MaxInquiries \in Nat
      BY BoundsAssumption
    <2> QED
      BY <2>1, <2>2, LenProperties
  <1>2. CASE Remote!NewSession
    <2> DEFINE new == [inquiry |-> posed + 1, answered |-> FALSE]
    <2>1. new \in Remote!Session /\ new.inquiry = posed + 1
      BY <1>1 DEF Remote!Session
    <2>2. now' = Append(now, new)
      BY <1>2 DEF Remote!NewSession
    <2> HIDE DEF new
    <2>3. /\ now' \in Seq(Remote!Session) /\ Len(now') = Len(now) + 1
          /\ \A s \in 1 .. Len(now) : now'[s] = now[s]
          /\ now'[Len(now) + 1] = new
      BY <1>1, <2>1, <2>2, AppendProperties
    <2> QED
      BY <1>1, <2>1, <2>3
  <1>3. ASSUME NEW s \in DOMAIN now, now' = [now EXCEPT ![s].answered = TRUE], ~Remote!NewSession
        PROVE  /\ now' \in Seq(Remote!Session) /\ Len(now') >= Len(now)
               /\ \A t \in 1 .. Len(now) : now'[t].inquiry = now[t].inquiry
    <2> DEFINE new == [now[s] EXCEPT !.answered = TRUE]
    <2>1. now[s] \in Remote!Session /\ s \in 1 .. Len(now)
      BY <1>1, LenProperties, ElementOfSeq
    <2>2. new \in Remote!Session /\ new.inquiry = now[s].inquiry
      BY <2>1 DEF Remote!Session
    <2>3. now' = [now EXCEPT ![s] = new]
      BY <1>3
    <2> HIDE DEF new
    <2>4. /\ now' \in Seq(Remote!Session) /\ Len(now') = Len(now)
          /\ \A t \in 1 .. Len(now) : now'[t] = IF t = s THEN new ELSE now[t]
      BY <1>1, <2>1, <2>2, <2>3, ExceptSeq
    <2> QED
      BY <1>1, <2>2, <2>4
  <1> QED
    BY <1>2, <1>3

\* The tool of ServiceNow, its sessions and retrievals leave those of Agentforce alone,
\* and the other way round.
LEMMA RemotePathKept == Remote!RemoteInv /\ [Remote!Next]_remoteVars => Remote!PathInv' /\ Remote!AnswersOwn'
  <1> SUFFICES ASSUME Remote!TypeOK, Remote!PathInv, Remote!AnswersOwn, [Remote!Next]_remoteVars
               PROVE  Remote!PathInv' /\ Remote!AnswersOwn'
    BY DEF Remote!RemoteInv, Remote!RemoteSound
  <1>0. /\ sly \in [session_path : Nat, session_id : Nat] /\ sly.session_path <= Len(now)
        /\ Len(now) \in Nat /\ posed \in Nat
        /\ told \in [now : SUBSET [inquiry : Nat, expected : Nat], force : Seq(Nat)]
    BY BoundsAssumption, LenProperties DEF Remote!TypeOK
  <1> USE DEF Remote!PathInv, Remote!AnswersOwn
  <1>1. CASE Remote!Send
    <2>1. sly' = [sly EXCEPT !.session_path = Len(now) + 1] /\ sent' = posed + 1 /\ Remote!NewSession
          /\ poll = Remote!NoPoll /\ UNCHANGED <<poll, told>>
      BY <1>1 DEF Remote!Send, Remote!Path, Remote!Asks
    <2>2. now'[Len(now) + 1].inquiry = posed + 1
      BY <2>1, NowEffect
    <2> QED
      BY <1>0, <2>1, <2>2
  <1>2. CASE Remote!SendFails \/ Remote!NowAnswers
    <2>1. UNCHANGED <<sly, poll, told, sent>>
      BY <1>2 DEF Remote!SendFails, Remote!NowAnswers
    <2>2. \A s \in 1 .. Len(now) : now'[s].inquiry = now[s].inquiry
      BY <1>2, NowEffect DEF Remote!SendFails, Remote!NowAnswers
    <2> QED
      BY <1>0, <2>1, <2>2
  <1>3. CASE Remote!Retrieve
    BY <1>0, <1>3 DEF Remote!Retrieve
  <1>4. ASSUME NEW answer, Remote!Tells(answer), \A a \in answer : a.inquiry = a.expected
        PROVE  Remote!PathInv' /\ Remote!AnswersOwn'
    BY <1>0, <1>4 DEF Remote!Tells
  <1>5. CASE Remote!Finds
    <2>1. now[poll.path].inquiry = sent
      BY <1>5 DEF Remote!Finds
    <2> QED
      BY <1>4, <1>5, <2>1 DEF Remote!Finds
  <1>6. CASE Remote!PollFails
    BY <1>4, <1>6 DEF Remote!PollFails
  <1>7. CASE Remote!PollsAgain
    <2>1. CASE Remote!Tells({})
      BY <1>4, <2>1
    <2>2. CASE poll' = [poll EXCEPT !.attempt = @ + 1] /\ UNCHANGED <<sly, now, force, posed, told, sent>>
      <3>1. poll'.path = poll.path
        BY <2>2 DEF Remote!TypeOK
      <3> QED
        BY <1>7, <2>2, <3>1 DEF Remote!PollsAgain
    <2> QED
      BY <1>7, <2>1, <2>2 DEF Remote!PollsAgain
  <1>8. CASE Remote!Post \/ Remote!PostFails
    <2>1. sly'.session_path = sly.session_path /\ told'.now = told.now /\ UNCHANGED <<now, poll, sent>>
      BY <1>0, <1>8 DEF Remote!Post, Remote!PostFails
    <2> QED
      BY <2>1
  <1>9. CASE UNCHANGED remoteVars
    BY <1>9 DEF remoteVars
  <1> QED
    BY <1>1, <1>2, <1>3, <1>5, <1>6, <1>7, <1>8, <1>9 DEF Remote!Next

\* The place of a session in sly_data, or the next one.
LEMMA SessionForRange ==
  ASSUME Remote!TypeOK
  PROVE  /\ Remote!SessionFor \in 1 .. Len(force) + 1
         /\ sly.session_id # 0 => Remote!SessionFor = sly.session_id /\ Remote!SessionFor <= Len(force)
  <1>1. sly.session_id \in Nat /\ sly.session_id <= Len(force) /\ Len(force) \in Nat
    BY LenProperties DEF Remote!TypeOK
  <1> QED
    BY <1>1 DEF Remote!SessionFor

\* An inquiry is later than all before it, so the session it is posted to stays in order.
LEMMA PostKeepsOrder ==
  ASSUME Remote!TypeOK, Remote!OrderInv, NEW s \in 1 .. Len(force) + 1,
         force' = Remote!OnForce(s), posed' = posed + 1
  PROVE  Remote!OrderInv'
  <1>1. force \in Seq(Seq(Nat)) /\ posed \in Nat /\ Len(force) \in Nat
    BY BoundsAssumption, LenProperties DEF Remote!TypeOK
  <1>0. /\ force' \in Seq(Seq(Nat))
        /\ Len(force') = IF s <= Len(force) THEN Len(force) ELSE Len(force) + 1
        /\ \A t \in 1 .. Len(force) : t # s => force'[t] = force[t]
        /\ force'[s] = IF s <= Len(force) THEN Append(force[s], posed + 1) ELSE <<posed + 1>>
    BY OnForceEffect
  <1>2. force' \in Seq(Seq(Nat)) /\ Len(force') \in Nat /\ DOMAIN force' = 1 .. Len(force')
    BY <1>0, LenProperties
  <1> SUFFICES ASSUME NEW t \in DOMAIN force'
               PROVE  /\ \A i \in DOMAIN force'[t] : force'[t][i] <= posed'
                      /\ \A i, j \in DOMAIN force'[t] : i < j => force'[t][i] < force'[t][j]
    BY DEF Remote!OrderInv
  <1>3. \A u \in 1 .. Len(force) :
            /\ force[u] \in Seq(Nat)
            /\ \A i \in DOMAIN force[u] : force[u][i] \in Nat /\ force[u][i] <= posed
            /\ \A i, j \in DOMAIN force[u] : i < j => force[u][i] < force[u][j]
    BY <1>1, LenProperties, ElementOfSeq DEF Remote!OrderInv
  <1>4. CASE t # s
    <2>1. t \in 1 .. Len(force)
      <3>1. t \in 1 .. Len(force')
        BY <1>2
      <3>2. CASE s <= Len(force)
        BY <1>0, <3>1, <3>2
      <3>3. CASE ~(s <= Len(force))
        <4>1. s = Len(force) + 1
          BY <1>1, <3>3
        <4> QED
          BY <1>0, <1>1, <1>4, <3>1, <3>3, <4>1
      <3> QED
        BY <3>2, <3>3
    <2>2. force'[t] = force[t]
      BY <1>0, <1>4, <2>1
    <2>3. /\ \A i \in DOMAIN force[t] : force[t][i] \in Nat /\ force[t][i] <= posed
          /\ \A i, j \in DOMAIN force[t] : i < j => force[t][i] < force[t][j]
      BY <1>3, <2>1
    <2>4. \A n \in Nat : n <= posed => n <= posed'
      BY <1>1
    <2> QED
      BY <2>2, <2>3, <2>4
  <1>5. CASE t = s /\ s <= Len(force)
    <2>1. s \in 1 .. Len(force) /\ force'[s] = Append(force[s], posed + 1)
      BY <1>0, <1>1, <1>5
    <2>2. /\ Len(force[s]) \in Nat /\ DOMAIN force[s] = 1 .. Len(force[s])
          /\ DOMAIN force'[s] = 1 .. Len(force[s]) + 1
          /\ \A i \in 1 .. Len(force[s]) : force'[s][i] = force[s][i]
          /\ force'[s][Len(force[s]) + 1] = posed + 1
      BY <1>1, <1>3, <2>1, AppendProperties, LenProperties
    <2>3. \A i \in 1 .. Len(force[s]) :
              /\ force'[s][i] \in Nat /\ force'[s][i] <= posed
              /\ \A j \in 1 .. Len(force[s]) : i < j => force'[s][i] < force'[s][j]
      BY <1>3, <2>1, <2>2
    <2> DEFINE n == Len(force[s]) + 1
               f == force'[s]
    <2>4. DOMAIN f = 1 .. n /\ f[n] = posed + 1 /\ n \in Nat
      BY <2>2
    <2>5. \A i \in 1 .. n - 1 : f[i] \in Nat /\ f[i] <= posed /\ \A j \in 1 .. n - 1 : i < j => f[i] < f[j]
      BY <2>2, <2>3
    <2> HIDE DEF n, f
    <2>6. ASSUME NEW i \in 1 .. n PROVE f[i] <= posed + 1
      <3>1. CASE i = n
        BY <1>1, <2>4, <3>1
      <3>2. CASE i # n
        <4>1. i \in 1 .. n - 1
          BY <2>4, <3>2
        <4> QED
          BY <1>1, <2>5, <4>1
      <3> QED
        BY <3>1, <3>2
    <2>7. ASSUME NEW i \in 1 .. n, NEW j \in 1 .. n, i < j PROVE f[i] < f[j]
      <3>1. i \in 1 .. n - 1
        BY <2>4, <2>7
      <3>2. CASE j = n
        BY <1>1, <2>4, <2>5, <3>1, <3>2
      <3>3. CASE j # n
        <4>1. j \in 1 .. n - 1
          BY <2>4, <3>3
        <4> QED
          BY <2>5, <2>7, <3>1, <4>1
      <3> QED
        BY <3>2, <3>3
    <2> QED
      BY <1>1, <1>5, <2>4, <2>6, <2>7 DEF f
  <1>6. CASE t = s /\ ~(s <= Len(force))
    <2>1. force'[s] = <<posed + 1>>
      BY <1>0, <1>6
    <2> QED
      BY <1>1, <1>6, <2>1
  <1> QED
    BY <1>4, <1>5, <1>6

\* An empty session is opened beside the others.
LEMMA OpenKeepsOrder ==
  ASSUME Remote!TypeOK, Remote!OrderInv, force' = Append(force, <<>>), posed' = posed + 1
  PROVE  Remote!OrderInv'
  <1>1. force \in Seq(Seq(Nat)) /\ posed \in Nat /\ <<>> \in Seq(Nat)
    BY BoundsAssumption DEF Remote!TypeOK
  <1>2. /\ DOMAIN force = 1 .. Len(force) /\ Len(force) \in Nat
        /\ DOMAIN force' = 1 .. Len(force) + 1
        /\ \A t \in 1 .. Len(force) : force'[t] = force[t] /\ force[t] \in Seq(Nat)
        /\ force'[Len(force) + 1] = <<>>
    BY <1>1, AppendProperties, LenProperties, ElementOfSeq
  <1> SUFFICES ASSUME NEW t \in DOMAIN force'
               PROVE  /\ \A i \in DOMAIN force'[t] : force'[t][i] <= posed'
                      /\ \A i, j \in DOMAIN force'[t] : i < j => force'[t][i] < force'[t][j]
    BY DEF Remote!OrderInv
  <1>3. CASE t \in 1 .. Len(force)
    <2>1. \A i \in DOMAIN force[t] : force[t][i] \in Nat /\ force[t][i] <= posed
      BY <1>2, <1>3, LenProperties, ElementOfSeq DEF Remote!OrderInv
    <2> QED
      BY <1>1, <1>2, <1>3, <2>1 DEF Remote!OrderInv
  <1>4. CASE t = Len(force) + 1
    BY <1>2, <1>4
  <1> QED
    BY <1>2, <1>3, <1>4

LEMMA RemoteOrder == Remote!RemoteInv /\ [Remote!Next]_remoteVars => Remote!OrderInv'
  <1> SUFFICES ASSUME Remote!TypeOK, Remote!OrderInv, [Remote!Next]_remoteVars PROVE Remote!OrderInv'
    BY DEF Remote!RemoteInv
  <1>1. ASSUME UNCHANGED force, posed' \in {posed, posed + 1} PROVE Remote!OrderInv'
    <2>1. posed \in Nat /\ force \in Seq(Seq(Nat))
      BY BoundsAssumption DEF Remote!TypeOK
    <2>2. \A s \in DOMAIN force : \A i \in DOMAIN force[s] : force[s][i] \in Nat
      BY <2>1, LenProperties, ElementOfSeq
    <2> QED
      BY <1>1, <2>1, <2>2 DEF Remote!OrderInv
  <1>2. CASE Remote!Send \/ Remote!SendFails \/ Remote!NowAnswers \/ Remote!Retrieve \/ Remote!PollFails
    BY <1>1, <1>2 DEF Remote!Send, Remote!SendFails, Remote!NowAnswers, Remote!Retrieve,
                      Remote!PollFails, Remote!Asks, Remote!Tells
  <1>3. CASE Remote!Finds \/ Remote!PollsAgain
    BY <1>1, <1>3 DEF Remote!Finds, Remote!PollsAgain, Remote!Tells
  <1>4. CASE Remote!Post
    BY <1>4, SessionForRange, PostKeepsOrder DEF Remote!Post, Remote!Asks
  <1>5. CASE Remote!PostFails
    BY <1>1, <1>5, SessionForRange, PostKeepsOrder, OpenKeepsOrder DEF Remote!PostFails, Remote!Asks
  <1>6. CASE UNCHANGED remoteVars
    BY <1>1, <1>6 DEF remoteVars
  <1> QED
    BY <1>2, <1>3, <1>4, <1>5, <1>6 DEF Remote!Next

\* A session keeps what it holds and gets the inquiry that is posted to it.
LEMMA PostHolds ==
  ASSUME Remote!TypeOK, NEW s \in 1 .. Len(force) + 1, force' = Remote!OnForce(s)
  PROVE  /\ s <= Len(force) => \A i \in DOMAIN force[s] :
                                   \E j \in DOMAIN force'[s] : force'[s][j] = force[s][i]
         /\ \E j \in DOMAIN force'[s] : force'[s][j] = posed + 1
  <1>1. force \in Seq(Seq(Nat)) /\ posed + 1 \in Nat /\ Len(force) \in Nat
    <2>1. force \in Seq(Seq(Nat)) /\ posed \in 0 .. MaxInquiries
      BY DEF Remote!TypeOK
    <2>2. MaxInquiries \in Nat
      BY BoundsAssumption
    <2> QED
      BY <2>1, <2>2, LenProperties
  <1>2. force'[s] = IF s <= Len(force) THEN Append(force[s], posed + 1) ELSE <<posed + 1>>
    BY OnForceEffect
  <1>3. CASE s <= Len(force)
    <2>1. force[s] \in Seq(Nat)
      BY <1>1, <1>3, ElementOfSeq
    <2>2. /\ Len(force[s]) \in Nat /\ DOMAIN force[s] = 1 .. Len(force[s])
          /\ DOMAIN force'[s] = 1 .. Len(force[s]) + 1
          /\ \A i \in 1 .. Len(force[s]) : force'[s][i] = force[s][i]
          /\ force'[s][Len(force[s]) + 1] = posed + 1
      BY <1>1, <1>2, <1>3, <2>1, AppendProperties, LenProperties
    <2> QED
      BY <2>2
  <1>4. CASE ~(s <= Len(force))
    <2>1. force'[s] = <<posed + 1>>
      BY <1>2, <1>4
    <2> QED
      BY <1>1, <1>4, <2>1
  <1> QED
    BY <1>3, <1>4

\* The types, as the steps need them.
LEMMA RemoteFacts ==
  ASSUME Remote!TypeOK
  PROVE  /\ MaxInquiries \in Nat /\ MaxAttempts \in Nat \ {0}
         /\ Len(now) \in Nat /\ Len(force) \in Nat
         /\ sly \in [session_path : Nat, session_id : Nat]
         /\ sly.session_path <= Len(now) /\ sly.session_id <= Len(force)
         /\ poll \in [attempt : 0 .. MaxAttempts, path : 0 .. Len(now)]
         /\ posed \in Nat /\ posed <= MaxInquiries /\ posed + 1 \in Nat /\ sent \in 0 .. posed
         /\ told \in [now : SUBSET [inquiry : Nat, expected : Nat], force : Seq(Nat)]
  <1>1. MaxInquiries \in Nat /\ MaxAttempts \in Nat \ {0}
    BY BoundsAssumption
  <1>2. now \in Seq(Remote!Session) /\ force \in Seq(Seq(Nat))
    BY DEF Remote!TypeOK
  <1> QED
    BY <1>1, <1>2, LenProperties DEF Remote!TypeOK

LEMMA RemoteContext == Remote!RemoteInv /\ [Remote!Next]_remoteVars => Remote!ContextKept'
  <1> SUFFICES ASSUME Remote!RemoteInv, [Remote!Next]_remoteVars PROVE Remote!ContextKept'
    OBVIOUS
  <1>1. Remote!TypeOK /\ Remote!OrderInv /\ Remote!ContextKept
    BY DEF Remote!RemoteInv, Remote!RemoteSound
  <1>2. /\ sly \in [session_path : Nat, session_id : Nat]
        /\ told \in [now : SUBSET [inquiry : Nat, expected : Nat], force : Seq(Nat)]
        /\ posed + 1 \in Nat
    BY <1>1, RemoteFacts
  <1>3. ASSUME UNCHANGED force, told'.force = told.force, sly'.session_id = sly.session_id
        PROVE  Remote!ContextKept'
    BY <1>1, <1>3 DEF Remote!ContextKept
  <1>4. CASE Remote!Send \/ Remote!SendFails \/ Remote!NowAnswers \/ Remote!Retrieve
    BY <1>2, <1>3, <1>4 DEF Remote!Send, Remote!SendFails, Remote!NowAnswers, Remote!Retrieve
  <1>5. CASE Remote!Finds \/ Remote!PollsAgain \/ Remote!PollFails
    BY <1>2, <1>3, <1>5 DEF Remote!Finds, Remote!PollsAgain, Remote!PollFails, Remote!Tells
  <1>6. CASE UNCHANGED remoteVars
    BY <1>3, <1>6 DEF remoteVars
  <1> DEFINE s == Remote!SessionFor
  <1>7. /\ s \in 1 .. Len(force) + 1 /\ s \in Nat \ {0}
        /\ sly.session_id # 0 => s = sly.session_id /\ s <= Len(force)
    <2>1. Len(force) \in Nat
      BY <1>1, LenProperties DEF Remote!TypeOK
    <2> QED
      BY <1>1, <2>1, SessionForRange
  <1>8. ASSUME force' = Remote!OnForce(s), sly'.session_id = s,
               NEW x \in Nat, told.force # <<>>,
               \E i \in DOMAIN told.force : x = told.force[i]
        PROVE  \E j \in DOMAIN force'[s] : force'[s][j] = x
    <2>1. sly.session_id # 0 /\ \E j \in DOMAIN force[s] : force[s][j] = x
      BY <1>1, <1>7, <1>8 DEF Remote!ContextKept
    <2> QED
      BY <1>1, <1>7, <1>8, <2>1, PostHolds
  <1>9. ASSUME force' = Remote!OnForce(s), posed' = posed + 1
        PROVE  \A i, j \in DOMAIN force'[s] : i < j => force'[s][i] < force'[s][j]
    <2>1. Remote!OrderInv' /\ s \in DOMAIN force'
      <3>1. Remote!OrderInv'
        BY <1>1, <1>7, <1>9, PostKeepsOrder
      <3>2. force' \in Seq(Seq(Nat)) /\ s <= Len(force')
        BY <1>1, <1>7, <1>9, OnForceEffect, LenProperties DEF Remote!TypeOK
      <3> QED
        BY <1>7, <3>1, <3>2, LenProperties
    <2> QED
      BY <2>1 DEF Remote!OrderInv
  <1>10. CASE Remote!Post
    <2>1. /\ force' = Remote!OnForce(s) /\ sly'.session_id = s /\ posed' = posed + 1
          /\ told'.force = Append(told.force, posed + 1) \/ told'.force = told.force
      BY <1>2, <1>10 DEF Remote!Post, Remote!Asks
    <2> SUFFICES ASSUME NEW i \in DOMAIN told'.force, told'.force # <<>>
                 PROVE  \E j \in DOMAIN force'[s] : force'[s][j] = told'.force[i]
      BY <1>7, <1>9, <2>1 DEF Remote!ContextKept
    <2>2. told.force \in Seq(Nat)
      BY <1>2
    <2>3. CASE i \in DOMAIN told.force
      <3>1. i \in 1 .. Len(told.force) /\ told.force[i] \in Nat /\ told.force # <<>>
        BY <2>2, <2>3, LenProperties, ElementOfSeq
      <3>2. Append(told.force, posed + 1)[i] = told.force[i]
        BY <1>2, <2>2, <3>1, AppendProperties
      <3>3. told'.force[i] = told.force[i]
        BY <2>1, <3>2
      <3> QED
        BY <1>8, <2>1, <2>3, <3>1, <3>3
    <2>4. CASE i \notin DOMAIN told.force
      <3>1. told'.force[i] = posed + 1
        BY <1>2, <2>1, <2>2, <2>4, AppendProperties, LenProperties
      <3> QED
        BY <1>1, <1>7, <2>1, <3>1, PostHolds
    <2> QED
      BY <2>3, <2>4
  <1>11. CASE Remote!PostFails
    <2>1. UNCHANGED <<sly, told>> /\ posed' = posed + 1
      BY <1>11 DEF Remote!PostFails, Remote!Asks
    <2>2. CASE UNCHANGED force
      BY <1>3, <2>1, <2>2
    <2>3. CASE told.force = <<>>
      BY <2>1, <2>3 DEF Remote!ContextKept
    <2>4. CASE told.force # <<>> /\ force' = Remote!OnForce(s)
      <3>1. sly.session_id # 0 /\ s = sly.session_id
        BY <1>1, <1>7, <2>4 DEF Remote!ContextKept
      <3>2. \A i \in DOMAIN told.force : told.force[i] \in Nat
        BY <1>2, LenProperties, ElementOfSeq
      <3>3. \A i \in DOMAIN told.force : \E j \in DOMAIN force'[s] : force'[s][j] = told.force[i]
        BY <1>8, <2>1, <2>4, <3>1, <3>2
      <3> QED
        BY <1>9, <2>1, <2>4, <3>1, <3>3 DEF Remote!ContextKept
    <2>5. sly.session_id = 0 => told.force = <<>>
      BY <1>1 DEF Remote!ContextKept
    <2> QED
      BY <1>11, <2>2, <2>3, <2>4, <2>5 DEF Remote!PostFails
  <1> QED
    BY <1>4, <1>5, <1>6, <1>10, <1>11 DEF Remote!Next

LEMMA RemoteTypes == Remote!RemoteInv /\ [Remote!Next]_remoteVars => Remote!TypeOK'
  <1> SUFFICES ASSUME Remote!TypeOK, Remote!PathInv, [Remote!Next]_remoteVars PROVE Remote!TypeOK'
    BY DEF Remote!RemoteInv
  <1>1. /\ MaxInquiries \in Nat /\ MaxAttempts \in Nat \ {0}
        /\ Len(now) \in Nat /\ Len(force) \in Nat
        /\ sly \in [session_path : Nat, session_id : Nat]
        /\ sly.session_path <= Len(now) /\ sly.session_id <= Len(force)
        /\ poll \in [attempt : 0 .. MaxAttempts, path : 0 .. Len(now)]
        /\ posed \in Nat /\ posed <= MaxInquiries /\ sent \in 0 .. posed
        /\ told \in [now : SUBSET [inquiry : Nat, expected : Nat], force : Seq(Nat)]
    BY RemoteFacts
  <1>2. now \in Seq(Remote!Session) /\ force \in Seq(Seq(Nat))
    BY DEF Remote!TypeOK
  <1>3. ASSUME now' \in Seq(Remote!Session), force' \in Seq(Seq(Nat)),
               Len(now') >= Len(now), Len(force') >= Len(force),
               poll' \in [attempt : 0 .. MaxAttempts, path : 0 .. Len(now)],
               sly' \in [session_path : Nat, session_id : Nat],
               sly'.session_path <= Len(now'), sly'.session_id <= Len(force'),
               posed' \in {posed, posed + 1}, posed' <= MaxInquiries, sent' \in 0 .. posed',
               told' \in [now : SUBSET [inquiry : Nat, expected : Nat], force : Seq(Nat)]
        PROVE  Remote!TypeOK'
    <2>1. Len(now') \in Nat
      BY <1>3, LenProperties
    <2>2. poll' \in [attempt : 0 .. MaxAttempts, path : 0 .. Len(now')]
      <3>1. 0 .. Len(now) \subseteq 0 .. Len(now')
        <4> DEFINE m == Len(now)
                   n == Len(now')
        <4>1. m \in Nat /\ n \in Nat /\ n >= m
          BY <1>1, <1>3, <2>1
        <4> HIDE DEF m, n
        <4>2. 0 .. m \subseteq 0 .. n
          BY <4>1
        <4> QED
          BY <4>2 DEF m, n
      <3> QED
        BY <1>3, <3>1
    <2>3. posed' \in 0 .. MaxInquiries
      <3>1. posed \in Nat /\ MaxInquiries \in Nat
        BY <1>1
      <3>2. posed' \in {posed, posed + 1} /\ posed' <= MaxInquiries
        BY <1>3
      <3> QED
        BY <3>1, <3>2
    <2> QED
      BY <1>3, <2>2, <2>3 DEF Remote!TypeOK
  <1>4. CASE Remote!Send
    <2>1. /\ now' \in Seq(Remote!Session) /\ Len(now') = Len(now) + 1
      BY <1>4, NowEffect DEF Remote!Send
    <2>2. /\ sly' = [sly EXCEPT !.session_path = Len(now) + 1] /\ sent' = posed + 1
          /\ posed' = posed + 1 /\ posed < MaxInquiries /\ UNCHANGED <<force, poll, told>>
      BY <1>4 DEF Remote!Send, Remote!Asks, Remote!Path
    <2>3. /\ sly' \in [session_path : Nat, session_id : Nat]
          /\ sly'.session_path = Len(now) + 1 /\ sly'.session_id = sly.session_id
      <3> DEFINE n == Len(now) + 1
      <3>1. sly \in [session_path : Nat, session_id : Nat] /\ n \in Nat
        BY <1>1
      <3>2. sly' = [sly EXCEPT !.session_path = n]
        BY <2>2
      <3> HIDE DEF n
      <3>3. /\ sly' \in [session_path : Nat, session_id : Nat]
            /\ sly'.session_path = n /\ sly'.session_id = sly.session_id
        BY <3>1, <3>2
      <3> QED
        BY <3>3 DEF n
    <2>4. sent' \in 0 .. posed' /\ posed' <= MaxInquiries
      BY <1>1, <2>2
    <2>5. poll' = poll /\ told' = told /\ force' = force
      BY <2>2
    <2>6. /\ Len(now') >= Len(now) /\ Len(force') >= Len(force)
          /\ sly'.session_path <= Len(now') /\ sly'.session_id <= Len(force')
      BY <1>1, <2>1, <2>3, <2>5
    <2>7. posed' \in {posed, posed + 1} /\ force' \in Seq(Seq(Nat))
      BY <1>2, <2>2, <2>5
    <2> QED
      BY <1>1, <1>3, <2>1, <2>3, <2>4, <2>5, <2>6, <2>7
  <1>5. CASE Remote!SendFails \/ Remote!NowAnswers
    <2>1. now' \in Seq(Remote!Session) /\ Len(now') >= Len(now)
      <3>1. \/ Remote!NewSession \/ UNCHANGED now
            \/ \E s \in DOMAIN now : now' = [now EXCEPT ![s].answered = TRUE]
        BY <1>5 DEF Remote!SendFails, Remote!NowAnswers
      <3>2. CASE UNCHANGED now
        BY <1>1, <1>2, <3>2
      <3> QED
        BY <3>1, <3>2, NowEffect
    <2>2. /\ UNCHANGED <<sly, force, poll, told, sent>>
          /\ posed' = posed \/ (posed' = posed + 1 /\ posed < MaxInquiries)
      BY <1>5 DEF Remote!SendFails, Remote!NowAnswers, Remote!Asks
    <2> QED
      BY <1>1, <1>2, <1>3, <2>1, <2>2
  <1>6. CASE Remote!Retrieve
    <2>1. poll' = [attempt |-> 1, path |-> sly.session_path] /\ UNCHANGED <<sly, now, force, posed, told, sent>>
      BY <1>6 DEF Remote!Retrieve
    <2> QED
      BY <1>1, <1>2, <1>3, <2>1, BoundsAssumption
  <1>7. ASSUME NEW answer \in SUBSET [inquiry : Nat, expected : Nat], Remote!Tells(answer)
        PROVE  Remote!TypeOK'
    <2>1. Remote!NoPoll \in [attempt : 0 .. MaxAttempts, path : 0 .. Len(now)]
      BY <1>1 DEF Remote!NoPoll
    <2>2. poll' = Remote!NoPoll /\ told' = [told EXCEPT !.now = answer]
          /\ UNCHANGED <<sly, now, force, posed, sent>>
      BY <1>7 DEF Remote!Tells
    <2>3. told' \in [now : SUBSET [inquiry : Nat, expected : Nat], force : Seq(Nat)]
      BY <1>1, <1>7, <2>2
    <2>4. poll' \in [attempt : 0 .. MaxAttempts, path : 0 .. Len(now)]
      BY <2>1, <2>2
    <2>5. sly' = sly /\ now' = now /\ force' = force /\ posed' = posed /\ sent' = sent
      BY <2>2
    <2> QED
      BY <1>1, <1>2, <1>3, <2>3, <2>4, <2>5
  <1>8. CASE Remote!Finds
    <2>1. now[poll.path].inquiry = sent
      BY <1>8 DEF Remote!Finds, Remote!PathInv
    <2> QED
      BY <1>1, <1>7, <1>8, <2>1 DEF Remote!Finds
  <1>9. CASE Remote!PollFails
    BY <1>7, <1>9 DEF Remote!PollFails
  <1>10. CASE Remote!PollsAgain
    <2>1. CASE Remote!Tells({})
      BY <1>7, <2>1
    <2>2. CASE /\ poll.attempt < MaxAttempts /\ poll' = [poll EXCEPT !.attempt = @ + 1]
               /\ UNCHANGED <<sly, now, force, posed, told, sent>>
      <3>1. poll' \in [attempt : 0 .. MaxAttempts, path : 0 .. Len(now)]
        <4>1. poll.attempt \in 0 .. MaxAttempts /\ poll.attempt + 1 \in 0 .. MaxAttempts
          BY <1>1, <2>2
        <4>2. poll' = [poll EXCEPT !.attempt = poll.attempt + 1]
          BY <2>2
        <4> QED
          BY <1>1, <4>1, <4>2
      <3> QED
        BY <1>1, <1>2, <1>3, <2>2, <3>1
    <2> QED
      BY <1>10, <2>1, <2>2 DEF Remote!PollsAgain
  <1>11. CASE Remote!Post \/ Remote!PostFails
    <2> DEFINE s == Remote!SessionFor
    <2>1. /\ s \in 1 .. Len(force) + 1 /\ s \in Nat
          /\ Remote!OnForce(s) \in Seq(Seq(Nat))
          /\ Len(Remote!OnForce(s)) >= Len(force) /\ s <= Len(Remote!OnForce(s))
      BY <1>1, SessionForRange, OnForceEffect
    <2>2. posed' = posed + 1 /\ posed < MaxInquiries /\ UNCHANGED <<now, poll, sent>>
      BY <1>11 DEF Remote!Post, Remote!PostFails, Remote!Asks
    <2>3. CASE Remote!Post
      <3>1. force' = Remote!OnForce(s) /\ sly' = [sly EXCEPT !.session_id = s]
        BY <2>3 DEF Remote!Post
      <3>2. told' \in [now : SUBSET [inquiry : Nat, expected : Nat], force : Seq(Nat)]
        <4>1. told.force \in Seq(Nat) /\ posed + 1 \in Nat
          BY <1>1
        <4>2. Append(told.force, posed + 1) \in Seq(Nat)
          BY <4>1, AppendProperties
        <4>3. told' = [told EXCEPT !.force = Append(told.force, posed + 1)] \/ told' = told
          BY <1>1, <2>3 DEF Remote!Post
        <4> QED
          BY <1>1, <4>2, <4>3
      <3>3. /\ sly' \in [session_path : Nat, session_id : Nat]
            /\ sly'.session_path = sly.session_path /\ sly'.session_id = s
        BY <1>1, <2>1, <3>1
      <3>4. sent' \in 0 .. posed' /\ posed' <= MaxInquiries /\ now' = now /\ poll' = poll
        BY <1>1, <2>2
      <3> QED
        BY <1>1, <1>2, <1>3, <2>1, <2>2, <3>1, <3>2, <3>3, <3>4
    <2>4. CASE Remote!PostFails
      <3>1. force' \in Seq(Seq(Nat)) /\ Len(force') >= Len(force)
        <4>1. Append(force, <<>>) \in Seq(Seq(Nat)) /\ Len(Append(force, <<>>)) = Len(force) + 1
          BY <1>2, AppendProperties
        <4>2. UNCHANGED force \/ force' = Remote!OnForce(s) \/ force' = Append(force, <<>>)
          BY <2>4 DEF Remote!PostFails
        <4>3. CASE UNCHANGED force
          BY <1>1, <1>2, <4>3
        <4>4. CASE force' = Remote!OnForce(s)
          BY <2>1, <4>4
        <4>5. CASE force' = Append(force, <<>>)
          BY <1>1, <4>1, <4>5
        <4> QED
          BY <4>2, <4>3, <4>4, <4>5
      <3>2. UNCHANGED <<sly, told>>
        BY <2>4 DEF Remote!PostFails
      <3> QED
        BY <1>1, <1>2, <1>3, <2>2, <3>1, <3>2
    <2> QED
      BY <1>11, <2>3, <2>4
  <1>12. CASE UNCHANGED remoteVars
    BY <1>12 DEF remoteVars, Remote!TypeOK
  <1> QED
    BY <1>4, <1>5, <1>6, <1>8, <1>9, <1>10, <1>11, <1>12 DEF Remote!Next

LEMMA RemoteInvariant == Init /\ [][Next]_vars => []Remote!RemoteInv
  <1>1. Init => Remote!RemoteInv
    <2> SUFFICES ASSUME Remote!Init PROVE Remote!RemoteInv
      BY DEF Init
    <2> USE DEF Remote!Init
    <2>1. Remote!TypeOK
      BY BoundsAssumption DEF Remote!TypeOK, Remote!NoPoll
    <2>2. Remote!PathInv /\ Remote!OrderInv
      BY DEF Remote!PathInv, Remote!OrderInv
    <2>3. Remote!RemoteSound
      BY DEF Remote!RemoteSound, Remote!AnswersOwn, Remote!ContextKept
    <2> QED
      BY <2>1, <2>2, <2>3 DEF Remote!RemoteInv
  <1>2. Remote!RemoteInv /\ [Remote!Next]_remoteVars => Remote!RemoteInv'
    BY RemoteTypes, RemotePathKept, RemoteOrder, RemoteContext
    DEF Remote!RemoteInv, Remote!RemoteSound
  <1>3. [Next]_vars => [Remote!Next]_remoteVars
    BY DEF Next, vars, Still, ChatStep, TenantStep, LaunchStep, SolveStep, SiteStep, FlaskStep, RemoteStep
  <1> QED
    BY <1>1, <1>2, <1>3, PTL

\* A conversation keeps its own: the agent session its state belongs to, whatever
\* clients, calls and new chats run into each other (on_connect, handle_new_chat); and
\* the sessions of remote agents that its inquiries went to, whichever of them fail.
THEOREM ConversationsKept == Spec => []ConversationKept
  <1>1. Flask!FlaskInv /\ Remote!RemoteInv => ConversationKept
    BY FlaskKept DEF ConversationKept, Remote!RemoteInv
  <1> QED
    BY <1>1, FlaskInvariant, RemoteInvariant, PTL DEF Spec

-----------------------------------------------------------------------------
(* ChatBridge, by the facts that are proved about it alone                 *)

Bridge == INSTANCE ChatBridgeProofs

\* What a connection and its worker do here is what they do there.
LEMMA SameSteps ==
  ASSUME NEW k \in Sockets
  PROVE  /\ (Chat!Disconnect(k) => Bridge!Disconnect(k)) /\ (Chat!Receive(k) => Bridge!Receive(k))
         /\ (Chat!ReceiveRaises(k) => Bridge!ReceiveRaises(k)) /\ (Chat!AdmitRaises(k) => Bridge!AdmitRaises(k))
         /\ (Chat!Refuse(k) => Bridge!Refuse(k)) /\ (Chat!Admit(k) => Bridge!Admit(k))
         /\ (Chat!SaveUser(k) => Bridge!SaveUser(k)) /\ (Chat!CommitUser(k) => Bridge!CommitUser(k))
         /\ (Chat!Start(k) => Bridge!Start(k)) /\ (Chat!Poll(k) => Bridge!Poll(k))
         /\ (Chat!PollEnds(k) => Bridge!PollEnds(k)) /\ (Chat!FinalDrain(k) => Bridge!FinalDrain(k))
         /\ (Chat!NoReply(k) => Bridge!NoReply(k)) /\ (Chat!Persist(k) => Bridge!Persist(k))
         /\ (Chat!Emit(k) => Bridge!Emit(k)) /\ (Chat!EmitWidget(k) => Bridge!EmitWidget(k))
         /\ (Chat!ReportError(k) => Bridge!ReportError(k)) /\ (Chat!LogError(k) => Bridge!LogError(k))
         /\ (Chat!Done(k) => Bridge!Done(k)) /\ (Chat!AgentSpeaks(k) => Bridge!AgentSpeaks(k))
         /\ (Chat!ChatReturns(k) => Bridge!ChatReturns(k)) /\ (Chat!ChatRaises(k) => Bridge!ChatRaises(k))
  <1>1. Chat!Disconnect(k) => Bridge!Disconnect(k)
    BY Zenon DEF Chat!Disconnect, Bridge!Disconnect, Chat!db, Bridge!db
  <1>2. Chat!Receive(k) => Bridge!Receive(k)
    BY Zenon DEF Chat!Receive, Bridge!Receive, Chat!db, Bridge!db, Chat!goto, Bridge!goto
  <1>3. Chat!ReceiveRaises(k) => Bridge!ReceiveRaises(k)
    BY Zenon DEF Chat!ReceiveRaises, Bridge!ReceiveRaises, Chat!db, Bridge!db, Chat!EndHandler,
       Bridge!EndHandler, Chat!goto, Bridge!goto
  <1>4. Chat!AdmitRaises(k) => Bridge!AdmitRaises(k)
    BY Zenon DEF Chat!AdmitRaises, Bridge!AdmitRaises, Chat!db, Bridge!db, Chat!EndHandler,
       Bridge!EndHandler, Chat!goto, Bridge!goto
  <1>5. Chat!Refuse(k) => Bridge!Refuse(k)
    BY Zenon DEF Chat!Refuse, Bridge!Refuse, Chat!db, Bridge!db, Chat!SendThen, Bridge!SendThen,
       Chat!Sends, Bridge!Sends, Chat!Outcomes, Bridge!Outcomes, Chat!SendRaises,
       Bridge!SendRaises, Chat!goto, Bridge!goto
  <1>6. Chat!Admit(k) => Bridge!Admit(k)
    BY Zenon DEF Chat!Admit, Bridge!Admit, Chat!wire, Bridge!wire, Chat!db, Bridge!db,
       Chat!goto, Bridge!goto, Chat!SendThen, Bridge!SendThen, Chat!Sends, Bridge!Sends,
       Chat!Outcomes, Bridge!Outcomes, Chat!SendRaises, Bridge!SendRaises
  <1>7. Chat!SaveUser(k) => Bridge!SaveUser(k)
    BY Zenon DEF Chat!SaveUser, Bridge!SaveUser, Chat!wire, Bridge!wire, Chat!db, Bridge!db,
       Chat!goto, Bridge!goto
  <1>8. Chat!CommitUser(k) => Bridge!CommitUser(k)
    BY Zenon DEF Chat!CommitUser, Bridge!CommitUser, Chat!wire, Bridge!wire, Chat!current,
       Bridge!current, Chat!goto, Bridge!goto
  <1>9. Chat!Start(k) => Bridge!Start(k)
    BY Zenon DEF Chat!Start, Bridge!Start, Chat!db, Bridge!db, Chat!Sends, Bridge!Sends,
       Chat!Outcomes, Bridge!Outcomes, Chat!SendRaises, Bridge!SendRaises, Chat!goto, Bridge!goto
  <1>10. Chat!Poll(k) => Bridge!Poll(k)
    BY Zenon DEF Chat!Poll, Bridge!Poll, Chat!db, Bridge!db, Chat!SendThen, Bridge!SendThen,
       Chat!Sends, Bridge!Sends, Chat!Outcomes, Bridge!Outcomes, Chat!SendRaises,
       Bridge!SendRaises, Chat!goto, Bridge!goto, Chat!TakeTraces, Bridge!TakeTraces
  <1>11. Chat!PollEnds(k) => Bridge!PollEnds(k)
    BY Zenon DEF Chat!PollEnds, Bridge!PollEnds, Chat!wire, Bridge!wire, Chat!db, Bridge!db,
       Chat!goto, Bridge!goto
  <1>12. Chat!FinalDrain(k) => Bridge!FinalDrain(k)
    BY Zenon DEF Chat!FinalDrain, Bridge!FinalDrain, Chat!wire, Bridge!wire, Chat!db, Bridge!db,
       Chat!current, Bridge!current, Chat!SendRaises, Bridge!SendRaises, Chat!goto, Bridge!goto,
       Chat!TakeTraces, Bridge!TakeTraces
  <1>13. Chat!NoReply(k) => Bridge!NoReply(k)
    BY Zenon DEF Chat!NoReply, Bridge!NoReply, Chat!db, Bridge!db, Chat!SendThen,
       Bridge!SendThen, Chat!Sends, Bridge!Sends, Chat!Outcomes, Bridge!Outcomes, Chat!SendRaises,
       Bridge!SendRaises, Chat!goto, Bridge!goto
  <1>14. Chat!Persist(k) => Bridge!Persist(k)
    BY Zenon DEF Chat!Persist, Bridge!Persist, Chat!wire, Bridge!wire, Chat!current,
       Bridge!current, Chat!goto, Bridge!goto
  <1>15. Chat!Emit(k) => Bridge!Emit(k)
    BY Zenon DEF Chat!Emit, Bridge!Emit, Chat!db, Bridge!db, Chat!SendThen, Bridge!SendThen,
       Chat!Sends, Bridge!Sends, Chat!Outcomes, Bridge!Outcomes, Chat!SendRaises,
       Bridge!SendRaises, Chat!goto, Bridge!goto
  <1>16. Chat!EmitWidget(k) => Bridge!EmitWidget(k)
    BY Zenon DEF Chat!EmitWidget, Bridge!EmitWidget, Chat!db, Bridge!db, Chat!SendThen,
       Bridge!SendThen, Chat!Sends, Bridge!Sends, Chat!Outcomes, Bridge!Outcomes, Chat!SendRaises,
       Bridge!SendRaises, Chat!goto, Bridge!goto
  <1>17. Chat!ReportError(k) => Bridge!ReportError(k)
    BY Zenon DEF Chat!ReportError, Bridge!ReportError, Chat!db, Bridge!db, Chat!SendThen,
       Bridge!SendThen, Chat!Sends, Bridge!Sends, Chat!Outcomes, Bridge!Outcomes, Chat!SendRaises,
       Bridge!SendRaises, Chat!goto, Bridge!goto
  <1>18. Chat!LogError(k) => Bridge!LogError(k)
    BY Zenon DEF Chat!LogError, Bridge!LogError, Chat!wire, Bridge!wire, Chat!current,
       Bridge!current, Chat!goto, Bridge!goto
  <1>19. Chat!Done(k) => Bridge!Done(k)
    BY Zenon DEF Chat!Done, Bridge!Done, Chat!db, Bridge!db, Chat!SendRaises, Bridge!SendRaises,
       Chat!goto, Bridge!goto
  <1>20. Chat!AgentSpeaks(k) => Bridge!AgentSpeaks(k)
    BY Zenon DEF Chat!AgentSpeaks, Bridge!AgentSpeaks, Chat!wire, Bridge!wire, Chat!db,
       Bridge!db, Chat!current, Bridge!current
  <1>21. Chat!ChatReturns(k) => Bridge!ChatReturns(k)
    BY Zenon DEF Chat!ChatReturns, Bridge!ChatReturns, Chat!wire, Bridge!wire, Chat!db,
       Bridge!db
  <1>22. Chat!ChatRaises(k) => Bridge!ChatRaises(k)
    BY Zenon DEF Chat!ChatRaises, Bridge!ChatRaises, Chat!wire, Bridge!wire, Chat!db, Bridge!db
  <1> QED
    BY <1>1, <1>2, <1>3, <1>4, <1>5, <1>6, <1>7, <1>8, <1>9, <1>10, <1>11, <1>12, <1>13,
       <1>14, <1>15, <1>16, <1>17, <1>18, <1>19, <1>20, <1>21, <1>22

LEMMA ChatInvariant == Init /\ [][Next]_vars => []Bridge!BridgeInv
  <1>0. MaxMessages \in Nat
    BY BoundsAssumption
  <1>1. Init => Bridge!BridgeInv
    <2>1. Chat!Init => Bridge!Init
      BY Zenon DEF Chat!Init, Bridge!Init
    <2> QED
      BY <1>0, <2>1, Bridge!InitInv DEF Init, Bridge!BridgeAssumption
  <1>2. Bridge!BridgeInv /\ [Bridge!Next]_(Bridge!vars) => Bridge!BridgeInv'
    BY <1>0, Bridge!TypeStep, Bridge!CycleStep, Bridge!LogStep, Bridge!RunningStep,
       Bridge!DrainStep, Bridge!CountStep, Bridge!DoneStep, Bridge!OutcomeStep,
       Bridge!FailureStep, Bridge!TraceStep, Bridge!TitleStep
    DEF Bridge!BridgeAssumption, Bridge!BridgeInv, Bridge!OutcomeAgrees
  <1>3. [Next]_vars => [Bridge!Next]_(Bridge!vars)
    <2>1. Chat!Next => Bridge!Next
      BY SameSteps, Zenon DEF Chat!Next, Bridge!Next, Chat!Handler, Bridge!Handler
    <2>2. UNCHANGED chatVars => UNCHANGED Bridge!vars
      BY DEF chatVars, Bridge!vars, Bridge!wire, Bridge!db
    <2> QED
      BY <2>1, <2>2
      DEF Next, vars, Still, ChatStep, TenantStep, LaunchStep, SolveStep, SiteStep, FlaskStep, RemoteStep
  <1> QED
    BY <1>1, <1>2, <1>3, PTL

-----------------------------------------------------------------------------
(* Types                                                                   *)

LEMMA SiteTypes == Site!SiteInv => Site!TypeOK
  <1> SUFFICES ASSUME Site!SiteInv PROVE Site!TypeOK
    OBVIOUS
  <1>1. IsNet(agents) /\ NetMeaning
    BY SiteSets, NetIs DEF Site!SiteInv, Site!QueueInv, IsNet
  <1>2. Site!linked \subseteq DOMAIN agents
    <2>1. ASSUME NEW a \in DOMAIN agents PROVE Kids(agents, a) \subseteq DOMAIN agents
      <3>1. agents[a].down \in Seq(DOMAIN agents)
        BY <1>1 DEF IsNet
      <3> QED
        BY <3>1 DEF Kids
    <2> QED
      BY <1>1, <2>1 DEF NetMeaning, Below
  <1>3. Site!Cardinality({a \in DOMAIN agents : agents[a].top}) <= 1
    <2> DEFINE tops == {a \in DOMAIN agents : agents[a].top}
    <2>1. \A x, y \in tops : x = y
      BY <1>1 DEF IsNet
    <2> HIDE DEF tops
    <2>2. Cardinality(tops) \in 0..1
      BY <2>1, AtMostOne
    <2>3. Site!Cardinality(tops) <= 1
      BY <2>2, SiteSets
    <2> QED
      BY <2>3 DEF tops
  <1>4. \A i \in DOMAIN toVisit : toVisit[i].url \in Urls
    <2> DEFINE waiting == [url : Urls, parent : DOMAIN agents \cup {Site!NoParent}]
    <2>1. toVisit \in Seq(waiting)
      BY DEF Site!SiteInv, Site!QueueInv
    <2>2. ASSUME NEW x \in waiting PROVE x.url \in Urls
      OBVIOUS
    <2> HIDE DEF waiting
    <2>3. \A i \in DOMAIN toVisit : toVisit[i] \in waiting
      BY ONLY <2>1
    <2> QED
      BY ONLY <2>2, <2>3
  <1> QED
    BY <1>2, <1>3, <1>4 DEF Site!TypeOK, Site!SiteInv, Site!QueueInv

\* Everything keeps its type, in each component: a transaction its rows, a service its
\* state, a crawl its links, a chat its session.
THEOREM TypesAreKept == Spec => []TypeOK
  <1>1. Tenant!TenantInv => Tenant!TypeOK
    BY DEF Tenant!TenantInv
  <1>2. Launch!LaunchInv => Launch!TypeOK
    BY DEF Launch!LaunchInv
  <1>3. Solve!TreeInv /\ Solve!BallotInv => Solve!TypeOK
    BY BallotTypes DEF Solve!TreeInv, Solve!TypeOK
  <1>4. Flask!FlaskInv => Flask!TypeOK
    BY DEF Flask!FlaskInv
  <1>5. Remote!RemoteInv => Remote!TypeOK
    BY DEF Remote!RemoteInv
  <1>6. Bridge!BridgeInv => Chat!TypeOK
    <2>1. Bridge!TypeOK => Chat!TypeOK
      BY DEF Bridge!TypeOK, Chat!TypeOK, Bridge!HandlerStates, Chat!HandlerStates,
             Bridge!Outcomes, Chat!Outcomes, Bridge!Msgs, Chat!Msgs
    <2> QED
      BY <2>1 DEF Bridge!BridgeInv
  <1>7. /\ Tenant!TenantInv /\ Launch!LaunchInv /\ Solve!TreeInv /\ Solve!BallotInv
        /\ Site!SiteInv /\ Flask!FlaskInv /\ Remote!RemoteInv /\ Bridge!BridgeInv
        => TypeOK
    BY <1>1, <1>2, <1>3, <1>4, <1>5, <1>6, SiteTypes DEF TypeOK
  <1> QED
    BY <1>7, TenantInvariant, LaunchInvariant, SolveInvariant, SiteInvariant, FlaskInvariant,
       RemoteInvariant, ChatInvariant, PTL DEF Spec
=============================================================================
