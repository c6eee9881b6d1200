----------------------------- MODULE TenantStore -----------------------------
(***************************************************************************)
(* Users, organizations and memberships in the database: what               *)
(* resolve_tenant_context (tenant_context.py) and the repositories under    *)
(* it write, in the transactions of the endpoints that call them.           *)
(*                                                                          *)
(* A request runs one transaction, one statement per step.  A statement     *)
(* sees what is committed and what its own transaction wrote (READ          *)
(* COMMITTED); a row that is written stays locked until the transaction     *)
(* ends.  Requests that upsert the user first (/api/me, the network routes, *)
(* a chat message) lock the user before the organization; the others come   *)
(* to the user last.  PostgreSQL ends a deadlock by aborting a member.      *)
(***************************************************************************)
CONSTANTS Users,      \* Clerk user ids; a user also names its personal organization
          ClerkOrgs,  \* organizations that tokens name
          Requests,   \* requests in flight
          NoOrg       \* no organization

VARIABLES
    users,      \* committed rows of users
    orgs,       \* ... of organizations
    members,    \* ... of org_memberships: pairs of an organization and a user
    default,    \* default_org_id of each user
    records,    \* owner and organization of each committed conversation and report
    txn,        \* the transaction of each request
    locks       \* rows it has written

rows       == <<users, orgs, members, default, records>>
tenantVars == <<rows, txn, locks>>

Orgs == ClerkOrgs \cup Users
Row  == ({"user"} \X Users) \cup ({"org"} \X Orgs) \cup ({"member"} \X Orgs \X Users)

\* What a request is there for: /api/me and the network routes, a chat message,
\* /api/systems, and the creation of a session or a report, which inserts a row.
Kinds   == {"login", "message", "list", "record"}
Upserts == {"login", "message"}

\* org: the organization the user's token names, or else the personal one.
\* saw: default_org_id as get_by_id returned it.
Idle == [at |-> "idle"]
Transaction ==
    [at : {"user", "org", "member", "read", "default", "record", "commit"},
     kind : Kinds, user : Users, org : Orgs, saw : Orgs \cup {NoOrg}]

TypeOK ==
    /\ users \subseteq Users /\ orgs \subseteq Orgs /\ members \subseteq Orgs \X Users
    /\ default \in [Users -> Orgs \cup {NoOrg}]
    /\ records \subseteq Orgs \X Users
    /\ txn \in [Requests -> {Idle} \cup Transaction]
    /\ locks \in [Requests -> SUBSET Row]

Init ==
    /\ users = {} /\ orgs = {} /\ members = {} /\ records = {}
    /\ default = [u \in Users |-> NoOrg]
    /\ txn = [r \in Requests |-> Idle]
    /\ locks = [r \in Requests |-> {}]

-----------------------------------------------------------------------------
Personal(r) == txn[r].org = txn[r].user
Known(r)    == txn[r].user \in users \/ <<"user", txn[r].user>> \in locks[r]

\* The row the next statement of r writes; none if it only reads.
Wants(r) ==
    IF txn[r].at \in {"user", "default"} THEN {<<"user", txn[r].user>>}
    ELSE IF txn[r].at = "org" /\ ~(Personal(r) /\ txn[r].org \in orgs)
         THEN {<<"org", txn[r].org>>}
    ELSE IF txn[r].at = "member" /\ Known(r) THEN {<<"member", txn[r].org, txn[r].user>>}
    ELSE {}

WaitsFor(r, q)   == q # r /\ Wants(r) \cap locks[q] # {}
Blocked(r)       == \E q \in Requests : WaitsFor(r, q)
Deadlocked(r)    ==
    \E S \in SUBSET Requests :
        r \in S /\ \A q \in S : /\ \E p \in S : WaitsFor(q, p)
                                /\ \E p \in S : WaitsFor(p, q)

goto(r, at) == txn' = [txn EXCEPT ![r].at = at]
Write(r)    == ~Blocked(r) /\ locks' = [locks EXCEPT ![r] = @ \cup Wants(r)]
End(r)      == txn' = [txn EXCEPT ![r] = Idle] /\ locks' = [locks EXCEPT ![r] = {}]

Begin(r, k, u, o) ==
    /\ txn[r] = Idle
    /\ txn' = [txn EXCEPT ![r] = [at |-> IF k \in Upserts THEN "user" ELSE "org",
                                  kind |-> k, user |-> u, org |-> o, saw |-> NoOrg]]
    /\ UNCHANGED <<rows, locks>>

UpsertUser(r) ==
    /\ txn[r].at = "user"
    /\ Write(r)
    /\ goto(r, IF txn[r].kind = "message" THEN "commit" ELSE "org")
    /\ UNCHANGED rows

\* The organization of the token is upserted every time, a personal one only
\* when it is not found.
UpsertOrg(r) ==
    /\ txn[r].at = "org"
    /\ Write(r)
    /\ goto(r, "member")
    /\ UNCHANGED rows

\* The membership refers to the user: without the user's row the statement fails.
UpsertMembership(r) ==
    /\ txn[r].at = "member" /\ Known(r)
    /\ Write(r)
    /\ goto(r, "read")
    /\ UNCHANGED rows

\* Mutant of GetUser: the default organization is set at every login.
GetUserRewrites(r) ==
    /\ txn[r].at = "read"
    /\ txn' = [txn EXCEPT ![r].saw = default[txn[r].user], ![r].at = "default"]
    /\ UNCHANGED <<rows, locks>>

GetUser(r) ==
    /\ txn[r].at = "read"
    /\ txn' = [txn EXCEPT ![r].saw = default[txn[r].user],
                          ![r].at = IF default[txn[r].user] = NoOrg THEN "default" ELSE "record"]
    /\ UNCHANGED <<rows, locks>>

\* UPDATE users SET default_org_id: waits for the row, then overwrites it.
SetDefault(r) ==
    /\ txn[r].at = "default"
    /\ Write(r)
    /\ goto(r, "record")
    /\ UNCHANGED rows

InsertRecord(r) ==
    /\ txn[r].at = "record"
    /\ goto(r, "commit")
    /\ UNCHANGED <<rows, locks>>

\* What the transaction wrote becomes visible.  Only a transaction that found no
\* default organization has set one.
Commit(r) ==
    /\ txn[r].at = "commit"
    /\ LET t == txn[r] IN
       /\ users' = users \cup {u \in Users : <<"user", u>> \in locks[r]}
       /\ orgs' = orgs \cup {o \in Orgs : <<"org", o>> \in locks[r]}
       /\ members' = members \cup {m \in Orgs \X Users : <<"member", m[1], m[2]>> \in locks[r]}
       /\ default' = IF t.kind # "message" /\ t.saw = NoOrg
                     THEN [default EXCEPT ![t.user] = t.org] ELSE default
       /\ records' = records \cup (IF t.kind = "record" THEN {<<t.org, t.user>>} ELSE {})
    /\ End(r)

\* Mutant of Abort: the connection goes back to the pool without a rollback.
AbortKeepsLocks(r) ==
    /\ txn[r] # Idle
    /\ txn' = [txn EXCEPT ![r] = Idle]
    /\ UNCHANGED <<rows, locks>>

\* The transaction is rolled back: a statement fails (for an unknown user the
\* membership always does), the process dies or the client's task is cancelled ...
Abort(r) ==
    /\ txn[r] # Idle
    /\ End(r)
    /\ UNCHANGED rows

\* Mutant of RejectUnknown: the failed statement is passed over.
IgnoreUnknown(r) == txn[r].at = "member" /\ ~Known(r) /\ goto(r, "read") /\ UNCHANGED <<rows, locks>>

RejectUnknown(r) == txn[r].at = "member" /\ ~Known(r) /\ Abort(r)

\* ... or PostgreSQL picks it as the victim of a deadlock.
BreakDeadlock(r) == Deadlocked(r) /\ Abort(r)

Statement(r) == \/ UpsertUser(r) \/ UpsertOrg(r) \/ UpsertMembership(r) \/ RejectUnknown(r)
                \/ GetUser(r) \/ SetDefault(r) \/ InsertRecord(r) \/ Commit(r)

Next == \E r \in Requests :
            \/ \E k \in Kinds, u \in Users :
                   \E o \in ClerkOrgs \cup {u} : Begin(r, k, u, o)
            \/ Statement(r) \/ Abort(r) \/ BreakDeadlock(r)

Spec == Init /\ [][Next]_tenantVars

\* The database runs each statement, hands a row on to the requests that wait for
\* it in turn, and looks for deadlocks once a wait gets long.
Fairness == /\ \A r \in Requests : SF_tenantVars(Statement(r))
            /\ WF_tenantVars(\E r \in Requests : BreakDeadlock(r))

FairSpec == Spec /\ Fairness

-----------------------------------------------------------------------------
\* A conversation or report belongs to a user the database knows, in an
\* organization it knows, of which the user is a member, and its user has a default
\* organization: whatever is aborted, none of the rows that
\* resolve_tenant_context writes is missing under what was recorded after it.
OwnersPlaced ==
    \A o \in Orgs, u \in Users :
        <<o, u>> \in records =>
            u \in users /\ o \in orgs /\ <<o, u>> \in members /\ default[u] # NoOrg

\* Requests deadlock only over a user that one of them saw before the user had a
\* default organization: once the first login is over, the two orders in which the
\* endpoints write the rows do no harm.
DeadlockNeedsFirstLogin ==
    \A r \in Requests :
        Deadlocked(r) =>
            \E q \in Requests : /\ txn[q].at = "default" /\ txn[q].saw = NoOrg
                                /\ txn[q].user = txn[r].user

\* Both: whatever two logins at once do to each other, one of them may be lost but no
\* row is written under rows that are missing.
LoginSound == OwnersPlaced /\ DeadlockNeedsFirstLogin

\* A request comes to an end, whomever it waits for.
RequestEnds == \A r \in Requests : txn[r] # Idle ~> txn[r] = Idle

-----------------------------------------------------------------------------
(* What LoginSound rests on: an invariant that every step keeps.            *)

\* A transaction holds nothing but what its statements up to now have written.
Held(r) ==
    LET user   == <<"user", txn[r].user>>
        org    == <<"org", txn[r].org>>
        member == <<"member", txn[r].org, txn[r].user>> IN
    /\ txn[r].at \in {"idle", "user"} => locks[r] = {}
    /\ txn[r].at = "org"    => locks[r] \subseteq {user}
    /\ txn[r].at = "member" => locks[r] \subseteq {user, org}
    /\ txn[r].at \in {"read", "default", "record", "commit"} => locks[r] \subseteq {user, org, member}

\* Past the statement that writes a row, the row is there or will be with the commit.
\* A user who had a default organization keeps one.
Upserted(r) == txn[r].at = "commit" /\ txn[r].kind # "message"

Placed(r) ==
    /\ txn[r].at \in {"member", "read", "default", "record"} \/ Upserted(r) =>
           txn[r].org \in orgs \/ <<"org", txn[r].org>> \in locks[r]
    /\ txn[r].at \in {"read", "default", "record"} \/ Upserted(r) =>
           Known(r) /\ <<"member", txn[r].org, txn[r].user>> \in locks[r]
    /\ txn[r].at = "default" => txn[r].saw = NoOrg
    /\ txn[r].at # "idle" /\ txn[r].saw # NoOrg => default[txn[r].user] # NoOrg

TenantInv == TypeOK /\ OwnersPlaced /\ \A r \in Requests : Held(r) /\ Placed(r)
=============================================================================
