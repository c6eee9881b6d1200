------------------------------ MODULE DailyUsage ------------------------------
(***************************************************************************)
(* The daily message quota of one user: RateLimiter (rate_limiter.py),     *)
(* UsageRepository (usage_repo.py) and the transaction of websocket_chat   *)
(* (main.py) that charges a message before it is processed.                *)
(*                                                                         *)
(* The connections of the user, in whichever processes they run, meet in   *)
(* the database.  A transaction holds the lock of the user's row from the  *)
(* upsert of the user to its end; what it wrote is seen by the others when *)
(* it commits.  The rows of other users and days are untouched.            *)
(***************************************************************************)
EXTENDS Naturals

CONSTANTS Conns,    \* the user's connections
          NoConn,   \* the user's row is not locked
          Admins,   \* connections whose token carries the admin role
          Limit,    \* MAX_DAILY_REQUESTS, with rate limiting enabled
          MaxDay    \* bound: the last day of the model

ASSUME UsageAssumption == /\ Admins \subseteq Conns
                          /\ NoConn \notin Conns
                          /\ Limit \in Nat \ {0}
                          /\ MaxDay \in Nat

VARIABLES
    today,    \* the UTC date
    count,    \* committed request_count of each day's row, 0 without a row
    hasKey,   \* the user has a valid API key stored
    holder,   \* connection whose transaction locks the user's row
    pc,       \* where the connection is with its message
    date,     \* usage_date of its statement
    verdict,  \* what check_and_increment returned: allowed, and why
    left,     \* ... and the remaining count it returned
    served    \* history: messages let through against the quota

usageVars == <<today, count, hasKey, holder, pc, date, verdict, left, served>>

Days  == 0 .. MaxDay
Units == 0 .. (Limit - 1)

InTransaction(c) == pc[c] \in {"keys", "charge", "commit"}

TypeOK ==
    /\ today \in Days
    /\ count \in [Days -> 0 .. Limit]
    /\ hasKey \in BOOLEAN
    /\ holder \in Conns \cup {NoConn}
    /\ pc \in [Conns -> {"idle", "upsert", "keys", "charge", "commit", "reply"}]
    /\ date \in [Conns -> Days]
    /\ verdict \in [Conns -> {"unlimited", "granted", "refused"}]
    /\ left \in [Conns -> Units]
    /\ served \in [Days -> [Units -> Nat]]

Init ==
    /\ today = 0
    /\ count = [d \in Days |-> 0]
    /\ hasKey \in BOOLEAN
    /\ holder = NoConn
    /\ pc = [c \in Conns |-> "idle"]
    /\ date = [c \in Conns |-> 0]
    /\ verdict = [c \in Conns |-> "refused"]
    /\ left = [c \in Conns |-> 0]
    /\ served = [d \in Days |-> [r \in Units |-> 0]]

-----------------------------------------------------------------------------
\* A message arrives; its transaction begins.
Receive(c) ==
    /\ pc[c] = "idle"
    /\ pc' = [pc EXCEPT ![c] = "upsert"]
    /\ UNCHANGED <<today, count, hasKey, holder, date, verdict, left, served>>

\* upsert_from_clerk writes the user's row on every message.
UpsertUser(c) ==
    /\ pc[c] = "upsert"
    /\ holder = NoConn
    /\ holder' = c
    /\ pc' = [pc EXCEPT ![c] = "keys"]
    /\ UNCHANGED <<today, count, hasKey, date, verdict, left, served>>

\* has_any_valid_key, and the bypass for admins and users with a key.
CheckKeys(c) ==
    /\ pc[c] = "keys"
    /\ IF c \in Admins \/ hasKey
       THEN /\ verdict' = [verdict EXCEPT ![c] = "unlimited"]
            /\ pc' = [pc EXCEPT ![c] = "commit"]
       ELSE /\ pc' = [pc EXCEPT ![c] = "charge"]
            /\ UNCHANGED verdict
    /\ UNCHANGED <<today, count, hasKey, holder, date, left, served>>

\* Mutant of IncrementAndCheck: the limit is compared with the new count.
IncrementStrict(c) ==
    /\ pc[c] = "charge"
    /\ date' = [date EXCEPT ![c] = today]
    /\ IF count[today] + 1 < Limit
       THEN /\ verdict' = [verdict EXCEPT ![c] = "granted"]
            /\ left' = [left EXCEPT ![c] = Limit - (count[today] + 1)]
       ELSE /\ verdict' = [verdict EXCEPT ![c] = "refused"]
            /\ left' = [left EXCEPT ![c] = 0]
    /\ pc' = [pc EXCEPT ![c] = "commit"]
    /\ UNCHANGED <<today, count, hasKey, holder, served>>

\* increment_and_check: one INSERT ... ON CONFLICT DO UPDATE ... WHERE on the row
\* of today, which the first message of a day finds missing.
IncrementAndCheck(c) ==
    /\ pc[c] = "charge"
    /\ date' = [date EXCEPT ![c] = today]
    /\ IF count[today] < Limit
       THEN /\ verdict' = [verdict EXCEPT ![c] = "granted"]
            /\ left' = [left EXCEPT ![c] = Limit - (count[today] + 1)]
       ELSE /\ verdict' = [verdict EXCEPT ![c] = "refused"]
            /\ left' = [left EXCEPT ![c] = 0]
    /\ pc' = [pc EXCEPT ![c] = "commit"]
    /\ UNCHANGED <<today, count, hasKey, holder, served>>

\* Mutant of Commit: the session is closed without a commit.
CommitForgotten(c) ==
    /\ pc[c] = "commit"
    /\ holder' = NoConn
    /\ pc' = [pc EXCEPT ![c] = "reply"]
    /\ UNCHANGED <<today, count, hasKey, date, verdict, left, served>>

\* Mutant of Commit: the transaction stays open while the message is processed.
CommitLater(c) ==
    /\ pc[c] = "commit"
    /\ count' = IF verdict[c] = "granted" THEN [count EXCEPT ![date[c]] = @ + 1] ELSE count
    /\ pc' = [pc EXCEPT ![c] = "reply"]
    /\ UNCHANGED <<today, hasKey, holder, date, verdict, left, served>>

\* db.commit(): the increment becomes visible and the lock is released.
Commit(c) ==
    /\ pc[c] = "commit"
    /\ count' = IF verdict[c] = "granted" THEN [count EXCEPT ![date[c]] = @ + 1] ELSE count
    /\ holder' = NoConn
    /\ pc' = [pc EXCEPT ![c] = "reply"]
    /\ UNCHANGED <<today, hasKey, date, verdict, left, served>>

\* The handler's local variables are gone with the message.
Forget(c) ==
    /\ date' = [date EXCEPT ![c] = 0]
    /\ verdict' = [verdict EXCEPT ![c] = "refused"]
    /\ left' = [left EXCEPT ![c] = 0]

\* The handler acts on what it was told: it refuses the message, or tells the
\* client what remains and processes it.
Reply(c) ==
    /\ pc[c] = "reply"
    /\ served' = IF verdict[c] = "granted" THEN [served EXCEPT ![date[c]][left[c]] = @ + 1]
                                          ELSE served
    /\ pc' = [pc EXCEPT ![c] = "idle"]
    /\ Forget(c)
    /\ UNCHANGED <<today, count, hasKey, holder>>

\* Mutant of Drop: a message that was charged and not processed is refunded.
DropRefunds(c) ==
    /\ pc[c] # "idle"
    /\ pc' = [pc EXCEPT ![c] = "idle"]
    /\ holder' = IF holder = c THEN NoConn ELSE holder
    /\ count' = IF pc[c] = "reply" /\ verdict[c] = "granted"
                THEN [count EXCEPT ![date[c]] = @ - 1] ELSE count
    /\ Forget(c)
    /\ UNCHANGED <<today, hasKey, served>>

\* The handler of a message ends early: a statement or the commit raises, the
\* client has left, the process dies.  The database rolls back what it had open.
Drop(c) ==
    /\ pc[c] # "idle"
    /\ pc' = [pc EXCEPT ![c] = "idle"]
    /\ holder' = IF holder = c THEN NoConn ELSE holder
    /\ Forget(c)
    /\ UNCHANGED <<today, count, hasKey, served>>

\* The user stores the first API key, or deletes the last.
ChangeKeys ==
    /\ hasKey' = ~hasKey
    /\ UNCHANGED <<today, count, holder, pc, date, verdict, left, served>>

Midnight ==
    /\ today < MaxDay
    /\ today' = today + 1
    /\ UNCHANGED <<count, hasKey, holder, pc, date, verdict, left, served>>

Step(c) == UpsertUser(c) \/ CheckKeys(c) \/ IncrementAndCheck(c) \/ Commit(c) \/ Reply(c)

Next == \/ \E c \in Conns : Receive(c) \/ Step(c) \/ Drop(c)
        \/ ChangeKeys
        \/ Midnight

Spec == Init /\ [][Next]_usageVars

\* Handlers are scheduled, and the database serves those that wait for the row in
\* the order of their arrival.
Fairness == \A c \in Conns : WF_usageVars(Step(c)) /\ SF_usageVars(UpsertUser(c))

FairSpec == Spec /\ Fairness

-----------------------------------------------------------------------------
\* However the messages of all connections interleave, and at midnight too, no
\* day's counter exceeds the limit and no message is let through uncounted: the
\* one that is told r remain is the only one, and Limit - r are on the counter.
EveryServedPaid ==
    \A d \in Days : /\ count[d] <= Limit
                    /\ \A r \in Units : /\ served[d][r] <= 1
                                        /\ served[d][r] = 1 => count[d] + r >= Limit

\* A message is never refused while its day has units left, uncommitted ones of
\* other connections included.
RefusedAtLimit ==
    \A c \in Conns : pc[c] \in {"commit", "reply"} /\ verdict[c] = "refused"
                        => count[date[c]] = Limit

\* Liveness: a message is decided, whoever else waits for the user's row.
MessageDecided == \A c \in Conns : pc[c] = "upsert" ~> pc[c] = "idle"

-----------------------------------------------------------------------------
(* The inductive invariant: one transaction at a time, what it and those   *)
(* that have committed since were told.                                    *)

HolderInv == \A c \in Conns : InTransaction(c) <=> holder = c

\* The unit a connection was granted, and has not served yet.
Holds(c, d, r) == pc[c] = "reply" /\ verdict[c] = "granted" /\ date[c] = d /\ left[c] = r

PendingInv == \A c \in Conns : pc[c] = "commit" /\ verdict[c] = "granted" =>
                                   count[date[c]] + left[c] + 1 = Limit

GrantInv == \A d \in Days : \A r \in Units :
                /\ \A c \in Conns : Holds(c, d, r) => /\ count[d] + r >= Limit
                                                      /\ served[d][r] = 0
                /\ \A b, c \in Conns : Holds(b, d, r) /\ Holds(c, d, r) => b = c

UsageInv == TypeOK /\ HolderInv /\ PendingInv /\ GrantInv /\ EveryServedPaid /\ RefusedAtLimit

-----------------------------------------------------------------------------
Promise == INSTANCE Quota WITH spent <- count

\* Transactions, lock, midnight and crashes together behave as Quota.
ImplementsQuota == Promise!QSpec
=============================================================================
