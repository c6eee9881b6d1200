-------------------------------- MODULE Quota --------------------------------
(***************************************************************************)
(* What the daily rate limit promises a user: on each day at most Limit    *)
(* units are spent, every message let through holds a unit of its own, and *)
(* the units are told apart by the remaining count the user is shown.      *)
(* Units may be lost (spent for a message that is never processed); they   *)
(* are never given back nor used twice.                                    *)
(***************************************************************************)
EXTENDS Naturals

CONSTANTS Days, Limit

VARIABLES spent,   \* units spent on each day
          served   \* messages let through, by day and remaining count

qvars == <<spent, served>>

QInit == /\ spent = [d \in Days |-> 0]
         /\ served = [d \in Days |-> [r \in 0 .. (Limit - 1) |-> 0]]

Spend(d) == /\ spent[d] < Limit
            /\ spent' = [spent EXCEPT ![d] = @ + 1]
            /\ UNCHANGED served

\* The unit whose spending left r others.
Serve(d, r) == /\ spent[d] + r >= Limit
               /\ served[d][r] = 0
               /\ served' = [served EXCEPT ![d][r] = 1]
               /\ UNCHANGED spent

QNext == \E d \in Days : Spend(d) \/ \E r \in 0 .. (Limit - 1) : Serve(d, r)

QSpec == QInit /\ [][QNext]_qvars
=============================================================================
