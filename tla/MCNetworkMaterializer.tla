------------------------ MODULE MCNetworkMaterializer ------------------------
(* Small instances of NetworkMaterializer: two networks whose names do not  *)
(* contain each other, and two of which one begins with the other.          *)
EXTENDS NetworkMaterializer, TLC

CONSTANTS travel, travel_bot

Distinct == [n \in Networks |-> {n}]

\* "generated/u_travel" occurs in the line of "generated/u_travel_bot", "u_travel.hocon"
\* does not.
Prefix == [n \in Networks |-> IF n = travel THEN {travel, travel_bot} ELSE {n}]

Symmetry == Permutations(Contents) \cup Permutations(Requests)
=============================================================================
