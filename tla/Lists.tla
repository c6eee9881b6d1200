-------------------------------- MODULE Lists --------------------------------
(***************************************************************************)
(* A list without some of its elements: SelectSeq by places, not by         *)
(* recursion, so that what is left can be proved about.                     *)
(***************************************************************************)
EXTENDS Naturals, FiniteSets

\* The rows that are not among these, in their order: the k-th of them is the one that
\* has k of them up to its place.
Without(rows, these) ==
    LET kept == {i \in DOMAIN rows : rows[i] \notin these} IN
    [k \in 1 .. Cardinality(kept) |->
        rows[CHOOSE i \in kept : Cardinality({j \in kept : j <= i}) = k]]
=============================================================================
