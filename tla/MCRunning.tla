------------------------------- MODULE MCRunning -------------------------------
(* A small instance of Running.  What a component begins with does not matter while *)
(* another one is at work: it begins in one way only.                               *)
EXTENDS Running

MCInit == /\ Init
          /\ part # "launch" =>
                 /\ args = [mode |-> "both", use_flask |-> FALSE, phoenix |-> FALSE]
                 /\ taken = {}
          /\ part # "site" => maxChildren = 2
          /\ part # "flask" => app = "cruse"

MCSpec == MCInit /\ [][Next]_vars /\ Fairness

\* The conversation has no title.
Untitled == <<"none", 0>>
=============================================================================
