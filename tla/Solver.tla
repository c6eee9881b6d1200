-------------------------------- MODULE Solver --------------------------------
(***************************************************************************)
(* The MDAP decomposer: a problem is split in two until an agent finds      *)
(* nothing to split or the depth is reached, and composed again from the    *)
(* parts; every choice is put to a vote (neuro_san_solver.py,               *)
(* first_to_k_voter.py).  The two parts are solved at the same time, and    *)
(* every call of an agent may raise: asyncio.gather then raises at once and *)
(* leaves the other part running.  Agents and their texts are external.     *)
(***************************************************************************)
EXTENDS Naturals, FiniteSets, SequencesExt

CONSTANTS MaxDepth,        \* max_depth
          WinningVotes,    \* winning_vote_count
          NumberOfVotes,   \* number_of_votes
          Candidates       \* bound: solution_candidate_count

\* A problem is named by its path in the tree: <<>> is the one asked.
Paths == UNION {[1..d -> {0, 1}] : d \in 0..MaxDepth}
Parts(p) == {Append(p, 0), Append(p, 1)}

VARIABLES
    node,      \* what the solve of each problem does
    ballot     \* the vote on the final answer: how many candidates, what the
               \* discriminator said of them and the choice; of other votes only
               \* what they lead to is kept

solverVars == <<node, ballot>>

TypeOK ==
    /\ node \in [Paths -> {"none", "decompose", "parts", "atomic", "compose", "done", "failed"}]
    /\ ballot.candidates \in 0..Candidates /\ ballot.chosen \in 0..Candidates

\* A path of full length is solved without decomposing it.
Begin(p) == IF Len(p) >= MaxDepth THEN "atomic" ELSE "decompose"

Init ==
    /\ node = [p \in Paths |-> IF p = <<>> THEN Begin(<<>>) ELSE "none"]
    /\ ballot = [candidates |-> 0, results |-> <<>>, chosen |-> 0]

-----------------------------------------------------------------------------
Votes(results, k) == Cardinality({i \in DOMAIN results : results[i] = k})

\* The answers are counted in the order of the calls, until one has votes enough.
\* An answer that is no candidate's number counts for none.
Stop(results, n) ==
    {i \in 1..Len(results) :
        \E k \in 1..n : Votes(SubSeq(results, 1, i), k) >= WinningVotes}

Counted(results, n) ==
    IF Stop(results, n) = {} THEN results
    ELSE SubSeq(results, 1, CHOOSE i \in Stop(results, n) : \A j \in Stop(results, n) : i <= j)

\* The candidate that reached the count, or else the first of those with most votes.
Winner(results, n) ==
    LET c == Counted(results, n) IN
    CHOOSE k \in 1..n : \A j \in 1..n :
        Votes(c, k) > Votes(c, j) \/ (Votes(c, k) = Votes(c, j) /\ k <= j)

\* FirstToKVoter.vote among n candidates.
Vote(n) ==
    \E results \in [1..NumberOfVotes -> 0..n] :
        ballot' = [candidates |-> n, results |-> results, chosen |-> Winner(results, n)]

-----------------------------------------------------------------------------
Goto(p, s) == node' = [node EXCEPT ![p] = s]

\* No candidate decomposition, or one without both parts and their combination,
\* leaves the problem as it is; otherwise its parts are solved.
Decompose(p) ==
    /\ node[p] = "decompose"
    /\ \/ Goto(p, "atomic")
       \/ node' = [q \in Paths |-> CASE q = p -> "parts"
                                     [] q \in Parts(p) -> Begin(q)
                                     [] OTHER -> node[q]]
    /\ UNCHANGED ballot

\* Mutant of PartsDone: one part is enough.
PartDone(p) ==
    /\ node[p] = "parts" /\ \E q \in Parts(p) : node[q] = "done"
    /\ Goto(p, "compose")
    /\ UNCHANGED ballot

PartsDone(p) ==
    /\ node[p] = "parts" /\ \A q \in Parts(p) : node[q] = "done"
    /\ Goto(p, "compose")
    /\ UNCHANGED ballot

\* _solve_generic: candidate solutions of the problem or of its composition, a vote,
\* and the answer the chosen one ends with.
Choose(p) ==
    /\ node[p] \in {"atomic", "compose"}
    /\ IF p = <<>> THEN \E n \in 1..Candidates : Vote(n) ELSE UNCHANGED ballot
    /\ Goto(p, "done")

AgentFails(p) ==
    /\ node[p] \in {"decompose", "atomic", "compose"}
    /\ Goto(p, "failed")
    /\ UNCHANGED ballot

PartFails(p) ==
    /\ node[p] = "parts" /\ \E q \in Parts(p) : node[q] = "failed"
    /\ Goto(p, "failed")
    /\ UNCHANGED ballot

Solve(p) == Decompose(p) \/ PartsDone(p) \/ Choose(p) \/ AgentFails(p) \/ PartFails(p)

Next == \E p \in Paths : Solve(p)

Spec == Init /\ [][Next]_solverVars

\* Every call of an agent returns or raises: some call does as long as one is under way.
Fairness == WF_solverVars(Next)

FairSpec == Spec /\ Fairness

-----------------------------------------------------------------------------
\* A problem is answered from the answers of both its parts or of none, and no work
\* is left anywhere below a problem that was answered; what is left running below
\* a failed one does not touch what is above.
AnsweredFromParts ==
    \A p \in Paths :
        node[p] \in {"done", "compose"} =>
            /\ \A q \in Paths : IsStrictPrefix(p, q) => node[q] \in {"none", "done"}
            /\ Len(p) < MaxDepth => Cardinality({q \in Parts(p) : node[q] = "done"}) \in
                                       (IF node[p] = "compose" THEN {2} ELSE {0, 2})

\* The same as the tree is built: below what is not split yet nothing was begun, and
\* below what is answered or composed nothing is left.
TreeInv ==
    /\ node \in [Paths -> {"none", "decompose", "parts", "atomic", "compose", "done", "failed"}]
    /\ \A p, q \in Paths : IsStrictPrefix(p, q) =>
           /\ node[p] \in {"none", "decompose", "atomic"} => node[q] = "none"
           /\ node[p] \in {"compose", "done"} => node[q] \in {"none", "done"}
    /\ \A p \in Paths :
           /\ node[p] \in {"decompose", "parts", "compose"} => Len(p) < MaxDepth
           /\ node[p] = "compose" => \A q \in Parts(p) : node[q] = "done"
           /\ node[p] = "done" /\ Len(p) < MaxDepth =>
                  \A q, r \in Parts(p) : node[q] = node[r]

\* The last vote on the final answer, if there was one.
BallotInv ==
    \/ ballot = [candidates |-> 0, results |-> <<>>, chosen |-> 0]
    \/ \E n \in 1..Candidates : \E results \in [1..NumberOfVotes -> 0..n] :
           ballot = [candidates |-> n, results |-> results, chosen |-> Winner(results, n)]

\* Stopping the count as soon as one candidate has votes enough chooses as counting
\* them all would, and at most one candidate can get there: the default numbers
\* of votes are odd and just below twice the winning count.
EarlyStopSound ==
    ballot.candidates > 0 =>
        \A k \in 1..ballot.candidates :
            Votes(ballot.results, k) >= WinningVotes => k = ballot.chosen

\* Both: what is composed and what is chosen do not depend on who finishes first.
AnswersSound == AnsweredFromParts /\ EarlyStopSound

\* The problem is answered or fails, and whatever was left running comes to rest too.
Settled == \A p \in Paths : node[p] \in {"none", "done", "failed"}
=============================================================================
