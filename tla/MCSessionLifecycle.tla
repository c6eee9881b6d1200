------------------------- MODULE MCSessionLifecycle -------------------------
\* SessionLifecycle on small sets of sessions and connections.
EXTENDS SessionLifecycle, TLC

\* Session ids and connections are interchangeable.
Symmetry == Permutations(Sessions) \cup Permutations(Sockets)
=============================================================================
