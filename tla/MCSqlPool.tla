----------------------------- MODULE MCSqlPool -----------------------------
\* SqlPool for TLC: a limit that is raised and lowered between one and two
\* connections, and clients enough to hold, to wait, and to change it.
EXTENDS SqlPool, TLC
Symmetry == Permutations(G) \cup Permutations(Conns)
=============================================================================
