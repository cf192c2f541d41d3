----------------------------- MODULE MCRunQueue -----------------------------
\* RunQueue for TLC.
EXTENDS RunQueue, TLC
Symmetry == Permutations(G)
=============================================================================
