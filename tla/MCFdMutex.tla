----------------------------- MODULE MCFdMutex -----------------------------
\* FdMutex for TLC.
EXTENDS FdMutex, TLC
Symmetry == Permutations(G)
=============================================================================
