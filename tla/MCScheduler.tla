---------------------------- MODULE MCScheduler ----------------------------
\* Scheduler for TLC.
EXTENDS Scheduler, TLC
Symmetry == Permutations(M) \cup Permutations(P) \cup Permutations(G)
=============================================================================
