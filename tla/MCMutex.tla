------------------------------- MODULE MCMutex -------------------------------
\* Mutex for TLC: a holder, a sleeper, a spinner and a newcomer can all meet.
EXTENDS Mutex, TLC
Symmetry == Permutations(G)
=============================================================================
