-------------------------------- MODULE MCCond --------------------------------
\* Cond for TLC: a waiter, a signaller and a second waiter that comes between.
EXTENDS Cond, TLC
Symmetry == Permutations(G)
=============================================================================
