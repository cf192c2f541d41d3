------------------------------- MODULE MCSema -------------------------------
\* Sema for TLC: two addresses that collide in one root, and enough goroutines
\* for a waiter, a releaser and a third that takes the token before the waiter.
EXTENDS Sema, TLC
Symmetry == Permutations(G) \cup Permutations(Addr)
=============================================================================
