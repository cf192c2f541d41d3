----------------------------- MODULE MCCollector -----------------------------
\* Collector for TLC: each object has a span of its own, and the first goroutine alone
\* calls, so that its stack may have a barrier.
EXTENDS Collector, TLC
OwnSpan == [o \in Objs |-> o]
TwoFrames == [g \in 1 .. NG |-> IF g = 1 THEN 2 ELSE 1]
Symmetry == Permutations(Ps) \cup Permutations(Objs)
==============================================================================
