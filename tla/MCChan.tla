------------------------------- MODULE MCChan -------------------------------
\* ChanFast, and Chan with it, for TLC: sends, receives and closes of a channel
\* 1 that may be buffered or not, and selects over it and an unbuffered channel 2.
EXTENDS ChanFast, TLC

One(c, dir, block) == [cases |-> <<[c |-> c, dir |-> dir]>>, sel |-> FALSE, block |-> block]
Two(c, d, e, f, block) ==
  [cases |-> <<[c |-> c, dir |-> d], [c |-> e, dir |-> f]>>, sel |-> TRUE, block |-> block]

Single == {One(1, d, b) : d \in {"send", "recv"}, b \in BOOLEAN} \cup {One(1, "close", TRUE)}
AllOps == (Single \ {One(1, "send", FALSE)})
            \cup {Two(1, "recv", 2, "send", TRUE), Two(2, "recv", 1, "send", FALSE), One(2, "recv", FALSE)}

AllSizes == {<<0, 0>>, <<1, 0>>}
Symmetry == Permutations(G)
=============================================================================
