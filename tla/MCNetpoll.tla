------------------------------ MODULE MCNetpoll ------------------------------
\* Netpoll for TLC: a goroutine that reads; a deadline for both modes, which then
\* share a timer; one for reading that is called off; and one for writing that is
\* so far away that it overflows, which leaves a timer for reading alone.
EXTENDS Netpoll

SomeDeadlines == {[f |-> Mode, t |-> 2], [f |-> {"r"}, t |-> 0], [f |-> {"w"}, t |-> 3]}
=============================================================================
