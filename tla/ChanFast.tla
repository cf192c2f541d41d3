------------------------------ MODULE ChanFast ------------------------------
(***************************************************************************)
(* The fast path of non-blocking sends and receives (chan.go:140-157 and   *)
(* 387-403) decides by two reads without the lock that the call cannot     *)
(* proceed.  The comments there argue that there was then a moment between *)
(* the two reads when the channel was open and not ready.  A history       *)
(* variable records whether there was.  For a receive there always is; for *)
(* a send on an unbuffered channel a close may come in between.            *)
(***************************************************************************)
EXTENDS Chan

VARIABLE calm      \* g is between its reads, and there was such a moment

\* The channel of g's call is open, and not ready for the call.
OpenNotReady(g) == LET k == Case(g, 1) IN
  ~ch[k.c].closed /\ ~Ready(ch[k.c], k.c, k.dir)

HInit == Init /\ calm = [g \in G |-> FALSE]

HNext ==
  /\ Next
  /\ calm' = [g \in G |->
       /\ pc'[g] = "fast2"
       /\ \/ pc[g] = "fast" /\ OpenNotReady(g)
          \/ pc[g] = "fast2" /\ calm[g]
          \/ OpenNotReady(g)']

HSpec == HInit /\ [][HNext]_<<vars, calm>>

RecvGivesUp(g) == pc[g] = "fast2" /\ pc'[g] = "return" /\ Case(g, 1).dir = "recv"

\* "We behave as if we observed the channel at that moment and report that the
\* receive cannot proceed" (chan.go:394-395): there was such a moment.
RecvGivesUpRightly == [][\A g \in G : RecvGivesUp(g) => calm[g]]_vars

=============================================================================
