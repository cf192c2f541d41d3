------------------------------ MODULE ChanSpec ------------------------------
(***************************************************************************)
(* What channels promise: a bounded FIFO queue per channel, filled and     *)
(* emptied by send and receive, values passed from hand to hand when a     *)
(* sender meets a receiver, and select as the choice of one of several     *)
(* operations.  Chan implements this module.                               *)
(***************************************************************************)
EXTENDS Naturals, Sequences

CONSTANTS
  G,         \* goroutines
  Chan,      \* channels
  Sizes,     \* the capacities they may be made with: functions
  Ops,       \* the calls goroutines make: [cases, sel, block]
  MaxCalls,  \* bound: calls per goroutine
  NoOp,      \* no call
  NoVal      \* no value: of a send, of a closed channel

VARIABLES
  cap,       \* each channel's capacity
  q,         \* the values in each channel
  closed,    \* whether it is closed
  op,        \* each goroutine's call
  calls,     \* how many it has made; its value to send is <<g, calls[g]>>
  ret        \* the call's outcome once it is settled: <<case, what, value>>

vars == <<cap, q, closed, op, calls, ret>>

Pending == <<0, "pending", NoVal>>

Init == /\ cap \in Sizes
        /\ q = [c \in Chan |-> <<>>]
        /\ closed = [c \in Chan |-> FALSE]
        /\ op = [g \in G |-> NoOp]
        /\ calls = [g \in G |-> 0]
        /\ ret = [g \in G |-> Pending]

Val(g) == <<g, calls[g]>>

Invoke(g, o) == /\ op[g] = NoOp
                /\ op' = [op EXCEPT ![g] = o]
                /\ calls' = [calls EXCEPT ![g] = @ + 1]
                /\ UNCHANGED <<q, closed, ret>>

Return(g) == /\ ret[g] # Pending
             /\ op' = [op EXCEPT ![g] = NoOp]
             /\ ret' = [ret EXCEPT ![g] = Pending]
             /\ UNCHANGED <<q, closed, calls>>

\* The cases g is waiting to perform in direction dir, as <<case, channel>>.
Wants(g, dir) ==
  IF op[g] = NoOp \/ ret[g] # Pending THEN {}
  ELSE {<<i, op[g].cases[i].c>> :
          i \in {j \in DOMAIN op[g].cases : op[g].cases[j].dir = dir}}

Settle(g, i, what, v) == ret' = [ret EXCEPT ![g] = <<i, what, v>>]

Send(g) == \E w \in Wants(g, "send") : LET c == w[2] IN
  /\ ~closed[c] /\ Len(q[c]) < cap[c]
  /\ q' = [q EXCEPT ![c] = Append(@, Val(g))]
  /\ Settle(g, w[1], "ok", NoVal)
  /\ UNCHANGED <<closed, op, calls>>

Recv(g) == \E w \in Wants(g, "recv") : LET c == w[2] IN
  /\ q[c] # <<>>
  /\ q' = [q EXCEPT ![c] = Tail(@)]
  /\ Settle(g, w[1], "ok", Head(q[c]))
  /\ UNCHANGED <<closed, op, calls>>

\* A sender g and a receiver h meet at an empty channel, or at a full one.
Meet(g, h) == \E w \in Wants(g, "send"), x \in Wants(h, "recv") : LET c == w[2] IN
  /\ g # h /\ c = x[2] /\ ~closed[c]
  /\ q' = [q EXCEPT ![c] = Tail(Append(@, Val(g)))]
  /\ q[c] = <<>> \/ Len(q[c]) = cap[c]
  /\ ret' = [ret EXCEPT ![g] = <<w[1], "ok", NoVal>>,
                        ![h] = <<x[1], "ok", Head(Append(q[c], Val(g)))>>]
  /\ UNCHANGED <<closed, op, calls>>

RecvClosed(g) == \E w \in Wants(g, "recv") :
  /\ closed[w[2]] /\ q[w[2]] = <<>>
  /\ Settle(g, w[1], "closed", NoVal)
  /\ UNCHANGED <<q, closed, op, calls>>

\* "send on closed channel", "close of closed channel".
Panic(g) == \E w \in Wants(g, "send") \cup Wants(g, "close") :
  /\ closed[w[2]]
  /\ Settle(g, w[1], "panic", NoVal)
  /\ UNCHANGED <<q, closed, op, calls>>

Close(g) == \E w \in Wants(g, "close") :
  /\ ~closed[w[2]]
  /\ closed' = [closed EXCEPT ![w[2]] = TRUE]
  /\ Settle(g, w[1], "ok", NoVal)
  /\ UNCHANGED <<q, op, calls>>

\* A non-blocking call gives up.  A select with a default may do so only while
\* no buffer has a value or room for it and no channel is closed; what a single
\* operation may do is ChanFast's subject.
GiveUp(g) ==
  /\ op[g] # NoOp /\ ret[g] = Pending /\ ~op[g].block
  /\ op[g].sel =>
       /\ \A w \in Wants(g, "send") : ~closed[w[2]] /\ Len(q[w[2]]) = cap[w[2]]
       /\ \A w \in Wants(g, "recv") : ~closed[w[2]] /\ q[w[2]] = <<>>
  /\ Settle(g, 0, "default", NoVal)
  /\ UNCHANGED <<q, closed, op, calls>>

Step(g) ==
  \/ Send(g) \/ Recv(g) \/ RecvClosed(g) \/ Panic(g) \/ Close(g)
  \/ GiveUp(g) \/ Return(g)
  \/ \E o \in Ops : Invoke(g, o)
  \/ \E h \in G : Meet(g, h)

Next == (\E g \in G : Step(g)) /\ UNCHANGED cap

Spec == Init /\ [][Next]_vars

=============================================================================
