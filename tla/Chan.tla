-------------------------------- MODULE Chan --------------------------------
(***************************************************************************)
(* runtime/chan.go and runtime/select.go: channels and select.             *)
(*                                                                         *)
(* A channel is a ring buffer, a closed flag and two queues of goroutines  *)
(* waiting to send and to receive, under a lock.  An operation on one      *)
(* channel runs its locked section as one step, but for a close, which     *)
(* wakes one sleeper after the other; a select takes the locks             *)
(* of its channels one after the other, in address order, and waits on all *)
(* of them with one sudog each.  Who finds a waiting goroutine claims it   *)
(* (selectdone), gives back the locks, and only then copies the value and  *)
(* makes it runnable; the goroutine that wakes from a select must take its *)
(* locks again to remove its other sudogs, which others may meet meanwhile.*)
(***************************************************************************)
EXTENDS Naturals, FiniteSetsExt, SequencesExt

CONSTANTS
  G,         \* goroutines
  NChan,     \* channels are 1..NChan, in the order of their addresses
  Sizes,     \* what makechan is asked for: tuples of a size per channel
  Ops,       \* the calls goroutines make: [cases, sel, block]; a case is [c, dir]
  MaxCalls,  \* bound: calls per goroutine
  NoOp,      \* no call
  NoVal,     \* no value
  NoG        \* no goroutine

Chan == 1..NChan

ASSUME ChanAssumption == NChan \in Nat /\ Sizes \subseteq [Chan -> Nat] /\ MaxCalls \in Nat
ASSUME NoneAssumption == NoG \notin G /\ NoOp \notin Ops

Cases == [c : Chan, dir : {"send", "recv", "close"}]

\* A select sends and receives; any other call has one case, and close is not a
\* call that gives up.
ASSUME CallsAssumption == \A o \in Ops :
  /\ o \in [cases : Seq(Cases), sel : BOOLEAN, block : BOOLEAN]
  /\ o.cases # <<>> /\ (~o.sel => Len(o.cases) = 1)
  /\ \A i \in DOMAIN o.cases : o.cases[i].dir = "close" => ~o.sel /\ o.block

VARIABLES
  ch,        \* each channel's hchan: dataqsiz, qcount, sendx, recvx, buf, closed,
             \* recvq and sendq
  lock,      \* who holds c.lock across steps (a select, a close), or NoG
  pc,        \* where each goroutine is
  op, calls, \* its call, and how many it has made
  done,      \* selectdone of its select
  param,     \* gp.param: the sudog that fired, or <<>> after a close
  hand,      \* the sudog it has claimed and must still wake, or <<>>
  elem,      \* where it receives: the value copied there
  ret        \* <<case, what>> once its call is settled

vars == <<ch, lock, pc, op, calls, done, param, hand, elem, ret>>

\* A sudog is <<goroutine, case>>.  "idle"; "fast" and "fast2": the two reads of
\* a non-blocking call; "chan": about to lock its channel; "closing": a close that
\* wakes sleepers; "sellock", "poll": taking a select's locks, and having them;
\* "parked"; "handoff": to wake somebody; "woken"; "relock", "pass3": a select
\* after its park; "return".
PC == {"idle", "fast", "fast2", "chan", "closing", "sellock", "poll", "parked", "handoff",
       "woken", "relock", "pass3", "return"}

Sudog == G \X (Nat \ {0})
Value == (G \X (1..MaxCalls)) \cup {NoVal}

Cap(c) == ch[c].dataqsiz

Hchans(size) ==
  [dataqsiz : {size}, qcount : 0..size, sendx : {0} \cup 0..size - 1, recvx : {0} \cup 0..size - 1,
   buf : [0..size - 1 -> Value], closed : BOOLEAN, recvq : Seq(Sudog), sendq : Seq(Sudog)]

TypeOK ==
  /\ DOMAIN ch = Chan /\ \E size \in Sizes : \A c \in Chan : ch[c] \in Hchans(size[c])
  /\ lock \in [Chan -> G \cup {NoG}]
  /\ pc \in [G -> PC]
  /\ op \in [G -> Ops \cup {NoOp}] /\ calls \in [G -> 0..MaxCalls]
  /\ done \in [G -> BOOLEAN]
  /\ param \in [G -> Sudog \cup {<<>>}] /\ hand \in [G -> Sudog \cup {<<>>}]
  /\ elem \in [G -> Value]
  /\ ret \in [G -> Nat \X {"pending", "ok", "closed", "panic", "default"}]

\* makechan.
Hchan(size) == [dataqsiz |-> size, qcount |-> 0, sendx |-> 0, recvx |-> 0,
                buf |-> [i \in 0..size - 1 |-> NoVal],
                closed |-> FALSE, recvq |-> <<>>, sendq |-> <<>>]

Pending == <<0, "pending">>

Init ==
  /\ \E size \in Sizes : ch = [c \in Chan |-> Hchan(size[c])]
  /\ lock = [c \in Chan |-> NoG]
  /\ pc = [g \in G |-> "idle"]
  /\ op = [g \in G |-> NoOp] /\ calls = [g \in G |-> 0]
  /\ done = [g \in G |-> FALSE]
  /\ param = [g \in G |-> <<>>] /\ hand = [g \in G |-> <<>>]
  /\ elem = [g \in G |-> NoVal]
  /\ ret = [g \in G |-> Pending]

-----------------------------------------------------------------------------
Goto(g, l) == pc' = [pc EXCEPT ![g] = l]
Val(g) == <<g, calls[g]>>
Case(g, i) == op[g].cases[i]

Step(c, x) == (x + 1) % Cap(c)

\* A waitq's dequeue drops the sudogs of selects that somebody has claimed and
\* stops at the first it can claim: its position in queue w, 0 for none.
\* Mutant: without the compare-and-swap on selectdone.
ClaimAny(w) == IF w = <<>> THEN 0 ELSE 1
Claim(w) == Max({0} \cup {i \in DOMAIN w :
                   /\ ~done[w[i][1]]
                   /\ \A j \in 1..i - 1 : done[w[j][1]]})

\* What dequeue leaves of the queue.
Dequeued(w) == IF Claim(w) = 0 THEN <<>> ELSE SubSeq(w, Claim(w) + 1, Len(w))

\* selectdone, set by whoever claims the sudog of a select.
Claimed(s) == done' = [done EXCEPT ![s[1]] = op[s[1]].sel]

\* Whether a case can proceed on channel record h.
Ready(h, c, dir) ==
  \/ h.closed
  \/ dir = "send" /\ (Claim(h.recvq) > 0 \/ h.qcount < Cap(c))
  \/ dir = "recv" /\ (Claim(h.sendq) > 0 \/ h.qcount > 0)

Unlock(g) == lock' = [c \in Chan |-> IF lock[c] = g THEN NoG ELSE lock[c]]

Settle(g, i, what) == ret' = [ret EXCEPT ![g] = <<i, what>>]

\* Case i of g goes ahead, with the locks it needs held; hs is ch, in a select
\* as its pass 1 has left it.  First a send: on a closed channel it panics.
SendClosed(g, i, hs) == LET c == Case(g, i).c IN
  /\ Case(g, i).dir = "send" /\ hs[c].closed
  /\ ch' = hs
  /\ Settle(g, i, "panic") /\ Goto(g, "return")
  /\ UNCHANGED <<done, hand, elem>>

\* With a waiting receiver the value goes to it, not through the buffer.
SendToReceiver(g, i, hs) == LET c == Case(g, i).c  w == hs[c].recvq IN
  /\ Case(g, i).dir = "send" /\ ~hs[c].closed /\ Claim(w) > 0
  /\ ch' = [hs EXCEPT ![c].recvq = Dequeued(w)]
  /\ Claimed(w[Claim(w)])
  /\ hand' = [hand EXCEPT ![g] = w[Claim(w)]]
  /\ Settle(g, i, "ok") /\ Goto(g, "handoff")
  /\ UNCHANGED elem

SendToBuffer(g, i, hs) == LET c == Case(g, i).c IN
  /\ Case(g, i).dir = "send" /\ ~hs[c].closed
  /\ Claim(hs[c].recvq) = 0 /\ hs[c].qcount < Cap(c)
  /\ ch' = [hs EXCEPT ![c].recvq = <<>>,
                      ![c].buf[hs[c].sendx] = Val(g),
                      ![c].sendx = Step(c, @),
                      ![c].qcount = @ + 1]
  /\ Settle(g, i, "ok") /\ Goto(g, "return")
  /\ UNCHANGED <<done, hand, elem>>

\* Mutant: the sender's value is received, past those in the buffer.
RecvOvertakes(g, i, hs) ==
  LET c == Case(g, i).c  w == hs[c].sendq  s == w[Claim(w)] IN
  /\ Case(g, i).dir = "recv" /\ Claim(w) > 0
  /\ ch' = [hs EXCEPT ![c].sendq = Dequeued(w)]
  /\ elem' = [elem EXCEPT ![g] = Val(s[1])]
  /\ Claimed(s)
  /\ hand' = [hand EXCEPT ![g] = s]
  /\ Settle(g, i, "ok") /\ Goto(g, "handoff")

\* A receive that finds a waiting sender: on an unbuffered channel the value is
\* copied after the unlock (Handoff); on a full one the head of the buffer is
\* received and the sender's value put in its place, which is the tail's.
RecvFromSender(g, i, hs) ==
  LET c == Case(g, i).c  w == hs[c].sendq  s == w[Claim(w)] IN
  /\ Case(g, i).dir = "recv" /\ Claim(w) > 0
  /\ IF Cap(c) = 0
     THEN /\ ch' = [hs EXCEPT ![c].sendq = Dequeued(w)]
          /\ UNCHANGED elem
     ELSE /\ ch' = [hs EXCEPT ![c].sendq = Dequeued(w),
                              ![c].buf[hs[c].recvx] = Val(s[1]),
                              ![c].recvx = Step(c, @),
                              ![c].sendx = Step(c, hs[c].recvx)]
          /\ elem' = [elem EXCEPT ![g] = hs[c].buf[hs[c].recvx]]
  /\ Claimed(s)
  /\ hand' = [hand EXCEPT ![g] = s]
  /\ Settle(g, i, "ok") /\ Goto(g, "handoff")

RecvFromBuffer(g, i, hs) == LET c == Case(g, i).c IN
  /\ Case(g, i).dir = "recv" /\ Claim(hs[c].sendq) = 0 /\ hs[c].qcount > 0
  /\ ch' = [hs EXCEPT ![c].sendq = <<>>,
                      ![c].buf[hs[c].recvx] = NoVal,
                      ![c].recvx = Step(c, @),
                      ![c].qcount = @ - 1]
  /\ elem' = [elem EXCEPT ![g] = hs[c].buf[hs[c].recvx]]
  /\ Settle(g, i, "ok") /\ Goto(g, "return")
  /\ UNCHANGED <<done, hand>>

RecvClosed(g, i, hs) == LET c == Case(g, i).c IN
  /\ Case(g, i).dir = "recv" /\ hs[c].closed
  /\ Claim(hs[c].sendq) = 0 /\ hs[c].qcount = 0
  /\ ch' = hs
  /\ Settle(g, i, "closed") /\ Goto(g, "return")
  /\ UNCHANGED <<done, hand, elem>>

Fire(g, i, hs) ==
  \/ SendClosed(g, i, hs) \/ SendToReceiver(g, i, hs) \/ SendToBuffer(g, i, hs)
  \/ RecvFromSender(g, i, hs) \/ RecvFromBuffer(g, i, hs) \/ RecvClosed(g, i, hs)

\* Examining a case that is not ready leaves its peers' queue empty: whatever
\* dequeue met there was claimed.
Drained(hs, cs) ==
  [c \in Chan |-> [hs[c] EXCEPT
     !.recvq = IF [c |-> c, dir |-> "send"] \in cs THEN <<>> ELSE @,
     !.sendq = IF [c |-> c, dir |-> "recv"] \in cs THEN <<>> ELSE @]]

Enqueue(hs, s, k) ==
  IF k.dir = "send" THEN [hs EXCEPT ![k.c].sendq = Append(@, s)]
                    ELSE [hs EXCEPT ![k.c].recvq = Append(@, s)]

\* What w has at the positions in I, in order.
Kept(w, I) == [k \in 1..Cardinality(I) |->
                 w[CHOOSE i \in I : Cardinality({j \in I : j <= i}) = k]]

\* A select's sudogs for the cases that do dir on c, in pollorder p.
Sudogs(g, p, c, dir) == Kept([j \in DOMAIN p |-> <<g, p[j]>>],
                             {j \in DOMAIN p : Case(g, p[j]) = [c |-> c, dir |-> dir]})

EnqueueAll(hs, g, p) ==
  [c \in Chan |-> [hs[c] EXCEPT !.sendq = @ \o Sudogs(g, p, c, "send"),
                               !.recvq = @ \o Sudogs(g, p, c, "recv")]]

-----------------------------------------------------------------------------
Invoke(g, o) ==
  /\ pc[g] = "idle" /\ calls[g] < MaxCalls
  /\ op' = [op EXCEPT ![g] = o]
  /\ calls' = [calls EXCEPT ![g] = @ + 1]
  /\ Goto(g, IF o.sel THEN "sellock" ELSE IF o.block THEN "chan" ELSE "fast")
  /\ UNCHANGED <<ch, lock, done, param, hand, elem, ret>>

\* What the lock-free fast path takes for a channel that is not ready.
NotReadyAtAGlance(h, c, dir) ==
  IF dir = "send"
  THEN IF Cap(c) = 0 THEN h.recvq = <<>> ELSE h.qcount = Cap(c)
  ELSE IF Cap(c) = 0 THEN h.sendq = <<>> ELSE h.qcount = 0

\* Mutant: a receive reads closed first as well.
ClosedFirstAlways(dir) == TRUE

\* The fast path of chansend(block = false) reads closed and then recvq.first or
\* qcount; that of chanrecv reads sendq.first or qcount and then closed.
ClosedFirst(dir) == dir = "send"

\* One of the two reads finds what lets the call give up without the lock.
GlanceFails(g, closedRead) == LET c == Case(g, 1).c IN
  IF closedRead THEN ~ch[c].closed ELSE NotReadyAtAGlance(ch[c], c, Case(g, 1).dir)

FastRead(g) ==
  /\ pc[g] = "fast"
  /\ Goto(g, IF GlanceFails(g, ClosedFirst(Case(g, 1).dir)) THEN "fast2" ELSE "chan")
  /\ UNCHANGED <<ch, lock, op, calls, done, param, hand, elem, ret>>

FastRead2(g) == LET fails == GlanceFails(g, ~ClosedFirst(Case(g, 1).dir)) IN
  /\ pc[g] = "fast2"
  /\ \/ fails /\ Settle(g, 0, "default") /\ Goto(g, "return")
     \/ ~fails /\ Goto(g, "chan") /\ UNCHANGED ret
  /\ UNCHANGED <<ch, lock, op, calls, done, param, hand, elem>>

\* chansend and chanrecv from lock to unlock: go ahead, give up, or park.
ChanOp(g) == LET k == Case(g, 1) IN
  /\ pc[g] = "chan" /\ k.dir # "close" /\ lock[k.c] = NoG
  /\ \/ Fire(g, 1, ch) /\ UNCHANGED param
     \/ /\ ~Ready(ch[k.c], k.c, k.dir) /\ ~op[g].block
        /\ ch' = Drained(ch, {k})
        /\ Settle(g, 0, "default") /\ Goto(g, "return")
        /\ UNCHANGED <<done, param, hand, elem>>
     \/ /\ ~Ready(ch[k.c], k.c, k.dir) /\ op[g].block
        /\ ch' = Enqueue(Drained(ch, {k}), <<g, 1>>, k)
        /\ param' = [param EXCEPT ![g] = <<>>]
        /\ Goto(g, "parked")
        /\ UNCHANGED <<done, hand, elem, ret>>
  /\ UNCHANGED <<lock, op, calls>>

\* closechan: with the lock held the channel is closed first,
Closechan(g) == LET c == Case(g, 1).c IN
  /\ pc[g] = "chan" /\ Case(g, 1).dir = "close" /\ lock[c] = NoG
  /\ \/ /\ ch[c].closed
        /\ Settle(g, 1, "panic") /\ Goto(g, "return")
        /\ UNCHANGED <<ch, lock>>
     \/ /\ ~ch[c].closed
        /\ ch' = [ch EXCEPT ![c].closed = TRUE]
        /\ lock' = [lock EXCEPT ![c] = g]
        /\ Settle(g, 1, "ok") /\ Goto(g, "closing")
  /\ UNCHANGED <<op, calls, done, param, hand, elem>>

\* then one goroutine after the other is dequeued, claimed and made runnable; those
\* already woken run, and others claim sleepers by way of other channels.
Release(s) ==
  /\ Claimed(s)
  /\ param' = [param EXCEPT ![s[1]] = <<>>]
  /\ Goto(s[1], "woken")
  /\ UNCHANGED <<lock, op, calls, hand, elem, ret>>

\* Readers first,
ReleaseReader(g) == LET c == Case(g, 1).c  w == ch[c].recvq IN
  /\ pc[g] = "closing" /\ Claim(w) > 0
  /\ ch' = [ch EXCEPT ![c].recvq = Dequeued(w)]
  /\ Release(w[Claim(w)])

\* then writers,
ReleaseWriter(g) == LET c == Case(g, 1).c  w == ch[c].sendq IN
  /\ pc[g] = "closing" /\ Claim(ch[c].recvq) = 0 /\ Claim(w) > 0
  /\ ch' = [ch EXCEPT ![c].recvq = <<>>, ![c].sendq = Dequeued(w)]
  /\ Release(w[Claim(w)])

\* Mutant: close releases the readers and leaves the writers.
CloseDoneEarly(g) == LET c == Case(g, 1).c IN
  /\ pc[g] = "closing" /\ Claim(ch[c].recvq) = 0
  /\ ch' = [ch EXCEPT ![c].recvq = <<>>]
  /\ Unlock(g) /\ Goto(g, "return")
  /\ UNCHANGED <<op, calls, done, param, hand, elem, ret>>

\* and with nobody left the lock is given back.
CloseDone(g) == LET c == Case(g, 1).c IN
  /\ pc[g] = "closing" /\ Claim(ch[c].recvq) = 0 /\ Claim(ch[c].sendq) = 0
  /\ ch' = [ch EXCEPT ![c].recvq = <<>>, ![c].sendq = <<>>]
  /\ Unlock(g) /\ Goto(g, "return")
  /\ UNCHANGED <<op, calls, done, param, hand, elem, ret>>

\* The rest of send and recv, after the unlock: copy, set param, goready.
Handoff(g) == LET s == hand[g]  t == s[1]  k == Case(g, ret[g][1]) IN
  /\ pc[g] = "handoff"
  /\ elem' = IF k.dir = "send" THEN [elem EXCEPT ![t] = Val(g)]
             ELSE IF Cap(k.c) = 0 THEN [elem EXCEPT ![g] = Val(t)]
             ELSE elem
  /\ param' = [param EXCEPT ![t] = s]
  /\ pc' = [pc EXCEPT ![g] = "return", ![t] = "woken"]
  /\ hand' = [hand EXCEPT ![g] = <<>>]
  /\ UNCHANGED <<ch, lock, op, calls, done, ret>>

\* chansend and chanrecv after their park: gp.param tells a close.
Woken(g) ==
  /\ pc[g] = "woken" /\ ~op[g].sel
  /\ Settle(g, 1, IF param[g] # <<>> THEN "ok"
                  ELSE IF Case(g, 1).dir = "send" THEN "panic" ELSE "closed")
  /\ param' = [param EXCEPT ![g] = <<>>]
  /\ Goto(g, "return")
  /\ UNCHANGED <<ch, lock, op, calls, done, hand, elem>>

Return(g) ==
  /\ pc[g] = "return"
  /\ op' = [op EXCEPT ![g] = NoOp]
  /\ elem' = [elem EXCEPT ![g] = NoVal]
  /\ ret' = [ret EXCEPT ![g] = Pending]
  /\ Goto(g, "idle")
  /\ UNCHANGED <<ch, lock, calls, done, param, hand>>

-----------------------------------------------------------------------------
SelChans(g) == {Case(g, i).c : i \in DOMAIN op[g].cases}
Missing(g) == {c \in SelChans(g) : lock[c] # g}

\* Mutant: lock the channels in the order of the cases.
NextLockUnsorted(g) ==
  Case(g, Min({i \in DOMAIN op[g].cases : Case(g, i).c \in Missing(g)})).c

\* sellock goes up lockorder, the channels sorted by address.
NextLock(g) == Min(Missing(g))

Sellock(g) ==
  /\ pc[g] \in {"sellock", "relock"}
  /\ lock[NextLock(g)] = NoG
  /\ lock' = [lock EXCEPT ![NextLock(g)] = g]
  /\ IF Cardinality(Missing(g)) > 1 THEN UNCHANGED pc
     ELSE Goto(g, IF pc[g] = "sellock" THEN "poll" ELSE "pass3")
  /\ UNCHANGED <<ch, op, calls, done, param, hand, elem, ret>>

\* Passes 1 and 2, all locks held, in some pollorder: go ahead with the first
\* case that is ready; with none ready take the default, or enqueue on all the
\* channels and park, which gives back the locks last.
Poll(g) ==
  /\ pc[g] = "poll"
  /\ \E p \in SetToSeqs(DOMAIN op[g].cases) :
       LET ready(j) == LET k == Case(g, p[j]) IN Ready(ch[k.c], k.c, k.dir)
           seen(n) == {Case(g, p[j]) : j \in 1..n}
       IN \/ \E j \in DOMAIN p :
               /\ ready(j) /\ \A i \in 1..j - 1 : ~ready(i)
               /\ Fire(g, p[j], Drained(ch, seen(j - 1)))
               /\ UNCHANGED param
          \/ /\ \A j \in DOMAIN p : ~ready(j)
             /\ ~op[g].block
             /\ ch' = Drained(ch, seen(Len(p)))
             /\ Settle(g, 0, "default") /\ Goto(g, "return")
             /\ UNCHANGED <<done, param, hand, elem>>
          \/ /\ \A j \in DOMAIN p : ~ready(j)
             /\ op[g].block
             /\ ch' = EnqueueAll(Drained(ch, seen(Len(p))), g, p)
             /\ done' = [done EXCEPT ![g] = FALSE]
             /\ param' = [param EXCEPT ![g] = <<>>]
             /\ Goto(g, "parked")
             /\ UNCHANGED <<hand, elem, ret>>
  /\ Unlock(g)
  /\ UNCHANGED <<op, calls>>

WokenSelect(g) ==
  /\ pc[g] = "woken" /\ op[g].sel
  /\ Goto(g, "relock")
  /\ UNCHANGED <<ch, lock, op, calls, done, param, hand, elem, ret>>

\* Mutant: the sudogs that did not fire stay queued.
Pass3Leaves(g) ==
  /\ pc[g] = "pass3"
  /\ ch' = ch
  /\ done' = [done EXCEPT ![g] = FALSE]
  /\ \/ /\ param[g] # <<>>
        /\ Settle(g, param[g][2], "ok") /\ Goto(g, "return") /\ Unlock(g)
     \/ /\ param[g] = <<>>
        /\ Goto(g, "poll") /\ UNCHANGED <<ret, lock>>
  /\ param' = [param EXCEPT ![g] = <<>>]
  /\ UNCHANGED <<op, calls, hand, elem>>

\* Pass 3: remove the sudogs that did not fire.  One fired, or, after a close,
\* none, and it is back to pass 1 with the locks held.
Pass3(g) == LET others(w) == Kept(w, {i \in DOMAIN w : w[i][1] # g}) IN
  /\ pc[g] = "pass3"
  /\ ch' = [c \in Chan |-> [ch[c] EXCEPT !.recvq = others(@), !.sendq = others(@)]]
  /\ done' = [done EXCEPT ![g] = FALSE]
  /\ \/ /\ param[g] # <<>>
        /\ Settle(g, param[g][2], "ok") /\ Goto(g, "return") /\ Unlock(g)
     \/ /\ param[g] = <<>>
        /\ Goto(g, "poll") /\ UNCHANGED <<ret, lock>>
  /\ param' = [param EXCEPT ![g] = <<>>]
  /\ UNCHANGED <<op, calls, hand, elem>>

Run(g) ==
  \/ FastRead(g) \/ FastRead2(g) \/ ChanOp(g) \/ Handoff(g)
  \/ Closechan(g) \/ ReleaseReader(g) \/ ReleaseWriter(g) \/ CloseDone(g)
  \/ Woken(g) \/ Return(g) \/ Sellock(g) \/ Poll(g) \/ WokenSelect(g) \/ Pass3(g)

Next == \E g \in G : Run(g) \/ \E o \in Ops : Invoke(g, o)

Spec == Init /\ [][Next]_vars

-----------------------------------------------------------------------------
\* Who has been claimed and not yet made runnable, and by whom.
Wakers(t) == {g \in G : pc[g] = "handoff" /\ hand[g][1] = t}

\* A goroutine is woken by one other at most, and only out of its park, though
\* its sudogs sit in the queues of several channels with a lock each.
ClaimedOnce == \A t \in G :
  /\ Cardinality(Wakers(t)) <= 1
  /\ Wakers(t) # {} => pc[t] = "parked"

\* A close of c is on its way through the queues.
Closing(c) == \E g \in G : pc[g] = "closing" /\ Case(g, 1).c = c

\* Parked for good reason: as long as nobody has claimed it, none of its cases
\* can proceed, whether by a buffer, a close, or another goroutine parked; but for
\* a close that has yet to come to it in the queue.
ParkedMeansNotReady == \A g \in G :
  pc[g] = "parked" /\ Wakers(g) = {} =>
    \A i \in DOMAIN op[g].cases : LET k == Case(g, i)  h == ch[k.c] IN
      /\ h.closed => Closing(k.c) /\ <<g, i>> \in ToSet(IF k.dir = "send" THEN h.sendq ELSE h.recvq)
      /\ k.dir = "send" => h.qcount = Cap(k.c)
      /\ k.dir = "recv" => h.qcount = 0
      /\ \A s \in ToSet(IF k.dir = "send" THEN h.recvq ELSE h.sendq) :
           s[1] = g \/ done[s[1]]

\* The state is well typed, the ring's indices within it; a queue holds a
\* goroutine once per case that waits there, and no sudog outlives its call: the
\* waitqs never point into a finished select.
QueuesTidy ==
  /\ TypeOK
  /\ \A c \in Chan : \A w \in {ch[c].recvq, ch[c].sendq} :
       /\ IsInjective(w)
       /\ \A s \in ToSet(w) :
            /\ pc[s[1]] \in {"parked", "woken", "relock", "pass3"}
            /\ s[2] \in DOMAIN op[s[1]].cases /\ Case(s[1], s[2]).c = c

\* g is in the middle of a select's locks and waits for one that a goroutine of
\* S holds.
WaitsIn(g, S) ==
  /\ pc[g] \in {"sellock", "relock"}
  /\ lock[NextLock(g)] \in S

\* Selects take their locks one by one, before they poll and again after a park:
\* no goroutines hold locks that each other of them waits for, in a ring.
NoLockCycle == \A S \in (SUBSET G) \ {{}} : \E g \in S : ~WaitsIn(g, S)

-----------------------------------------------------------------------------
\* Seen from its callers: the buffer's values in order, and what each call will
\* return.  A call is settled when the other side has claimed it.
Contents(c) == [i \in 1..ch[c].qcount |-> ch[c].buf[(ch[c].recvx + i - 1) % Cap(c)]]

Outcome(g) ==
  LET receives(i, v) == IF Case(g, i).dir = "recv" THEN v ELSE NoVal IN
  IF Wakers(g) # {}
  THEN LET w == CHOOSE w \in Wakers(g) : TRUE
       IN <<hand[w][2], "ok", receives(hand[w][2], Val(w))>>
  ELSE IF param[g] # <<>> THEN <<param[g][2], "ok", receives(param[g][2], elem[g])>>
  ELSE IF pc[g] = "handoff" /\ Cap(Case(g, ret[g][1]).c) = 0
  THEN <<ret[g][1], "ok", receives(ret[g][1], Val(hand[g][1]))>>
  ELSE <<ret[g][1], ret[g][2], elem[g]>>

A == INSTANCE ChanSpec WITH
       cap <- [c \in Chan |-> Cap(c)],
       q <- [c \in Chan |-> Contents(c)],
       closed <- [c \in Chan |-> ch[c].closed],
       ret <- [g \in G |-> Outcome(g)]

\* Every step of the channels and selects is one ChanSpec allows, or a stutter.
ImplementsChannels == A!Spec

=============================================================================
