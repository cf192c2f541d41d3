------------------------------ MODULE RunQueue ------------------------------
(***************************************************************************)
(* runtime/proc.go: the queue of runnable goroutines that each P has: a    *)
(* ring of Len slots (256 in the code) between runqhead and runqtail, and  *)
(* the slot runnext.  Only the thread that holds the P puts goroutines in, *)
(* and it alone moves the tail; it and thieves from other Ps take them out *)
(* by a compare-and-swap of the head.  No lock is held, and the indices    *)
(* are uint32 that wrap around.                                            *)
(*                                                                         *)
(* A step is one access to memory that another thread may write or read at *)
(* the same time.  The indices are taken mod W.  As with the real 2^32, a  *)
(* thread that sleeps while others move the head all the way around would  *)
(* be misled.  MaxPuts keeps this out: each put brings a ring one index    *)
(* on, and each of the as many steals there can be Len2 - 1 at most.       *)
(***************************************************************************)
EXTENDS Integers, SequencesExt

CONSTANTS
  P,       \* the Ps, each held by one thread
  Putters, \* those whose goroutines make others runnable
  G,       \* goroutines
  NoG, NoP,
  Len2,    \* half of the length of a ring
  W,       \* indices are mod W
  Start,   \* where the indices start: the values of runqhead in Init
  MaxPuts  \* how often runqput is called in all

Length == 2 * Len2

ASSUME RingAssumption == Len2 \in Nat \ {0} /\ W \in Nat /\ W % Length = 0 /\ W > Length
ASSUME StartAssumption == Start \subseteq 0 .. W - 1
ASSUME BoundAssumption == MaxPuts \in Nat /\ Len2 * MaxPuts < W
ASSUME NamesAssumption == NoG \notin G /\ NoP \notin P /\ Putters \subseteq P
ASSUME FiniteAssumption == IsFiniteSet(G)

VARIABLES
  runqhead, runqtail,
  runq,     \* the ring, with what is left in slots that are free
  runnext,
  globrunq, \* what runqputslow has put in the global queue
  puts,     \* calls of runqput
  out,      \* the goroutines that are in no queue: they run, or wait
  th        \* the threads

vars == <<runqhead, runqtail, runq, runnext, globrunq, puts, out, th>>

\* A thread is "idle" between calls; in runqput at "putring", "puttail", "putslow" or
\* "putglobal"; in runqget at "get" or "getcas"; in runqsteal at "grab", "grabtail",
\* "grabcopy", "grabcas", "grabnext" or "stealtail".
State ==
  [pc : {"idle", "putring", "puttail", "putslow", "putglobal", "get", "getcas", "grab",
         "grabtail", "grabcopy", "grabcas", "grabnext", "stealtail"},
   h : 0 .. W - 1,         \* the head it has read
   n : 0 .. W - 1,         \* how many it takes
   copied : 0 .. Length,   \* how many of these it has copied
   g : G \cup {NoG},       \* the goroutine it puts, or has read
   batch : SUBSET G,       \* those on their way to the global queue
   victim : P \cup {NoP},
   next : BOOLEAN]         \* stealRunNextG

TypeOK ==
  /\ runqhead \in [P -> 0 .. W - 1] /\ runqtail \in [P -> 0 .. W - 1]
  /\ runq \in [P -> [0 .. Length - 1 -> G \cup {NoG}]]
  /\ runnext \in [P -> G \cup {NoG}]
  /\ globrunq \subseteq G
  /\ puts \in 0 .. MaxPuts /\ out \subseteq G
  /\ th \in [P -> State]

Resting == [pc |-> "idle", h |-> 0, n |-> 0, copied |-> 0, g |-> NoG, batch |-> {},
            victim |-> NoP, next |-> FALSE]

Init ==
  /\ runqhead \in [P -> Start] /\ runqtail = runqhead
  /\ runq = [p \in P |-> [i \in 0 .. Length - 1 |-> NoG]]
  /\ runnext = [p \in P |-> NoG]
  /\ globrunq = {} /\ puts = 0 /\ out = G
  /\ th = [p \in P |-> Resting]

\* Differences and sums of uint32s.
Minus(a, b) == (a - b) % W
Plus(a, b) == (a + b) % W
Slot(i) == i % Length

\* The goroutines of the n slots from h on in P p's ring.
Ring(p, h, n) == [i \in 1 .. n |-> runq[p][Slot(h + i - 1)]]

At(p, l) == th[p].pc = l
Goto(p, l) == th' = [th EXCEPT ![p].pc = l]
Return(p) == th' = [th EXCEPT ![p] = Resting]

\* atomic.Cas(&q.runqhead, h, h+n)
Cas(q, h, n) == runqhead[q] = h /\ runqhead' = [runqhead EXCEPT ![q] = Plus(h, n)]

Queue(p) == Ring(p, runqhead[p], Minus(runqtail[p], runqhead[p]))

-----------------------------------------------------------------------------
\* runqput

Put(p, g) ==
  /\ At(p, "idle") /\ p \in Putters /\ puts < MaxPuts
  /\ puts' = puts + 1 /\ out' = out \ {g}
  /\ th' = [th EXCEPT ![p].pc = "putring", ![p].g = g]
  /\ UNCHANGED <<runqhead, runqtail, runq, runnext, globrunq>>

\* next is true: the compare-and-swap that works puts g into runnext, and kicks out what
\* was there.
PutNext(p, g) ==
  /\ At(p, "idle") /\ p \in Putters /\ puts < MaxPuts
  /\ puts' = puts + 1 /\ out' = out \ {g}
  /\ runnext' = [runnext EXCEPT ![p] = g]
  /\ IF runnext[p] = NoG THEN UNCHANGED th
     ELSE th' = [th EXCEPT ![p].pc = "putring", ![p].g = runnext[p]]
  /\ UNCHANGED <<runqhead, runqtail, runq, globrunq>>

\* Mutant: a ring with one more goroutine than slots.
PutRingOver(p) ==
  /\ At(p, "putring")
  /\ IF Minus(runqtail[p], runqhead[p]) <= Length
       THEN /\ runq' = [runq EXCEPT ![p][Slot(runqtail[p])] = th[p].g]
            /\ Goto(p, "puttail")
       ELSE /\ th' = [th EXCEPT ![p].pc = "putslow", ![p].h = runqhead[p],
                                ![p].n = Minus(runqtail[p], runqhead[p]) \div 2]
            /\ UNCHANGED runq
  /\ UNCHANGED <<runqhead, runqtail, runnext, globrunq, puts, out>>

\* The head is read; is there a free slot?  If so it is written before the tail moves.
PutRing(p) ==
  /\ At(p, "putring")
  /\ IF Minus(runqtail[p], runqhead[p]) < Length
       THEN /\ runq' = [runq EXCEPT ![p][Slot(runqtail[p])] = th[p].g]
            /\ Goto(p, "puttail")
       ELSE /\ th' = [th EXCEPT ![p].pc = "putslow", ![p].h = runqhead[p],
                                ![p].n = Minus(runqtail[p], runqhead[p]) \div 2]
            /\ UNCHANGED runq
  /\ UNCHANGED <<runqhead, runqtail, runnext, globrunq, puts, out>>

PutTail(p) ==
  /\ At(p, "puttail") /\ Return(p)
  /\ runqtail' = [runqtail EXCEPT ![p] = Plus(@, 1)]
  /\ UNCHANGED <<runqhead, runq, runnext, globrunq, puts, out>>

\* Mutant: half of the ring, even what a thief has taken since the head was read.
PutSlowBlindly(p) ==
  /\ At(p, "putslow")
  /\ runqhead' = [runqhead EXCEPT ![p] = Plus(th[p].h, th[p].n)]
  /\ th' = [th EXCEPT ![p].pc = "putglobal", ![p].g = NoG, ![p].h = 0, ![p].n = 0,
                      ![p].batch = {th[p].g} \cup ToSet(Ring(p, th[p].h, th[p].n))]
  /\ UNCHANGED <<runqtail, runq, runnext, globrunq, puts, out>>

\* runqputslow: half of the ring, unless somebody has taken some of it meanwhile.
PutSlow(p) ==
  /\ At(p, "putslow")
  /\ \/ /\ Cas(p, th[p].h, th[p].n)
        /\ th' = [th EXCEPT ![p].pc = "putglobal", ![p].g = NoG, ![p].h = 0, ![p].n = 0,
                            ![p].batch = {th[p].g} \cup ToSet(Ring(p, th[p].h, th[p].n))]
     \/ /\ runqhead[p] # th[p].h
        /\ th' = [th EXCEPT ![p].pc = "putring", ![p].h = 0, ![p].n = 0]
        /\ UNCHANGED runqhead
  /\ UNCHANGED <<runqtail, runq, runnext, globrunq, puts, out>>

PutGlobal(p) ==
  /\ At(p, "putglobal") /\ Return(p)
  /\ globrunq' = globrunq \cup th[p].batch
  /\ UNCHANGED <<runqhead, runqtail, runq, runnext, puts, out>>

-----------------------------------------------------------------------------
\* runqget: runnext if there is one, or else from the ring.

TakeNext(q) == runnext' = [runnext EXCEPT ![q] = NoG] /\ out' = out \cup {runnext[q]}

GetNext(p) ==
  /\ At(p, "idle")
  /\ \/ runnext[p] # NoG /\ TakeNext(p) /\ UNCHANGED th
     \/ runnext[p] = NoG /\ Goto(p, "get") /\ UNCHANGED <<runnext, out>>
  /\ UNCHANGED <<runqhead, runqtail, runq, globrunq, puts>>

Get(p) ==
  /\ At(p, "get")
  /\ IF runqhead[p] = runqtail[p] THEN Return(p)
     ELSE th' = [th EXCEPT ![p].pc = "getcas", ![p].h = runqhead[p],
                           ![p].g = runq[p][Slot(runqhead[p])]]
  /\ UNCHANGED <<runqhead, runqtail, runq, runnext, globrunq, puts, out>>

GetCas(p) ==
  /\ At(p, "getcas")
  /\ \/ Cas(p, th[p].h, 1) /\ Return(p) /\ out' = out \cup {th[p].g}
     \/ /\ runqhead[p] # th[p].h /\ UNCHANGED <<runqhead, out>>
        /\ th' = [th EXCEPT ![p].pc = "get", ![p].h = 0, ![p].g = NoG]
  /\ UNCHANGED <<runqtail, runq, runnext, globrunq, puts>>

-----------------------------------------------------------------------------
\* runqsteal, of a thread whose own queue is empty.

Steal(p, v, next) ==
  /\ At(p, "idle") /\ p # v
  /\ Queue(p) = <<>> /\ runnext[p] = NoG
  /\ th' = [th EXCEPT ![p].pc = "grab", ![p].victim = v, ![p].next = next]
  /\ UNCHANGED <<runqhead, runqtail, runq, runnext, globrunq, puts, out>>

Again(p) == th' = [th EXCEPT ![p].pc = "grab", ![p].h = 0, ![p].n = 0, ![p].copied = 0,
                             ![p].g = NoG]

Grab(p) ==
  /\ At(p, "grab")
  /\ th' = [th EXCEPT ![p].pc = "grabtail", ![p].h = runqhead[th[p].victim]]
  /\ UNCHANGED <<runqhead, runqtail, runq, runnext, globrunq, puts, out>>

\* Half of what is there; more than half of the ring cannot be, so it starts over.
GrabTail(p) ==
  LET size == Minus(runqtail[th[p].victim], th[p].h)
      n == size - size \div 2
      next == runnext[th[p].victim]
  IN
  /\ At(p, "grabtail")
  /\ \/ n = 0 /\ (~th[p].next \/ next = NoG) /\ Return(p)
     \/ /\ n = 0 /\ th[p].next /\ next # NoG
        /\ th' = [th EXCEPT ![p].pc = "grabnext", ![p].g = next, ![p].h = 0]
     \/ n > Len2 /\ Again(p)
     \/ n \in 1 .. Len2 /\ th' = [th EXCEPT ![p].pc = "grabcopy", ![p].n = n]
  /\ UNCHANGED <<runqhead, runqtail, runq, runnext, globrunq, puts, out>>

\* After a sleep, if it is still there.
GrabNext(p) ==
  LET v == th[p].victim IN
  /\ At(p, "grabnext")
  /\ \/ runnext[v] = th[p].g /\ TakeNext(v) /\ Return(p)
     \/ runnext[v] # th[p].g /\ Again(p) /\ UNCHANGED <<runnext, out>>
  /\ UNCHANGED <<runqhead, runqtail, runq, globrunq, puts>>

\* One by one into the free slots of its own ring.
GrabCopy(p) ==
  LET i == th[p].copied IN
  /\ At(p, "grabcopy")
  /\ runq' = [runq EXCEPT ![p][Slot(runqtail[p] + i)] = runq[th[p].victim][Slot(th[p].h + i)]]
  /\ th' = [th EXCEPT ![p].copied = i + 1,
                      ![p].pc = IF i + 1 = th[p].n THEN "grabcas" ELSE "grabcopy"]
  /\ UNCHANGED <<runqhead, runqtail, runnext, globrunq, puts, out>>

\* What runqsteal returns: the last one it has copied.
Stolen(p) == runq[p][Slot(runqtail[p] + th[p].n - 1)]

\* Mutant of the next: the head is moved whatever it has become.
GrabCasBlindly(p) ==
  /\ At(p, "grabcas")
  /\ runqhead' = [runqhead EXCEPT ![th[p].victim] = Plus(th[p].h, th[p].n)]
  /\ out' = out \cup {Stolen(p)}
  /\ IF th[p].n = 1 THEN Return(p)
     ELSE th' = [th EXCEPT ![p] = [Resting EXCEPT !.pc = "stealtail", !.n = th[p].n - 1]]
  /\ UNCHANGED <<runqtail, runq, runnext, globrunq, puts>>

\* It has them: the last one is its to run.
GrabCas(p) ==
  /\ At(p, "grabcas")
  /\ \/ /\ Cas(th[p].victim, th[p].h, th[p].n)
        /\ out' = out \cup {Stolen(p)}
        /\ IF th[p].n = 1 THEN Return(p)
           ELSE th' = [th EXCEPT ![p] = [Resting EXCEPT !.pc = "stealtail", !.n = th[p].n - 1]]
     \/ runqhead[th[p].victim] # th[p].h /\ Again(p) /\ UNCHANGED <<runqhead, out>>
  /\ UNCHANGED <<runqtail, runq, runnext, globrunq, puts>>

\* The others are its to queue.
StealTail(p) ==
  /\ At(p, "stealtail") /\ Return(p)
  /\ runqtail' = [runqtail EXCEPT ![p] = Plus(@, th[p].n)]
  /\ UNCHANGED <<runqhead, runq, runnext, globrunq, puts, out>>

-----------------------------------------------------------------------------
Thread(p) ==
  \/ \E g \in out : Put(p, g) \/ PutNext(p, g)
  \/ PutRing(p) \/ PutTail(p) \/ PutSlow(p) \/ PutGlobal(p)
  \/ GetNext(p) \/ Get(p) \/ GetCas(p)
  \/ \E v \in P, next \in BOOLEAN : Steal(p, v, next)
  \/ Grab(p) \/ GrabTail(p) \/ GrabNext(p) \/ GrabCopy(p) \/ GrabCas(p) \/ StealTail(p)

Next == \E p \in P : Thread(p)

Spec == Init /\ [][Next]_vars

-----------------------------------------------------------------------------
\* What a thread puts into its ring or into the global queue; and what its ring holds from
\* the head on, those it has stolen and not yet queued after the others.
Hands(p) ==
  CASE At(p, "putring") \/ At(p, "puttail") \/ At(p, "putslow") -> {th[p].g}
    [] At(p, "putglobal") -> th[p].batch
    [] OTHER -> {}

Held(p) == Minus(runqtail[p], runqhead[p]) + IF At(p, "stealtail") THEN th[p].n ELSE 0
Nth(p, k) == runq[p][Slot(runqhead[p] + k)]

\* OnePlace: a goroutine is in one slot of one ring between head and tail, or in one
\* runnext, or in the hands of one thread, or in the global queue, or is out of all
\* queues, and only once: none runs twice because two took it, or because a thief copied
\* it while the ring went on, and none is lost.
OnePlace ==
  /\ TypeOK
  /\ \A g \in G :
       Cardinality({x \in P \X (0 .. Length - 1) : x[2] < Held(x[1]) /\ Nth(x[1], x[2]) = g})
         + Cardinality({p \in P : g \in Hands(p)}) + Cardinality({p \in P : runnext[p] = g})
         + Cardinality({g} \cap globrunq) + Cardinality({g} \cap out) = 1

\* NeverThrows: the ring never holds more than Length; runqputslow finds it full, and what
\* runqsteal has taken fits into the thief's ring.
NeverThrows ==
  \A p \in P :
    /\ Minus(runqtail[p], runqhead[p]) <= Length
    /\ At(p, "putslow") => th[p].n = Len2
    /\ At(p, "stealtail") => Minus(runqtail[p], runqhead[p]) + th[p].n < Length

\* Fifo: goroutines leave a ring at its head, at most half a ring at once, and enter at its
\* tail; whatever thieves and the owner do at the same time, the rest stays as it is.
Fifo ==
  [][\A p \in P :
       \/ IsPrefix(Queue(p), Queue(p)')
       \/ \E k \in 1 .. Len2 :
            k <= Len(Queue(p)) /\ Queue(p)' = SubSeq(Queue(p), k + 1, Len(Queue(p)))]_vars
=============================================================================
