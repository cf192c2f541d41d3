------------------------------ MODULE Collector ------------------------------
(***************************************************************************)
(* runtime/mgc.go, mgcmark.go, mgcwork.go, mgcsweep.go and mbarrier.go:    *)
(* the concurrent mark and sweep collector.                                *)
(*                                                                         *)
(* Goroutines copy, store, allocate and send pointers while workers, one   *)
(* to a P, mark: they scan the roots, which are the globals and the stacks,*)
(* and then the objects that are queued, in the caches of the Ps (p.gcw)   *)
(* and in the global list (work.full).  When the workers run out of work,  *)
(* mark 1 becomes mark 2, with no caches, and mark 2 becomes mark          *)
(* termination, which stops the world and marks what is left; after it the *)
(* spans are swept while the goroutines run.                               *)
(*                                                                         *)
(* An object has one field, and a frame one slot, that holds a pointer or  *)
(* Nil.  A goroutine has an old frame and at times a younger one, with a   *)
(* frame without pointers between them, over whose return pc a scan may    *)
(* put a stack barrier.  Pacing, credit, assists, finalizers and forced    *)
(* collections are left out; a buffer in work.full holds one pointer.      *)
(***************************************************************************)
EXTENDS Naturals, FiniteSets

CONSTANTS
  Objs, Ps, Nil,
  NG,       \* how many goroutines there are: allgs is 1 .. NG
  Frames,   \* Frames[g]: how many frames goroutine g may have, 1 or 2
  Receivers, \* the goroutines that receive from a channel
  SpanOf,   \* SpanOf[o]: the span that object o is in
  MaxOps    \* how many times the goroutines allocate, copy, store, send, call or return

Gs == 1 .. NG
Spans == {SpanOf[o] : o \in Objs}

ASSUME NilAssumption == Nil \notin Objs /\ {Nil, "runnable", "waiting"} \cap Ps = {}
ASSUME SizeAssumption ==
  /\ NG \in Nat \ {0} /\ Frames \in [Gs -> 1 .. 2] /\ Ps # {} /\ Receivers \subseteq Gs
  /\ MaxOps \in Nat
ASSUME SpanAssumption == DOMAIN SpanOf = Objs

VARIABLES
  ops,
  heap, used,      \* the field of each object, and which objects are allocated
  global,          \* a global variable
  stack, depth,    \* the slots of each goroutine's frames, and how many frames it has
  status,          \* "runnable", "waiting", or the P it runs on
  barrier,         \* a write barrier that a goroutine is in
  gcscanvalid, gcscandone,
  stkbar,          \* the stacks that have a stack barrier that was not hit
  marked, unswept, sweeping,
  gcphase, gcBlackenPromptly,
  markrootNext, markrootJobs, nwait,
  full, gcw,       \* work.full, and each P's cache; in termination, its helper's
  pc, hand,        \* what a P does for the collector, and what it is scanning
  done, sema,      \* the worker of each P in gcMarkDone, and who holds markDoneSema
  toFlush          \* the Ps that forEachP has not been to

mem == <<heap, used, global>>
gvars == <<stack, depth, status, barrier, gcscanvalid, gcscandone, stkbar>>
spans == <<unswept, sweeping>>
work == <<markrootNext, markrootJobs, nwait, full>>
cycle == <<gcphase, gcBlackenPromptly, done, sema, toFlush>>
drain == <<gcw, pc, hand>>
vars == <<ops, mem, gvars, marked, spans, work, cycle, drain>>

Ptr == Objs \cup {Nil}
NoBarrier == [ptr |-> Nil, wakes |-> 0]

\* Root jobs: 0 is the data and BSS, g the stack of goroutine g.
AllJobs == 1 + NG
nproc == IF gcphase = "mark" THEN Cardinality(Ps) + 1 ELSE Cardinality(Ps)

TypeOK ==
  /\ ops \in 0 .. MaxOps
  /\ heap \in [Objs -> Ptr] /\ used \subseteq Objs /\ global \in Ptr
  /\ stack \in [Gs -> [1 .. 2 -> Ptr]] /\ depth \in [Gs -> 1 .. 2]
  /\ status \in [Gs -> {"runnable", "waiting"} \cup Ps]
  /\ barrier \in [Gs -> [ptr : Ptr, wakes : 0 .. NG]]
  /\ gcscanvalid \subseteq Gs /\ gcscandone \subseteq Gs /\ stkbar \subseteq Gs
  /\ marked \subseteq Objs /\ unswept \subseteq Spans /\ sweeping \subseteq Spans
  /\ gcphase \in {"off", "mark", "termination"} /\ gcBlackenPromptly \in BOOLEAN
  /\ markrootNext \in 0 .. AllJobs /\ markrootJobs \in 0 .. AllJobs
  /\ nwait \in Nat
  /\ full \subseteq Objs /\ gcw \in [Ps -> SUBSET Objs]
  /\ pc \in [Ps -> {"idle", "roots", "root", "heap", "scan", "exit", "leave", "wait", "pop", "halt"}]
  /\ hand \in [Ps -> Ptr \cup 0 .. NG]
  /\ \A p \in Ps : hand[p] \in (IF pc[p] = "root" THEN 0 .. NG ELSE Ptr)
  /\ done \in [Ps -> {"no", "want", "hold", "flush", "stopped"}]
  /\ sema \in Ps \cup {Nil} /\ toFlush \subseteq Ps

\* The goroutines have been running for a while.
Init ==
  /\ ops = 0
  /\ heap = [o \in Objs |-> Nil] /\ global \in Ptr /\ used = {global} \ {Nil}
  /\ stack = [g \in Gs |-> [k \in 1 .. 2 |-> Nil]] /\ depth \in [Gs -> 1 .. 2]
  /\ \A g \in Gs : depth[g] <= Frames[g]
  /\ status = [g \in Gs |-> IF g \in Receivers THEN "waiting" ELSE "runnable"]
  /\ barrier = [g \in Gs |-> NoBarrier]
  /\ gcscanvalid = {} /\ gcscandone = {} /\ stkbar = {}
  /\ marked = {} /\ unswept = {} /\ sweeping = {}
  /\ gcphase = "off" /\ gcBlackenPromptly = FALSE
  /\ markrootNext = 0 /\ markrootJobs = 0 /\ nwait = 0
  /\ full = {} /\ gcw = [p \in Ps |-> {}]
  /\ pc = [p \in Ps |-> "idle"] /\ hand = [p \in Ps |-> Nil]
  /\ done = [p \in Ps |-> "no"] /\ sema = Nil /\ toFlush = {}

\* The objects that pointers in S, and in these objects, lead to: the least set that has
\* S and what its objects point to.
Fields(S) == {heap[o] : o \in S} \ {Nil}
ReachableFrom(S) ==
  {o \in Objs : \A T \in SUBSET Objs : S \subseteq T /\ Fields(T) \subseteq T => o \in T}
Held(g) == {stack[g][k] : k \in 1 .. depth[g]} \ {Nil}
Roots == ((UNION {Held(g) : g \in Gs}) \cup {global}) \ {Nil}

-----------------------------------------------------------------------------
\* The goroutines.  A P runs one of them, or a worker.

Idle(p) == pc[p] = "idle" /\ \A g \in Gs : status[g] # p
Stopped == gcphase = "termination"
Running(g) == status[g] \in Ps /\ barrier[g] = NoBarrier
SafePoint(g) == barrier[g] = NoBarrier

Execute(g, p) ==
  /\ ~Stopped /\ status[g] = "runnable" /\ Idle(p)
  /\ status' = [status EXCEPT ![g] = p] /\ gcscanvalid' = gcscanvalid \ {g}
  /\ UNCHANGED <<ops, mem, stack, depth, barrier, gcscandone, stkbar, marked, spans, work, cycle, drain>>

\* It is preempted, or waits to receive into the slot of its last frame.
Leave(g) ==
  /\ Running(g)
  /\ \E s \in {"runnable"} \cup (IF g \in Receivers THEN {"waiting"} ELSE {}) : status' = [status EXCEPT ![g] = s]
  /\ UNCHANGED <<ops, mem, stack, depth, barrier, gcscanvalid, gcscandone, stkbar, marked, spans, work, cycle, drain>>

\* Mutant: there is no barrier in mark 2.
BarrieredEarly(g, v, h) ==
  IF gcphase = "mark" /\ ~gcBlackenPromptly
    THEN /\ barrier' = [barrier EXCEPT ![g] = [ptr |-> v, wakes |-> h]]
         /\ UNCHANGED status
    ELSE /\ status' = IF h = 0 THEN status ELSE [status EXCEPT ![h] = "runnable"]
         /\ UNCHANGED barrier

\* A store has been done; if writeBarrier.needed, then its barrier is next.
Barriered(g, v, h) ==
  IF gcphase = "mark"
    THEN /\ barrier' = [barrier EXCEPT ![g] = [ptr |-> v, wakes |-> h]]
         /\ UNCHANGED status
    ELSE /\ status' = IF h = 0 THEN status ELSE [status EXCEPT ![h] = "runnable"]
         /\ UNCHANGED barrier

Does(g) == Running(g) /\ ops < MaxOps /\ ops' = ops + 1

\* A write to the current frame has no barrier.
Move(g) ==
  /\ Does(g)
  /\ \E v \in {Nil, global} \cup {stack[g][1]} \cup {heap[o] : o \in Held(g)} :
       stack' = [stack EXCEPT ![g][depth[g]] = v]
  /\ UNCHANGED <<mem, depth, status, barrier, gcscanvalid, gcscandone, stkbar, marked, spans, work, cycle, drain>>

Call(g) ==
  /\ Does(g) /\ depth[g] < Frames[g]
  /\ depth' = [depth EXCEPT ![g] = 2]
  /\ stack' = [stack EXCEPT ![g][2] = stack[g][1]]
  /\ UNCHANGED <<mem, status, barrier, gcscanvalid, gcscandone, stkbar, marked, spans, work, cycle, drain>>

\* The younger frames return; a stack barrier between them and the old one is hit.
ReturnTo(g) ==
  /\ Does(g) /\ depth[g] = 2
  /\ depth' = [depth EXCEPT ![g] = 1]
  /\ \E v \in {stack[g][1], stack[g][2]} : stack' = [stack EXCEPT ![g] = [k \in 1 .. 2 |-> IF k = 1 THEN v ELSE Nil]]
  /\ stkbar' = stkbar \ {g}
  /\ UNCHANGED <<mem, status, barrier, gcscanvalid, gcscandone, marked, spans, work, cycle, drain>>

\* A write to the old frame through a pointer that was passed down.
StoreUp(g) ==
  /\ Does(g) /\ depth[g] = 2
  /\ stack' = [stack EXCEPT ![g][1] = stack[g][2]]
  /\ Barriered(g, stack[g][2], 0)
  /\ UNCHANGED <<mem, depth, gcscanvalid, gcscandone, stkbar, marked, spans, work, cycle, drain>>

StoreHeap(g) ==
  /\ Does(g)
  /\ \E o \in (Held(g) \cup {global}) \ {Nil}, v \in Held(g) \cup {global, Nil} :
       /\ heap' = [heap EXCEPT ![o] = v]
       /\ Barriered(g, v, 0)
  /\ UNCHANGED <<used, global, stack, depth, gcscanvalid, gcscandone, stkbar, marked, spans, work, cycle, drain>>

\* Global variables have no write barriers.
StoreGlobal(g) ==
  /\ Does(g)
  /\ \E v \in Held(g) \cup {Nil} : global' = v
  /\ UNCHANGED <<heap, used, gvars, marked, spans, work, cycle, drain>>

\* Sending to a receiver that waits, and that no other sender has dequeued, writes to
\* its stack.
Send(g, h) ==
  /\ Does(g) /\ status[h] = "waiting" /\ \A k \in Gs : barrier[k].wakes # h
  /\ stack' = [stack EXCEPT ![h][depth[h]] = stack[g][depth[g]]]
  /\ Barriered(g, stack[g][depth[g]], h)
  /\ UNCHANGED <<mem, depth, gcscanvalid, gcscandone, stkbar, marked, spans, work, cycle, drain>>

\* What greyobject marks and queues, of the objects S.
New(S) == S \ (marked \cup {Nil})

\* shade, and where it was a send the receiver is readied.
Shade(g) ==
  /\ barrier[g] # NoBarrier
  /\ LET p == status[g]
         new == New({barrier[g].ptr})
         h == barrier[g].wakes
     IN  /\ marked' = marked \cup new
         /\ IF gcBlackenPromptly
              THEN full' = full \cup gcw[p] \cup new /\ gcw' = [gcw EXCEPT ![p] = {}]
              ELSE gcw' = [gcw EXCEPT ![p] = @ \cup new] /\ UNCHANGED full
         /\ status' = IF h = 0 THEN status ELSE [status EXCEPT ![h] = "runnable"]
  /\ barrier' = [barrier EXCEPT ![g] = NoBarrier]
  /\ UNCHANGED <<ops, mem, stack, depth, gcscanvalid, gcscandone, stkbar, spans, cycle,
                 markrootNext, markrootJobs, nwait, pc, hand>>

\* mallocgc, from a span that is swept.
Malloc(g) ==
  /\ Does(g)
  /\ \E o \in Objs \ used :
       /\ SpanOf[o] \notin unswept \cup sweeping
       /\ used' = used \cup {o}
       /\ heap' = [heap EXCEPT ![o] = Nil]
       /\ stack' = [stack EXCEPT ![g][depth[g]] = o]
       /\ marked' = IF gcBlackenPromptly THEN marked \cup {o} ELSE marked
  /\ UNCHANGED <<global, depth, status, barrier, gcscanvalid, gcscandone, stkbar, spans, work, cycle, drain>>

-----------------------------------------------------------------------------
\* Sweeping, by bgsweep or a goroutine that allocates.  Who sweeps is not preempted.

InUse(S) == {SpanOf[o] : o \in S}
Garbage(S) == {o \in Objs : SpanOf[o] \in S} \ marked
MarksOf(S) == {o \in marked : SpanOf[o] \in S}

SweepBegin(s) ==
  /\ s \in unswept /\ unswept' = unswept \ {s} /\ sweeping' = sweeping \cup {s}
  /\ UNCHANGED <<ops, mem, gvars, marked, work, cycle, drain>>

Sweep(s) ==
  /\ s \in sweeping /\ sweeping' = sweeping \ {s}
  /\ used' = used \ Garbage({s}) /\ marked' = marked \ MarksOf({s})
  /\ UNCHANGED <<ops, heap, global, unswept, gvars, work, cycle, drain>>

-----------------------------------------------------------------------------
\* gcStart, in the background mode.  It stops the world, sweeps what is left, and enters mark 1.

Start ==
  /\ gcphase = "off" /\ sweeping = {}
  /\ \A g \in Gs : SafePoint(g)
  /\ used' = used \ Garbage(unswept) /\ marked' = marked \ MarksOf(unswept) /\ unswept' = {}
  /\ gcscandone' = {} /\ gcscanvalid' = {}
  /\ gcphase' = "mark"
  /\ markrootNext' = 0 /\ markrootJobs' = AllJobs /\ nwait' = Cardinality(Ps) + 1
  /\ status' = [g \in Gs |-> IF status[g] \in Ps THEN "runnable" ELSE status[g]]
  /\ UNCHANGED <<ops, heap, global, stack, depth, barrier, stkbar, sweeping, full, gcBlackenPromptly,
                 done, sema, toFlush, drain>>

-----------------------------------------------------------------------------
\* gcDrain.  It takes root jobs until there are none, and then objects until it finds none.

WorkAvailable == full # {} \/ markrootNext < markrootJobs

StartWorker(p) ==
  /\ gcphase = "mark" /\ Idle(p) /\ done[p] = "no"
  /\ gcw[p] # {} \/ WorkAvailable
  /\ nwait' = nwait - 1
  /\ pc' = [pc EXCEPT ![p] = "roots"]
  /\ UNCHANGED <<ops, mem, gvars, marked, spans, markrootNext, markrootJobs, full, cycle, gcw, hand>>

TakeRoot(p) ==
  /\ pc[p] = "roots"
  /\ IF markrootNext < markrootJobs
       THEN /\ markrootNext' = markrootNext + 1
            /\ pc' = [pc EXCEPT ![p] = "root"] /\ hand' = [hand EXCEPT ![p] = markrootNext]
       ELSE pc' = [pc EXCEPT ![p] = "heap"] /\ UNCHANGED <<markrootNext, hand>>
  /\ UNCHANGED <<ops, mem, gvars, marked, spans, markrootJobs, nwait, full, cycle, gcw>>

RootDone(p) ==
  /\ pc' = [pc EXCEPT ![p] = "roots"] /\ hand' = [hand EXCEPT ![p] = Nil]

\* markrootBlock, into a gcWork of its own that it disposes of.
ScanGlobals(p) ==
  /\ pc[p] = "root" /\ hand[p] = 0
  /\ marked' = marked \cup New({global}) /\ full' = full \cup New({global})
  /\ RootDone(p)
  /\ UNCHANGED <<ops, mem, gvars, spans, markrootNext, markrootJobs, nwait, cycle, gcw>>

\* scang and scanstack in the mark phase.  A goroutine that runs scans itself, on the P it
\* runs on; else the worker does.
ScanStack(p, g) ==
  /\ pc[p] = "root" /\ hand[p] = g /\ gcphase = "mark" /\ SafePoint(g)
  /\ LET q == IF status[g] \in Ps THEN status[g] ELSE p
     IN gcw' = [gcw EXCEPT ![q] = @ \cup New(Held(g))]
  /\ marked' = marked \cup Held(g)
  /\ \E b \in {{}, {g}} : (b # {} => depth[g] = 2) /\ stkbar' = stkbar \cup b
  /\ gcscanvalid' = IF status[g] \in Ps THEN gcscanvalid ELSE gcscanvalid \cup {g}
  /\ gcscandone' = gcscandone \cup {g}
  /\ RootDone(p)
  /\ UNCHANGED <<ops, mem, stack, depth, status, barrier, spans, work, cycle>>

\* The slots that mark termination scans: the stack down to a stack barrier that was not
\* hit, and nothing of a goroutine that has not run since it was scanned.
Rescanned(g) ==
  IF g \in gcscanvalid THEN {}
  ELSE IF g \in stkbar THEN {stack[g][2]} ELSE Held(g)

RescanStack(p, g) ==
  /\ pc[p] = "root" /\ hand[p] = g /\ gcphase = "termination"
  /\ marked' = marked \cup New(Rescanned(g)) /\ full' = full \cup New(Rescanned(g))
  /\ stkbar' = stkbar \ {g} /\ gcscanvalid' = gcscanvalid \cup {g}
  /\ gcscandone' = gcscandone \cup {g}
  /\ RootDone(p)
  /\ UNCHANGED <<ops, mem, stack, depth, status, barrier, spans, markrootNext, markrootJobs, nwait, cycle, gcw>>

\* balance, and then tryGet, or get up to where it has to wait.  What balance moves depends
\* on how the cache's two buffers are filled.
Get(p) ==
  /\ pc[p] = "heap"
  /\ \E S \in SUBSET gcw[p] :
       /\ full = {} \/ S = {}
       /\ LET mine == gcw[p] \ S
              shared == full \cup S
          IN  \/ \E o \in mine :
                   /\ hand' = [hand EXCEPT ![p] = o] /\ pc' = [pc EXCEPT ![p] = "scan"]
                   /\ gcw' = [gcw EXCEPT ![p] = mine \ {o}] /\ full' = shared
                   /\ UNCHANGED nwait
              \/ \E o \in shared :
                   /\ mine = {}
                   /\ hand' = [hand EXCEPT ![p] = o] /\ pc' = [pc EXCEPT ![p] = "scan"]
                   /\ gcw' = [gcw EXCEPT ![p] = {}] /\ full' = shared \ {o}
                   /\ UNCHANGED nwait
              \/ /\ mine = {} /\ shared = {}
                 /\ IF Stopped
                      THEN nwait' = nwait + 1 /\ pc' = [pc EXCEPT ![p] = "wait"]
                      ELSE pc' = [pc EXCEPT ![p] = "exit"] /\ UNCHANGED nwait
                 /\ UNCHANGED <<gcw, full, hand>>
  /\ UNCHANGED <<ops, mem, gvars, marked, spans, markrootNext, markrootJobs, cycle>>

Scan(p) ==
  /\ pc[p] = "scan"
  /\ marked' = marked \cup New({heap[hand[p]]})
  /\ gcw' = [gcw EXCEPT ![p] = @ \cup New({heap[hand[p]]})]
  /\ pc' = [pc EXCEPT ![p] = "heap"] /\ hand' = [hand EXCEPT ![p] = Nil]
  /\ UNCHANGED <<ops, mem, gvars, spans, work, cycle>>

\* A worker that is not dedicated stops when it is preempted.
Preempt(p) ==
  /\ gcphase = "mark" /\ pc[p] \in {"roots", "heap"}
  /\ pc' = [pc EXCEPT ![p] = "exit"]
  /\ UNCHANGED <<ops, mem, gvars, marked, spans, work, cycle, gcw, hand>>

\* The end of a worker's turn.  It gives away its cache near the end of marking, and then,
\* if it was the last and there is no work, calls gcMarkDone.
StopDrain(p) ==
  /\ pc[p] = "exit"
  /\ pc' = [pc EXCEPT ![p] = "leave"]
  /\ IF gcBlackenPromptly
       THEN full' = full \cup gcw[p] /\ gcw' = [gcw EXCEPT ![p] = {}]
       ELSE UNCHANGED <<full, gcw>>
  /\ UNCHANGED <<ops, mem, gvars, marked, spans, markrootNext, markrootJobs, nwait, cycle, hand>>

LastWorker == nwait + 1 = nproc /\ ~WorkAvailable

StopWorker(p) ==
  /\ pc[p] = "leave"
  /\ pc' = [pc EXCEPT ![p] = "idle"]
  /\ nwait' = nwait + 1
  /\ done' = [done EXCEPT ![p] = IF LastWorker THEN "want" ELSE "no"]
  /\ UNCHANGED <<ops, mem, gvars, marked, spans, markrootNext, markrootJobs, full, gcphase,
                 gcBlackenPromptly, sema, toFlush, gcw, hand>>

-----------------------------------------------------------------------------
\* gcMarkDone, called by a worker that has left its P.

\* semacquire(&work.markDoneSema), and the condition is checked again.
MarkDone(p) ==
  /\ done[p] = "want" /\ sema = Nil
  /\ IF gcphase = "mark" /\ nwait = nproc /\ ~WorkAvailable
       THEN sema' = p /\ done' = [done EXCEPT ![p] = "hold"]
       ELSE done' = [done EXCEPT ![p] = "no"] /\ UNCHANGED sema
  /\ UNCHANGED <<ops, mem, gvars, marked, spans, work, gcphase, gcBlackenPromptly, toFlush, drain>>

\* Mutant: nothing keeps mark 2 from being complete before the caches are flushed.
EnterMark2Freely(p) ==
  /\ done[p] = "hold" /\ ~gcBlackenPromptly
  /\ gcBlackenPromptly' = TRUE
  /\ markrootJobs' = 1 /\ markrootNext' = 0
  /\ sema' = Nil /\ done' = [done EXCEPT ![p] = "flush"] /\ toFlush' = Ps
  /\ UNCHANGED <<ops, mem, gvars, marked, spans, nwait, full, gcphase, drain>>

\* From mark 1 to mark 2.  The globals are to be scanned again.
EnterMark2(p) ==
  /\ done[p] = "hold" /\ ~gcBlackenPromptly
  /\ gcBlackenPromptly' = TRUE
  /\ nwait' = nwait - 1
  /\ markrootJobs' = 1 /\ markrootNext' = 0
  /\ sema' = Nil /\ done' = [done EXCEPT ![p] = "flush"] /\ toFlush' = Ps
  /\ UNCHANGED <<ops, mem, gvars, marked, spans, full, gcphase, drain>>

\* forEachP, at a safe point of each P.
Flush(p, q) ==
  /\ done[p] = "flush" /\ q \in toFlush
  /\ pc[q] = "idle" /\ \A g \in Gs : status[g] = q => SafePoint(g)
  /\ toFlush' = toFlush \ {q}
  /\ full' = full \cup gcw[q] /\ gcw' = [gcw EXCEPT ![q] = {}]
  /\ UNCHANGED <<ops, mem, gvars, marked, spans, markrootNext, markrootJobs, nwait, gcphase,
                 gcBlackenPromptly, done, sema, pc, hand>>

\* Mutant: it does not look whether mark 2 is complete already.
FlushedNoCheck(p) ==
  /\ done[p] = "flush" /\ toFlush = {}
  /\ nwait' = nwait + 1
  /\ done' = [done EXCEPT ![p] = "no"]
  /\ UNCHANGED <<ops, mem, gvars, marked, spans, markrootNext, markrootJobs, full, gcphase,
                 gcBlackenPromptly, sema, toFlush, drain>>

Flushed(p) ==
  /\ done[p] = "flush" /\ toFlush = {}
  /\ nwait' = nwait + 1
  /\ done' = [done EXCEPT ![p] = IF LastWorker THEN "want" ELSE "no"]
  /\ UNCHANGED <<ops, mem, gvars, marked, spans, markrootNext, markrootJobs, full, gcphase,
                 gcBlackenPromptly, sema, toFlush, drain>>

\* Mutant: mark termination does not prepare the root jobs again (gcMarkRootPrepare).
TerminateUnprepared(p) ==
  /\ done[p] = "hold" /\ gcBlackenPromptly
  /\ \A q \in Ps : pc[q] = "idle"
  /\ \A g \in Gs : SafePoint(g)
  /\ status' = [g \in Gs |-> IF status[g] \in Ps THEN "runnable" ELSE status[g]]
  /\ gcphase' = "termination" /\ gcBlackenPromptly' = FALSE
  /\ full' = full \cup UNION {gcw[q] : q \in Ps} /\ gcw' = [q \in Ps |-> {}]
  /\ nwait' = 0
  /\ gcscandone' = {}
  /\ sema' = Nil /\ done' = [done EXCEPT ![p] = "stopped"]
  /\ pc' = [q \in Ps |-> "roots"]
  /\ UNCHANGED <<ops, mem, stack, depth, barrier, gcscanvalid, stkbar, marked, spans,
                 markrootNext, markrootJobs, toFlush, hand>>

\* From mark 2 to mark termination.  The world stops, and its Ps all help in gcMark.
Terminate(p) ==
  /\ done[p] = "hold" /\ gcBlackenPromptly
  /\ \A q \in Ps : pc[q] = "idle"
  /\ \A g \in Gs : SafePoint(g)
  /\ status' = [g \in Gs |-> IF status[g] \in Ps THEN "runnable" ELSE status[g]]
  /\ gcphase' = "termination" /\ gcBlackenPromptly' = FALSE
  /\ full' = full \cup UNION {gcw[q] : q \in Ps} /\ gcw' = [q \in Ps |-> {}]
  /\ markrootNext' = 0 /\ markrootJobs' = AllJobs /\ nwait' = 0
  /\ gcscandone' = {}
  /\ sema' = Nil /\ done' = [done EXCEPT ![p] = "stopped"]
  /\ pc' = [q \in Ps |-> "roots"]
  /\ UNCHANGED <<ops, mem, stack, depth, barrier, gcscanvalid, stkbar, marked, spans, toFlush, hand>>

-----------------------------------------------------------------------------
\* getfull, in mark termination: a helper that finds nothing waits for work, or until all
\* of them wait.

FindWork(p) ==
  /\ pc[p] = "wait" /\ full # {}
  /\ nwait' = nwait - 1 /\ pc' = [pc EXCEPT ![p] = "pop"]
  /\ UNCHANGED <<ops, mem, gvars, marked, spans, markrootNext, markrootJobs, full, cycle, gcw, hand>>

PopWork(p) ==
  /\ pc[p] = "pop"
  /\ IF full = {}
       THEN nwait' = nwait + 1 /\ pc' = [pc EXCEPT ![p] = "wait"] /\ UNCHANGED <<full, hand>>
       ELSE /\ \E o \in full : full' = full \ {o} /\ hand' = [hand EXCEPT ![p] = o]
            /\ pc' = [pc EXCEPT ![p] = "scan"] /\ UNCHANGED nwait
  /\ UNCHANGED <<ops, mem, gvars, marked, spans, markrootNext, markrootJobs, cycle, gcw>>

NoMoreWork(p) ==
  /\ pc[p] = "wait" /\ nwait = nproc /\ markrootNext >= markrootJobs
  /\ pc' = [pc EXCEPT ![p] = "halt"]
  /\ UNCHANGED <<ops, mem, gvars, marked, spans, work, cycle, gcw, hand>>

\* The end of gcMarkTermination: sweeping begins, and the world is started.
Finish ==
  /\ gcphase = "termination" /\ \A p \in Ps : pc[p] = "halt"
  /\ gcphase' = "off"
  /\ unswept' = InUse(used)
  /\ done' = [p \in Ps |-> IF done[p] = "stopped" THEN "no" ELSE done[p]]
  /\ pc' = [p \in Ps |-> "idle"]
  /\ UNCHANGED <<ops, mem, gvars, marked, sweeping, work, gcBlackenPromptly, sema, toFlush, gcw, hand>>

-----------------------------------------------------------------------------
Mutator(g) ==
  \/ \E p \in Ps : Execute(g, p)
  \/ Leave(g) \/ Move(g) \/ Call(g) \/ ReturnTo(g)
  \/ StoreUp(g) \/ StoreHeap(g) \/ StoreGlobal(g) \/ Shade(g) \/ Malloc(g)
  \/ \E h \in Gs : Send(g, h)

Worker(p) ==
  \/ TakeRoot(p) \/ ScanGlobals(p) \/ \E g \in Gs : ScanStack(p, g) \/ RescanStack(p, g)
  \/ Get(p) \/ Scan(p) \/ StopDrain(p) \/ StopWorker(p)
  \/ FindWork(p) \/ PopWork(p) \/ NoMoreWork(p)

Transition(p) ==
  MarkDone(p) \/ EnterMark2(p) \/ (\E q \in Ps : Flush(p, q)) \/ Flushed(p) \/ Terminate(p)

Next ==
  \/ \E g \in Gs : Mutator(g)
  \/ \E s \in Spans : SweepBegin(s) \/ Sweep(s)
  \/ Start
  \/ \E p \in Ps : StartWorker(p) \/ Worker(p) \/ Preempt(p) \/ Transition(p)
  \/ Finish

Spec == Init /\ [][Next]_vars

-----------------------------------------------------------------------------
\* NothingLost: what a goroutine can reach is never freed: not by a sweep that runs while
\* pointers move between the heap, the globals and stacks that were scanned before (mgc.go,
\* "marks and enqueues", mbarrier.go on stack writes).  And all of it is marked when mark
\* termination has run out of work.
NothingLost ==
  /\ TypeOK
  /\ ReachableFrom(Roots) \subseteq used
  /\ Stopped /\ (\A p \in Ps : pc[p] = "halt") => ReachableFrom(Roots) \subseteq marked

\* While the collector marks, an object that was scanned leads only to objects that are
\* marked, or that a write barrier is about to mark ("the no white to black invariant").
Grey == full \cup (UNION {gcw[p] : p \in Ps}) \cup {hand[p] : p \in Ps}
NoBlackToWhite ==
  gcphase # "off" =>
    \A o \in marked \ Grey :
      heap[o] \in marked \cup {Nil} \/ \E g \in Gs : barrier[g].ptr = heap[o]

\* Marking cannot come to rest before its end: when no worker runs and none is about to
\* end mark 1 or mark 2, there is work, for which a worker will be started.  The last
\* worker to stop, or the goroutine that has flushed the caches, sees that it is the last.
MarkingGoesOn ==
  gcphase = "mark" =>
    \/ WorkAvailable
    \/ \E p \in Ps : pc[p] # "idle" \/ done[p] # "no" \/ gcw[p] # {}

\* Nor can mark termination: when all helpers wait in getfull, or have left it, each of them
\* has been counted and no root job is left, so that those who wait leave it too.
HelpersGoOn ==
  gcphase = "termination" /\ (\A p \in Ps : pc[p] \in {"wait", "halt"}) =>
    nwait = nproc /\ markrootNext >= markrootJobs

\* The collector gets to its end, in marking and in mark termination.
NotStuck == MarkingGoesOn /\ HelpersGoOn

\* The runtime does not throw: "work.nwait > work.nproc", "left over markroot jobs", "scan
\* missed a g", "g already has stack barriers", "work.full != 0" and "P has cached GC work
\* at end of mark termination".
NeverThrows ==
  /\ gcphase # "off" => nwait <= nproc
  /\ \A p \in Ps : done[p] = "hold" /\ ~gcBlackenPromptly =>
       markrootNext >= markrootJobs /\ gcscandone = Gs
  /\ \A p \in Ps : pc[p] = "root" /\ gcphase = "mark" => hand[p] \notin stkbar
  /\ (gcphase = "termination" /\ \A p \in Ps : pc[p] = "halt") =>
       /\ full = {} /\ markrootNext >= markrootJobs /\ gcscandone = Gs
       /\ \A p \in Ps : gcw[p] = {}
=============================================================================
