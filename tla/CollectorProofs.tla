--------------------------- MODULE CollectorProofs ---------------------------
(***************************************************************************)
(* What MCCollector checks for two objects, two goroutines and two Ps,     *)
(* proved for any objects, spans and goroutines and any finite set of Ps:  *)
(* the collector frees nothing that can be reached, whatever the           *)
(* goroutines do meanwhile.                                                *)
(***************************************************************************)
EXTENDS Collector, TLAPS, FiniteSetTheorems

\* What a P may be doing in each phase; in mark termination no goroutine runs.
Phases ==
  /\ gcphase = "off" => \A p \in Ps : pc[p] = "idle"
  /\ gcphase = "mark" => \A p \in Ps :
       /\ pc[p] \in {"idle", "roots", "root", "heap", "scan", "exit", "leave"}
       /\ done[p] # "no" => pc[p] = "idle"
  /\ gcphase = "termination" =>
       /\ \A p \in Ps : pc[p] \in {"roots", "root", "heap", "scan", "wait", "pop", "halt"}
       /\ \A g \in Gs : status[g] \notin Ps
  /\ gcphase # "off" => unswept = {} /\ sweeping = {}
  /\ unswept \cap sweeping = {}
  /\ gcBlackenPromptly => gcphase = "mark"

\* A goroutine in a write barrier runs, and has dequeued the receiver it will ready.
Barriers ==
  /\ \A g \in Gs : barrier[g] # NoBarrier => status[g] \in Ps /\ gcphase = "mark"
  /\ \A g \in Gs : barrier[g].wakes # 0 =>
       /\ status[barrier[g].wakes] = "waiting"
       /\ \A k \in Gs : barrier[k].wakes = barrier[g].wakes => k = g
  /\ \A g \in gcscanvalid : status[g] \notin Ps

\* The Ps whose worker is counted in nwait as not waiting.
Busy == IF gcphase = "mark" THEN {p \in Ps : pc[p] # "idle" \/ done[p] = "flush"}
                            ELSE {p \in Ps : pc[p] \notin {"wait", "halt"}}
Counted == gcphase # "off" => nwait + Cardinality(Busy) = nproc

\* One worker at a time is about to end mark 1 or mark 2, when nobody is busy.
Ending ==
  /\ \A p \in Ps : done[p] \in {"hold", "flush"} => gcphase = "mark"
  /\ \A p \in Ps : done[p] = "hold" => sema = p
  /\ \A p \in Ps : done[p] = "flush" => gcBlackenPromptly
  /\ \A p \in Ps : done[p] = "hold" =>
       /\ gcBlackenPromptly => \A q \in Ps : done[q] # "flush"
       /\ ~gcBlackenPromptly => markrootNext >= markrootJobs /\ \A q \in Ps : pc[q] # "root"

\* The root jobs are given out one after the other, once each.
JobDone(j) == j < markrootNext /\ \A p \in Ps : pc[p] = "root" => hand[p] # j
Jobs ==
  /\ markrootNext <= markrootJobs
  /\ gcphase # "off" => markrootJobs = IF gcBlackenPromptly THEN 1 ELSE AllJobs
  /\ \A p \in Ps : pc[p] = "root" => hand[p] < markrootNext
  /\ \A p, q \in Ps : pc[p] = "root" /\ pc[q] = "root" /\ hand[p] = hand[q] => p = q
  /\ gcphase = "termination" =>
       \A p \in Ps : pc[p] \in {"roots", "root"} \/ markrootNext >= markrootJobs
  /\ gcphase # "off" /\ ~gcBlackenPromptly => \A g \in Gs : JobDone(g) => g \in gcscandone
  /\ gcphase = "mark" /\ ~gcBlackenPromptly => \A g \in stkbar : JobDone(g)

\* The objects that are queued or being scanned.
Queue == full \cup (UNION {gcw[p] : p \in Ps}) \cup {hand[p] : p \in {q \in Ps : pc[q] = "scan"}}
Queued ==
  /\ \A p \in Ps : pc[p] = "scan" => hand[p] # Nil
  /\ gcphase = "off" => Queue = {}
  /\ gcphase # "off" => Queue \subseteq marked
  /\ \A p \in Ps : pc[p] \in {"wait", "pop", "halt"} => gcw[p] = {}
  /\ gcphase = "termination" /\ full # {} => \E p \in Ps : pc[p] \notin {"wait", "halt"}

\* What is allocated and not about to be swept: all that goroutines can get at.
Safe == used \ Garbage(unswept \cup sweeping)
SafePtr(v) == v \in Safe \cup {Nil}
Memory ==
  /\ SafePtr(global)
  /\ \A g \in Gs : SafePtr(barrier[g].ptr) /\ \A k \in 1 .. depth[g] : SafePtr(stack[g][k])
  /\ \A o \in Safe : SafePtr(heap[o])
  /\ gcphase # "off" => marked \subseteq used
  /\ gcphase = "off" => \A o \in marked : SpanOf[o] \in unswept \cup sweeping

\* What is marked, or will be by a write barrier.
Shaded(v) == v \in marked \cup {Nil} \/ \E g \in Gs : barrier[g].ptr = v
Tricolor == gcphase # "off" => \A o \in marked \ Queue : Shaded(heap[o])

\* What a scan of a stack has seen, and need not look at again.
Stacks ==
  /\ gcphase = "off" => stkbar = {}
  /\ gcphase # "off" => \A g \in stkbar : depth[g] = 2 /\ Shaded(stack[g][1])
  /\ gcphase # "off" => \A g \in gcscanvalid : \A k \in 1 .. depth[g] : Shaded(stack[g][k])

\* In mark termination nothing changes the roots, once they have been scanned.
Rescans == gcphase = "termination" =>
  /\ JobDone(0) => global \in marked \cup {Nil}
  /\ \A g \in Gs : JobDone(g) =>
       g \notin stkbar /\ \A k \in 1 .. depth[g] : stack[g][k] \in marked \cup {Nil}

IInv ==
  /\ TypeOK /\ Phases /\ Barriers /\ Counted /\ Ending /\ Jobs /\ Queued
  /\ Memory /\ Tricolor /\ Stacks /\ Rescans /\ MarkingGoesOn

-----------------------------------------------------------------------------
\* The next step as one of its actions; the lemmas about steps split on it.
LEMMA Steps ==
  ASSUME [Next]_vars
  PROVE  \/ UNCHANGED vars \/ Start \/ Finish
         \/ \E g \in Gs, p \in Ps : Execute(g, p)
         \/ \E g \in Gs : \/ Leave(g) \/ Move(g) \/ Call(g) \/ ReturnTo(g)
                          \/ StoreUp(g) \/ StoreHeap(g) \/ StoreGlobal(g)
                          \/ Shade(g) \/ Malloc(g)
         \/ \E g \in Gs, h \in Gs : Send(g, h)
         \/ \E s \in Spans : SweepBegin(s) \/ Sweep(s)
         \/ \E p \in Ps : \/ StartWorker(p) \/ TakeRoot(p) \/ ScanGlobals(p)
                          \/ Get(p) \/ Scan(p) \/ Preempt(p) \/ StopDrain(p)
         \/ \E p \in Ps : \/ StopWorker(p) \/ FindWork(p) \/ PopWork(p) \/ NoMoreWork(p)
                          \/ MarkDone(p) \/ EnterMark2(p) \/ Flushed(p) \/ Terminate(p)
         \/ \E p \in Ps, g \in Gs : ScanStack(p, g) \/ RescanStack(p, g)
         \/ \E p \in Ps, q \in Ps : Flush(p, q)
  BY DEF Next, Mutator, Worker, Transition

\* What a goroutine does leaves the workers and the phases alone.
LEMMA Mutations ==
  ASSUME \/ \E g \in Gs, p \in Ps : Execute(g, p)
         \/ \E g \in Gs : \/ Leave(g) \/ Move(g) \/ Call(g) \/ ReturnTo(g)
                          \/ StoreUp(g) \/ StoreHeap(g) \/ StoreGlobal(g)
                          \/ Shade(g) \/ Malloc(g)
         \/ \E g \in Gs, h \in Gs : Send(g, h)
         \/ \E s \in Spans : SweepBegin(s) \/ Sweep(s)
  PROVE  UNCHANGED <<cycle, pc, hand, markrootNext, markrootJobs, nwait>>
BY DEF Execute, Leave, Move, Call, ReturnTo, StoreUp, StoreHeap, StoreGlobal, Shade, Malloc,
       Send, SweepBegin, Sweep, mem, gvars, spans, work, cycle, drain

\* A phase begins with Start and ends with Finish.
LEMMA PhaseChanges ==
  ASSUME IInv, [Next]_vars
  PROVE  /\ gcphase = "off" /\ gcphase' # "off" => Start
         /\ gcphase # "off" /\ gcphase' = "off" => Finish
         /\ gcphase = "mark" /\ gcphase' = "termination" => \E p \in Ps : Terminate(p)
         /\ gcphase' \in {"off", "mark", "termination"}
<1>. USE DEF mem, gvars, spans, work, cycle, drain
<1>1. gcphase \in {"off", "mark", "termination"}
  BY DEF IInv, TypeOK
<1>2. ASSUME NEW p \in Ps, Terminate(p) PROVE gcphase # "off" /\ gcphase' = "termination"
  BY <1>2 DEF Terminate, IInv, Phases
<1>3. \/ Start /\ gcphase = "off" /\ gcphase' = "mark"
      \/ Finish /\ gcphase = "termination" /\ gcphase' = "off"
      \/ \E p \in Ps : Terminate(p)
      \/ UNCHANGED gcphase
  <2>1. CASE UNCHANGED vars
    BY <2>1 DEF vars
  <2>2. CASE Start \/ Finish
    BY <2>2 DEF Start, Finish
  <2>3. ASSUME NEW p \in Ps, \/ StartWorker(p) \/ TakeRoot(p) \/ ScanGlobals(p)
                             \/ Get(p) \/ Scan(p) \/ Preempt(p) \/ StopDrain(p)
        PROVE  UNCHANGED gcphase
    BY <2>3 DEF StartWorker, TakeRoot, ScanGlobals, Get, Scan, Preempt, StopDrain
  <2>4. ASSUME NEW p \in Ps, \/ StopWorker(p) \/ FindWork(p) \/ PopWork(p) \/ NoMoreWork(p)
                             \/ MarkDone(p) \/ EnterMark2(p) \/ Flushed(p)
        PROVE  UNCHANGED gcphase
    BY <2>4 DEF StopWorker, FindWork, PopWork, NoMoreWork, MarkDone, EnterMark2, Flushed
  <2>5. ASSUME NEW p \in Ps, NEW g \in Gs, ScanStack(p, g) \/ RescanStack(p, g) PROVE UNCHANGED gcphase
    BY <2>5 DEF ScanStack, RescanStack
  <2>6. ASSUME NEW p \in Ps, NEW q \in Ps, Flush(p, q) PROVE UNCHANGED gcphase
    BY <2>6 DEF Flush
  <2>. QED BY <2>1, <2>2, <2>3, <2>4, <2>5, <2>6, Steps, Mutations
<1>. QED BY <1>1, <1>2, <1>3

LEMMA CountOne ==
  ASSUME IsFiniteSet(Ps), NEW S \in SUBSET Ps, NEW p \in Ps
  PROVE  /\ IsFiniteSet(S) /\ Cardinality(S) \in Nat /\ Cardinality(S) <= Cardinality(Ps)
         /\ Cardinality(Ps) \in Nat \ {0}
         /\ p \notin S => /\ Cardinality(S \cup {p}) = Cardinality(S) + 1
                          /\ Cardinality(S) < Cardinality(Ps)
         /\ p \in S => Cardinality(S \ {p}) = Cardinality(S) - 1 /\ Cardinality(S) > 0
<1>1. IsFiniteSet(S) /\ Cardinality(S) <= Cardinality(Ps)
  BY FS_Subset
<1>2. Cardinality(S) \in Nat /\ Cardinality(Ps) \in Nat
  BY <1>1, FS_CardinalityType
<1>3. Cardinality(Ps) # 0
  BY FS_EmptySet
<1>4. ASSUME p \notin S
      PROVE  Cardinality(S \cup {p}) = Cardinality(S) + 1 /\ Cardinality(S) < Cardinality(Ps)
  <2>1. Cardinality(S \cup {p}) = Cardinality(S) + 1
    BY <1>1, <1>4, FS_AddElement
  <2>2. Cardinality(S \cup {p}) <= Cardinality(Ps)
    BY FS_Subset
  <2>. QED BY <1>2, <2>1, <2>2
<1>5. ASSUME p \in S PROVE Cardinality(S \ {p}) = Cardinality(S) - 1 /\ Cardinality(S) > 0
  <2>1. Cardinality(S \ {p}) = Cardinality(S) - 1
    BY <1>1, <1>5, FS_RemoveElement
  <2>2. Cardinality(S) # 0
    BY <1>1, <1>5, FS_EmptySet
  <2>. QED BY <1>2, <2>1, <2>2
<1>. QED BY <1>1, <1>2, <1>3, <1>4, <1>5

\* nwait is nproc when nobody is busy, and only then.
LEMMA Idlers ==
  ASSUME IsFiniteSet(Ps), TypeOK, Counted, gcphase # "off"
  PROVE  /\ nproc \in Nat \ {0} /\ nwait <= nproc
         /\ Busy = {} <=> nwait = nproc
         /\ \A p \in Ps \ Busy : nwait > 0
<1>1. Busy \in SUBSET Ps /\ nwait \in Nat /\ nwait + Cardinality(Busy) = nproc
  BY DEF Busy, TypeOK, Counted
<1>2. IsFiniteSet(Busy) /\ Cardinality(Busy) \in Nat /\ Cardinality(Ps) \in Nat
  BY <1>1, FS_Subset, FS_CardinalityType
<1>3. nproc \in Nat \ {0} /\ nproc >= Cardinality(Ps)
  <2>1. PICK p \in Ps : TRUE
    BY SizeAssumption
  <2>2. Cardinality(Ps) # 0
    BY <2>1, FS_EmptySet
  <2>. QED BY <1>2, <2>2 DEF nproc
<1>4. Busy = {} <=> Cardinality(Busy) = 0
  BY <1>2, FS_EmptySet
<1>5. ASSUME NEW p \in Ps \ Busy PROVE nwait > 0
  <2>1. Cardinality(Busy) < Cardinality(Ps)
    BY <1>1, CountOne
  <2>. QED BY <1>1, <1>2, <1>3, <2>1
<1>. QED BY <1>1, <1>2, <1>3, <1>4, <1>5

\* nwait counts the workers that come and go, and who flushes the caches.
LEMMA NextCounted ==
  ASSUME IsFiniteSet(Ps), IInv, [Next]_vars
  PROVE  Counted' /\ nwait' \in Nat
<1>. USE DEF mem, gvars, spans, work, cycle, drain
<1>0. /\ TypeOK /\ Phases /\ Counted /\ Ending
      /\ pc \in [Ps -> {"idle", "roots", "root", "heap", "scan", "exit", "leave", "wait", "pop", "halt"}]
      /\ done \in [Ps -> {"no", "want", "hold", "flush", "stopped"}] /\ nwait \in Nat
  BY DEF IInv, TypeOK
<1>. DEFINE Good == Counted' /\ nwait' \in Nat
<1>1. CASE UNCHANGED <<gcphase, nwait, pc, done>>
  BY <1>0, <1>1 DEF Counted, Busy, nproc
\* p becomes busy, or is no longer.
<1>2. ASSUME NEW p \in Ps, UNCHANGED gcphase,
             \/ UNCHANGED <<nwait, Busy>>
             \/ nwait' = nwait - 1 /\ gcphase # "off" /\ p \notin Busy /\ Busy' = Busy \cup {p}
             \/ nwait' = nwait + 1 /\ gcphase # "off" /\ p \in Busy /\ Busy' = Busy \ {p}
      PROVE  Good
  <2>1. CASE UNCHANGED <<nwait, Busy>>
    BY <1>0, <1>2, <2>1 DEF Counted, nproc
  <2>2. Busy \in SUBSET Ps /\ nproc' = nproc
    BY <1>2 DEF Busy, nproc
  <2>3. PICK B \in SUBSET Ps : B = Busy
    BY <2>2
  <2>4. CASE nwait' = nwait - 1 /\ gcphase # "off" /\ p \notin Busy /\ Busy' = Busy \cup {p}
    <3>1. /\ nwait > 0 /\ nproc \in Nat /\ Cardinality(B) \in Nat
          /\ nwait + Cardinality(B) = nproc /\ Cardinality(Busy') = Cardinality(B) + 1
      BY <1>0, <2>3, <2>4, Idlers, CountOne DEF Counted
    <3>. QED BY <1>0, <2>2, <2>4, <3>1 DEF Counted
  <2>5. CASE nwait' = nwait + 1 /\ gcphase # "off" /\ p \in Busy /\ Busy' = Busy \ {p}
    <3>1. /\ nproc \in Nat /\ Cardinality(B) \in Nat
          /\ nwait + Cardinality(B) = nproc /\ Cardinality(Busy') = Cardinality(B) - 1
      BY <1>0, <2>3, <2>5, Idlers, CountOne DEF Counted
    <3>. QED BY <1>0, <2>2, <2>5, <3>1 DEF Counted
  <2>. QED BY <1>2, <2>1, <2>4, <2>5
<1>3. CASE UNCHANGED vars
  BY <1>1, <1>3 DEF vars
<1>4. CASE Start
  <2>1. gcphase' = "mark" /\ nwait' = Cardinality(Ps) + 1 /\ UNCHANGED <<pc, done>> /\ gcphase = "off"
    BY <1>4 DEF Start
  <2>2. Busy' = {}
    BY <1>0, <2>1 DEF Busy, Phases, Ending
  <2>3. Cardinality(Ps) \in Nat /\ Cardinality({}) = 0
    BY FS_CardinalityType, FS_EmptySet
  <2>. QED BY <2>1, <2>2, <2>3 DEF Counted, nproc
<1>5. CASE Finish
  BY <1>0, <1>5 DEF Finish, Counted
<1>6. ASSUME NEW p \in Ps, UNCHANGED <<gcphase, nwait, done>>, NEW l,
             pc' = [pc EXCEPT ![p] = l], pc[p] \notin {"idle", "wait", "halt"},
             l \notin {"idle", "wait", "halt"}
      PROVE  Good
  <2>1. Busy' = Busy
    BY <1>0, <1>6 DEF Busy
  <2>. QED BY <1>2, <1>6, <2>1
<1>7. ASSUME NEW p \in Ps, TakeRoot(p) \/ ScanGlobals(p) \/ Scan(p) \/ Preempt(p) \/ StopDrain(p)
      PROVE  Good
  BY <1>6, <1>7 DEF TakeRoot, ScanGlobals, Scan, Preempt, StopDrain, RootDone
<1>8. ASSUME NEW p \in Ps, NEW g \in Gs, ScanStack(p, g) \/ RescanStack(p, g) PROVE Good
  BY <1>6, <1>8 DEF ScanStack, RescanStack, RootDone
<1>9. ASSUME NEW p \in Ps, Get(p) PROVE Good
  <2>1. /\ pc[p] = "heap" /\ UNCHANGED <<gcphase, done>>
        /\ \/ \E l \in {"scan", "exit"} : pc' = [pc EXCEPT ![p] = l] /\ UNCHANGED nwait
           \/ Stopped /\ nwait' = nwait + 1 /\ pc' = [pc EXCEPT ![p] = "wait"]
    BY <1>9 DEF Get
  <2>2. CASE \E l \in {"scan", "exit"} : pc' = [pc EXCEPT ![p] = l] /\ UNCHANGED nwait
    BY <1>6, <2>1, <2>2
  <2>3. CASE Stopped /\ nwait' = nwait + 1 /\ pc' = [pc EXCEPT ![p] = "wait"]
    <3>1. p \in Busy /\ Busy' = Busy \ {p} /\ gcphase # "off"
      BY <1>0, <2>1, <2>3 DEF Busy, Stopped
    <3>. QED BY <1>2, <2>1, <2>3, <3>1
  <2>. QED BY <2>1, <2>2, <2>3
<1>10. ASSUME NEW p \in Ps, StartWorker(p) PROVE Good
  <2>1. /\ gcphase = "mark" /\ pc[p] = "idle" /\ done[p] = "no" /\ nwait' = nwait - 1
        /\ pc' = [pc EXCEPT ![p] = "roots"] /\ UNCHANGED <<gcphase, done>>
    BY <1>10 DEF StartWorker, Idle
  <2>2. p \notin Busy /\ Busy' = Busy \cup {p}
    BY <1>0, <2>1 DEF Busy
  <2>. QED BY <1>2, <2>1, <2>2
<1>11. ASSUME NEW p \in Ps, StopWorker(p) PROVE Good
  <2>1. /\ gcphase = "mark" /\ pc[p] = "leave" /\ nwait' = nwait + 1
        /\ pc' = [pc EXCEPT ![p] = "idle"] /\ UNCHANGED gcphase
        /\ \E x \in {"want", "no"} : done' = [done EXCEPT ![p] = x]
    BY <1>0, <1>11 DEF StopWorker, Phases, TypeOK
  <2>2. p \in Busy /\ Busy' = Busy \ {p}
    BY <1>0, <2>1 DEF Busy
  <2>. QED BY <1>2, <2>1, <2>2
<1>12. ASSUME NEW p \in Ps, FindWork(p) PROVE Good
  <2>1. /\ gcphase = "termination" /\ pc[p] = "wait" /\ nwait' = nwait - 1
        /\ pc' = [pc EXCEPT ![p] = "pop"] /\ UNCHANGED gcphase
    BY <1>0, <1>12 DEF FindWork, Phases, TypeOK
  <2>2. p \notin Busy /\ Busy' = Busy \cup {p}
    BY <1>0, <2>1 DEF Busy
  <2>. QED BY <1>2, <2>1, <2>2
<1>13. ASSUME NEW p \in Ps, PopWork(p) PROVE Good
  <2>1. /\ gcphase = "termination" /\ pc[p] = "pop" /\ UNCHANGED <<gcphase, done>>
        /\ \/ nwait' = nwait + 1 /\ pc' = [pc EXCEPT ![p] = "wait"]
           \/ UNCHANGED nwait /\ pc' = [pc EXCEPT ![p] = "scan"]
    BY <1>0, <1>13 DEF PopWork, Phases, TypeOK
  <2>2. CASE nwait' = nwait + 1 /\ pc' = [pc EXCEPT ![p] = "wait"]
    <3>1. p \in Busy /\ Busy' = Busy \ {p}
      BY <1>0, <2>1, <2>2 DEF Busy
    <3>. QED BY <1>2, <2>1, <2>2, <3>1
  <2>3. CASE UNCHANGED nwait /\ pc' = [pc EXCEPT ![p] = "scan"]
    BY <1>6, <2>1, <2>3
  <2>. QED BY <2>1, <2>2, <2>3
<1>14. ASSUME NEW p \in Ps, NoMoreWork(p) PROVE Good
  <2>1. /\ gcphase = "termination" /\ pc[p] = "wait" /\ UNCHANGED <<gcphase, done, nwait>>
        /\ pc' = [pc EXCEPT ![p] = "halt"]
    BY <1>0, <1>14 DEF NoMoreWork, Phases, TypeOK
  <2>2. Busy' = Busy
    BY <1>0, <2>1 DEF Busy
  <2>. QED BY <1>2, <2>1, <2>2
<1>15. ASSUME NEW p \in Ps, MarkDone(p) PROVE Good
  <2>1. /\ done[p] = "want" /\ UNCHANGED <<gcphase, nwait, pc>>
        /\ \E x \in {"hold", "no"} : done' = [done EXCEPT ![p] = x]
    BY <1>15 DEF MarkDone
  <2>2. Busy' = Busy
    BY <1>0, <2>1 DEF Busy
  <2>. QED BY <1>2, <2>1, <2>2
<1>16. ASSUME NEW p \in Ps, EnterMark2(p) PROVE Good
  <2>1. /\ gcphase = "mark" /\ done[p] = "hold" /\ pc[p] = "idle" /\ UNCHANGED <<gcphase, pc>>
        /\ nwait' = nwait - 1 /\ done' = [done EXCEPT ![p] = "flush"]
    BY <1>0, <1>16 DEF EnterMark2, Ending, Phases
  <2>2. p \notin Busy /\ Busy' = Busy \cup {p}
    BY <1>0, <2>1 DEF Busy
  <2>. QED BY <1>2, <2>1, <2>2
<1>17. ASSUME NEW p \in Ps, NEW q \in Ps, Flush(p, q) PROVE Good
  BY <1>1, <1>17 DEF Flush
<1>18. ASSUME NEW p \in Ps, Flushed(p) PROVE Good
  <2>1. /\ gcphase = "mark" /\ done[p] = "flush" /\ pc[p] = "idle" /\ UNCHANGED <<gcphase, pc>>
        /\ nwait' = nwait + 1 /\ \E x \in {"want", "no"} : done' = [done EXCEPT ![p] = x]
    BY <1>0, <1>18 DEF Flushed, Ending, Phases
  <2>2. p \in Busy /\ Busy' = Busy \ {p}
    BY <1>0, <2>1 DEF Busy
  <2>. QED BY <1>2, <2>1, <2>2
<1>19. ASSUME NEW p \in Ps, Terminate(p) PROVE Good
  <2>1. gcphase' = "termination" /\ nwait' = 0 /\ pc' = [q \in Ps |-> "roots"]
    BY <1>19 DEF Terminate
  <2>2. Busy' = Ps
    BY <2>1 DEF Busy
  <2>3. Cardinality(Ps) \in Nat
    BY FS_CardinalityType
  <2>. QED BY <2>1, <2>2, <2>3 DEF Counted, nproc
<1>. QED
  BY <1>1, <1>3, <1>4, <1>5, <1>7, <1>8, <1>9, <1>10, <1>11, <1>12, <1>13, <1>14, <1>15,
     <1>16, <1>17, <1>18, <1>19, Mutations, Steps

\* A store and the write barrier it may need.
LEMMA Stored ==
  ASSUME TypeOK, NEW g \in Gs, NEW v \in Ptr, NEW h \in 0 .. NG, Barriered(g, v, h)
  PROVE  /\ barrier' \in [Gs -> [ptr : Ptr, wakes : 0 .. NG]]
         /\ status' \in [Gs -> {"runnable", "waiting"} \cup Ps]
         /\ gcphase = "mark" =>
              /\ barrier'[g] = [ptr |-> v, wakes |-> h] /\ UNCHANGED status
              /\ \A k \in Gs : k # g => barrier'[k] = barrier[k]
         /\ gcphase # "mark" =>
              /\ UNCHANGED barrier
              /\ h = 0 => UNCHANGED status
              /\ \A k \in Gs : status'[k] = status[k] \/ (k = h /\ status'[k] = "runnable")
<1>1. /\ barrier \in [Gs -> [ptr : Ptr, wakes : 0 .. NG]]
      /\ status \in [Gs -> {"runnable", "waiting"} \cup Ps]
      /\ [ptr |-> v, wakes |-> h] \in [ptr : Ptr, wakes : 0 .. NG]
  BY DEF TypeOK
<1>2. CASE gcphase = "mark"
  <2>1. barrier' = [barrier EXCEPT ![g] = [ptr |-> v, wakes |-> h]] /\ UNCHANGED status
    BY <1>2 DEF Barriered
  <2>. QED BY <1>1, <1>2, <2>1
<1>3. CASE gcphase # "mark"
  <2>1. /\ UNCHANGED barrier
        /\ status' = IF h = 0 THEN status ELSE [status EXCEPT ![h] = "runnable"]
    BY <1>3 DEF Barriered
  <2>2. status' \in [Gs -> {"runnable", "waiting"} \cup Ps]
    BY <1>1, <2>1
  <2>3. \A k \in Gs : status'[k] = status[k] \/ (k = h /\ status'[k] = "runnable")
    BY <1>1, <2>1
  <2>. QED BY <1>1, <1>3, <2>1, <2>2, <2>3
<1>. QED BY <1>2, <1>3

LEMMA NextTypeOK ==
  ASSUME IsFiniteSet(Ps), IInv, [Next]_vars
  PROVE  TypeOK'
<1>. USE DEF mem, gvars, spans, work, cycle, drain
<1>0. TypeOK /\ Phases /\ Barriers /\ Counted /\ Ending /\ Jobs /\ Queued
  BY DEF IInv
<1>1. /\ NG \in Nat \ {0} /\ Gs = 1 .. NG /\ AllJobs \in Nat /\ AllJobs = 1 + NG
      /\ 0 \in 0 .. NG /\ Gs \subseteq 0 .. NG /\ Nil \in Ptr /\ Objs \subseteq Ptr
      /\ Spans = {SpanOf[o] : o \in Objs}
  BY SizeAssumption DEF Gs, AllJobs, Ptr, Spans
<1>2. /\ ops \in 0 .. MaxOps
      /\ heap \in [Objs -> Ptr] /\ used \subseteq Objs /\ global \in Ptr
      /\ stack \in [Gs -> [1 .. 2 -> Ptr]] /\ depth \in [Gs -> 1 .. 2]
      /\ status \in [Gs -> {"runnable", "waiting"} \cup Ps]
      /\ barrier \in [Gs -> [ptr : Ptr, wakes : 0 .. NG]]
      /\ gcscanvalid \subseteq Gs /\ gcscandone \subseteq Gs /\ stkbar \subseteq Gs
      /\ marked \subseteq Objs /\ unswept \subseteq Spans /\ sweeping \subseteq Spans
      /\ full \subseteq Objs /\ gcw \in [Ps -> SUBSET Objs]
      /\ pc \in [Ps -> {"idle", "roots", "root", "heap", "scan", "exit", "leave", "wait", "pop", "halt"}]
      /\ hand \in [Ps -> Ptr \cup 0 .. NG]
      /\ \A p \in Ps : hand[p] \in (IF pc[p] = "root" THEN 0 .. NG ELSE Ptr)
  BY <1>0 DEF TypeOK
<1>3. nwait' \in Nat
  BY NextCounted
\* The slot of a goroutine's last frame, and what it may hold.
<1>4. /\ \A g \in Gs : depth[g] \in 1 .. 2 /\ stack[g] \in [1 .. 2 -> Ptr]
      /\ \A g \in Gs : \A k \in 1 .. 2 : stack[g][k] \in Ptr
      /\ \A g \in Gs : Held(g) \subseteq Objs
      /\ \A S : S \subseteq Ptr => New(S) \subseteq Objs
      /\ \A g \in Gs, v \in Ptr : \A k \in 1 .. 2 :
           [stack EXCEPT ![g][k] = v] \in [Gs -> [1 .. 2 -> Ptr]]
  <2>1. /\ \A g \in Gs : depth[g] \in 1 .. 2 /\ stack[g] \in [1 .. 2 -> Ptr]
        /\ \A g \in Gs : \A k \in 1 .. 2 : stack[g][k] \in Ptr
    BY <1>2
  <2>2. \A g \in Gs : Held(g) \subseteq Objs
    BY <2>1 DEF Held, Ptr
  <2>3. \A S : S \subseteq Ptr => New(S) \subseteq Objs
    BY DEF New, Ptr
  <2>4. \A g \in Gs, v \in Ptr : \A k \in 1 .. 2 :
           [stack EXCEPT ![g][k] = v] \in [Gs -> [1 .. 2 -> Ptr]]
    BY <1>2
  <2>. QED BY <2>1, <2>2, <2>3, <2>4
<1>5. CASE UNCHANGED vars
  BY <1>0, <1>5 DEF vars, TypeOK
<1>6. CASE Start
  BY <1>0, <1>1, <1>2, <1>3, <1>6 DEF Start, TypeOK
<1>7. CASE Finish
  <2>1. /\ gcphase' = "off" /\ unswept' = InUse(used) /\ pc' = [p \in Ps |-> "idle"]
        /\ done' = [p \in Ps |-> IF done[p] = "stopped" THEN "no" ELSE done[p]]
        /\ \A p \in Ps : pc[p] = "halt"
        /\ UNCHANGED <<ops, mem, gvars, marked, sweeping, work, gcBlackenPromptly, sema, toFlush, gcw, hand>>
    BY <1>7 DEF Finish
  <2>2. unswept' \subseteq Spans
    BY <1>1, <1>2, <2>1 DEF InUse
  <2>. QED BY <1>0, <1>3, <2>1, <2>2 DEF TypeOK
<1>8. ASSUME NEW g \in Gs, NEW p \in Ps, Execute(g, p) PROVE TypeOK'
  BY <1>0, <1>8 DEF Execute, TypeOK
<1>9. ASSUME UNCHANGED <<marked, spans, work, cycle, drain>>, ops' \in 0 .. MaxOps,
             heap' \in [Objs -> Ptr], used' \subseteq Objs, global' \in Ptr,
             stack' \in [Gs -> [1 .. 2 -> Ptr]], depth' \in [Gs -> 1 .. 2],
             status' \in [Gs -> {"runnable", "waiting"} \cup Ps],
             barrier' \in [Gs -> [ptr : Ptr, wakes : 0 .. NG]],
             gcscanvalid' \subseteq Gs, gcscandone' \subseteq Gs, stkbar' \subseteq Gs
      PROVE  TypeOK'
  BY <1>0, <1>9 DEF TypeOK
<1>10. ASSUME NEW g \in Gs, Does(g) PROVE ops' \in 0 .. MaxOps
  <2>1. ops' = ops + 1 /\ ops < MaxOps /\ ops \in 0 .. MaxOps
    BY <1>0, <1>10 DEF Does, TypeOK
  <2>. QED BY <2>1, SizeAssumption
<1>11. ASSUME NEW g \in Gs, Leave(g) PROVE TypeOK'
  <2>1. status' \in [Gs -> {"runnable", "waiting"} \cup Ps]
    BY <1>2, <1>11 DEF Leave
  <2>. QED BY <1>2, <1>9, <1>11, <2>1 DEF Leave
<1>12. ASSUME NEW g \in Gs, Move(g) PROVE TypeOK'
  <2>1. \A v \in {Nil, global} \cup {stack[g][1]} \cup {heap[o] : o \in Held(g)} : v \in Ptr
    BY <1>1, <1>2, <1>4
  <2>2. stack' \in [Gs -> [1 .. 2 -> Ptr]]
    BY <1>4, <1>12, <2>1 DEF Move
  <2>. QED BY <1>2, <1>9, <1>10, <1>12, <2>2 DEF Move
<1>13. ASSUME NEW g \in Gs, Call(g) PROVE TypeOK'
  <2>1. stack' \in [Gs -> [1 .. 2 -> Ptr]] /\ depth' \in [Gs -> 1 .. 2]
    BY <1>2, <1>4, <1>13 DEF Call
  <2>. QED BY <1>2, <1>9, <1>10, <1>13, <2>1 DEF Call
<1>14. ASSUME NEW g \in Gs, ReturnTo(g) PROVE TypeOK'
  <2>1. stack' \in [Gs -> [1 .. 2 -> Ptr]] /\ depth' \in [Gs -> 1 .. 2]
    BY <1>1, <1>2, <1>4, <1>14 DEF ReturnTo
  <2>. QED BY <1>2, <1>9, <1>10, <1>14, <2>1 DEF ReturnTo
<1>15. ASSUME NEW g \in Gs, StoreUp(g) PROVE TypeOK'
  <2>1. stack' \in [Gs -> [1 .. 2 -> Ptr]]
    BY <1>4, <1>15 DEF StoreUp
  <2>2. /\ barrier' \in [Gs -> [ptr : Ptr, wakes : 0 .. NG]]
        /\ status' \in [Gs -> {"runnable", "waiting"} \cup Ps]
    BY <1>0, <1>1, <1>4, <1>15, Stored DEF StoreUp
  <2>. QED BY <1>2, <1>9, <1>10, <1>15, <2>1, <2>2 DEF StoreUp
<1>16. ASSUME NEW g \in Gs, StoreHeap(g) PROVE TypeOK'
  <2>1. PICK o \in (Held(g) \cup {global}) \ {Nil}, v \in Held(g) \cup {global, Nil} :
          heap' = [heap EXCEPT ![o] = v] /\ Barriered(g, v, 0)
    BY <1>16 DEF StoreHeap
  <2>2. v \in Ptr
    BY <1>1, <1>2, <1>4
  <2>3. /\ barrier' \in [Gs -> [ptr : Ptr, wakes : 0 .. NG]]
        /\ status' \in [Gs -> {"runnable", "waiting"} \cup Ps]
    BY <1>0, <1>1, <2>1, <2>2, Stored
  <2>4. heap' \in [Objs -> Ptr]
    BY <1>2, <2>1, <2>2
  <2>. QED BY <1>2, <1>9, <1>10, <1>16, <2>3, <2>4 DEF StoreHeap
<1>17. ASSUME NEW g \in Gs, StoreGlobal(g) PROVE TypeOK'
  <2>1. global' \in Ptr
    BY <1>1, <1>4, <1>17 DEF StoreGlobal
  <2>. QED BY <1>2, <1>9, <1>10, <1>17, <2>1 DEF StoreGlobal
<1>18. ASSUME NEW g \in Gs, NEW h \in Gs, Send(g, h) PROVE TypeOK'
  <2>1. stack[g][depth[g]] \in Ptr /\ h \in 0 .. NG
    BY <1>1, <1>4
  <2>2. stack' \in [Gs -> [1 .. 2 -> Ptr]]
    BY <1>4, <1>18, <2>1 DEF Send
  <2>3. /\ barrier' \in [Gs -> [ptr : Ptr, wakes : 0 .. NG]]
        /\ status' \in [Gs -> {"runnable", "waiting"} \cup Ps]
    BY <1>0, <1>18, <2>1, Stored DEF Send
  <2>. QED BY <1>2, <1>9, <1>10, <1>18, <2>2, <2>3 DEF Send
<1>19. ASSUME NEW g \in Gs, Shade(g) PROVE TypeOK'
  <2>1. PICK p \in Ps : p = status[g]
    BY <1>0, <1>19 DEF Shade, Barriers
  <2>2. PICK new \in SUBSET Objs : new = New({barrier[g].ptr})
    BY <1>2, <1>4
  <2>3. /\ marked' = marked \cup new
        /\ \/ full' = full \cup gcw[p] \cup new /\ gcw' = [gcw EXCEPT ![p] = {}]
           \/ gcw' = [gcw EXCEPT ![p] = @ \cup new] /\ UNCHANGED full
        /\ \/ UNCHANGED status
           \/ status' = [status EXCEPT ![barrier[g].wakes] = "runnable"]
        /\ barrier' = [barrier EXCEPT ![g] = NoBarrier]
        /\ UNCHANGED <<ops, mem, stack, depth, gcscanvalid, gcscandone, stkbar, spans, cycle,
                       markrootNext, markrootJobs, nwait, pc, hand>>
    BY <1>19, <2>1, <2>2 DEF Shade
  <2>4. status' \in [Gs -> {"runnable", "waiting"} \cup Ps]
    BY <1>2, <2>3
  <2>5. barrier' \in [Gs -> [ptr : Ptr, wakes : 0 .. NG]]
    BY <1>1, <1>2, <2>3 DEF NoBarrier
  <2>6. marked' \subseteq Objs /\ full' \subseteq Objs
    BY <1>2, <2>3
  <2>7. gcw' \in [Ps -> SUBSET Objs]
    BY <1>2, <2>3
  <2>. QED BY <1>0, <2>3, <2>4, <2>5, <2>6, <2>7 DEF TypeOK
<1>20. ASSUME NEW g \in Gs, Malloc(g) PROVE TypeOK'
  <2>1. PICK o \in Objs \ used :
          /\ used' = used \cup {o} /\ heap' = [heap EXCEPT ![o] = Nil]
          /\ stack' = [stack EXCEPT ![g][depth[g]] = o]
          /\ marked' = IF gcBlackenPromptly THEN marked \cup {o} ELSE marked
    BY <1>20 DEF Malloc
  <2>2. UNCHANGED <<global, depth, status, barrier, gcscanvalid, gcscandone, stkbar, spans, work, cycle, drain>>
    BY <1>20 DEF Malloc
  <2>3. stack' \in [Gs -> [1 .. 2 -> Ptr]]
    BY <1>1, <1>4, <2>1
  <2>4. heap' \in [Objs -> Ptr] /\ used' \subseteq Objs /\ marked' \subseteq Objs
    BY <1>1, <1>2, <2>1
  <2>5. ops' \in 0 .. MaxOps
    BY <1>10, <1>20 DEF Malloc
  <2>. QED BY <1>0, <2>2, <2>3, <2>4, <2>5 DEF TypeOK
<1>21. ASSUME NEW s \in Spans, SweepBegin(s) \/ Sweep(s) PROVE TypeOK'
  BY <1>0, <1>21 DEF SweepBegin, Sweep, TypeOK
\* The workers.
<1>22. ASSUME UNCHANGED <<ops, mem, stack, depth, status, barrier, spans, cycle, markrootJobs>>,
              gcscanvalid' \subseteq Gs, gcscandone' \subseteq Gs, stkbar' \subseteq Gs,
              marked' \subseteq Objs, full' \subseteq Objs, gcw' \in [Ps -> SUBSET Objs],
              markrootNext' \in 0 .. AllJobs,
              NEW p \in Ps,
              NEW l \in {"idle", "roots", "root", "heap", "scan", "exit", "leave", "wait", "pop", "halt"},
              pc' = [pc EXCEPT ![p] = l],
              \/ UNCHANGED hand /\ l # "root" /\ pc[p] # "root"
              \/ \E x \in IF l = "root" THEN 0 .. NG ELSE Ptr : hand' = [hand EXCEPT ![p] = x]
       PROVE  TypeOK'
  <2>1. pc' \in [Ps -> {"idle", "roots", "root", "heap", "scan", "exit", "leave", "wait", "pop", "halt"}]
    BY <1>2, <1>22
  <2>2. /\ hand' \in [Ps -> Ptr \cup 0 .. NG]
        /\ \A q \in Ps : hand'[q] \in (IF pc'[q] = "root" THEN 0 .. NG ELSE Ptr)
    <3>1. CASE UNCHANGED hand /\ l # "root" /\ pc[p] # "root"
      BY <1>2, <1>22, <3>1
    <3>2. ASSUME NEW x \in IF l = "root" THEN 0 .. NG ELSE Ptr, hand' = [hand EXCEPT ![p] = x]
          PROVE  /\ hand' \in [Ps -> Ptr \cup 0 .. NG]
                 /\ \A q \in Ps : hand'[q] \in (IF pc'[q] = "root" THEN 0 .. NG ELSE Ptr)
      BY <1>2, <1>22, <3>2
    <3>. QED BY <1>22, <3>1, <3>2
  <2>. QED BY <1>0, <1>3, <1>22, <2>1, <2>2 DEF TypeOK
<1>23. markrootNext \in 0 .. AllJobs /\ markrootJobs \in 0 .. AllJobs
  BY <1>0 DEF TypeOK
<1>24. ASSUME NEW p \in Ps, TakeRoot(p) PROVE TypeOK'
  <2>1. CASE markrootNext < markrootJobs
    <3>1. markrootNext' = markrootNext + 1 /\ pc' = [pc EXCEPT ![p] = "root"]
          /\ hand' = [hand EXCEPT ![p] = markrootNext]
          /\ UNCHANGED <<ops, mem, gvars, marked, spans, markrootJobs, nwait, full, cycle, gcw>>
      BY <1>24, <2>1 DEF TakeRoot
    <3>2. markrootNext \in 0 .. NG /\ markrootNext + 1 \in 0 .. AllJobs
      BY <1>1, <1>23, <2>1
    <3>. QED BY <1>2, <1>22, <3>1, <3>2
  <2>2. CASE ~(markrootNext < markrootJobs)
    BY <1>2, <1>22, <1>23, <1>24, <2>2 DEF TakeRoot
  <2>. QED BY <2>1, <2>2
<1>25. ASSUME NEW p \in Ps, ScanGlobals(p) PROVE TypeOK'
  <2>1. New({global}) \subseteq Objs
    BY <1>2, <1>4
  <2>2. marked' \subseteq Objs /\ full' \subseteq Objs
    BY <1>2, <1>25, <2>1 DEF ScanGlobals
  <2>. QED BY <1>1, <1>2, <1>22, <1>23, <1>25, <2>2 DEF ScanGlobals, RootDone
<1>26. ASSUME NEW p \in Ps, NEW g \in Gs, ScanStack(p, g) \/ RescanStack(p, g) PROVE TypeOK'
  <2>1. CASE ScanStack(p, g)
    <3>1. PICK q \in Ps : gcw' = [gcw EXCEPT ![q] = @ \cup New(Held(g))]
      BY <2>1 DEF ScanStack
    <3>2. New(Held(g)) \subseteq Objs /\ Held(g) \subseteq Objs
      BY <1>1, <1>4
    <3>3. gcw' \in [Ps -> SUBSET Objs] /\ marked' \subseteq Objs
      BY <1>2, <2>1, <3>1, <3>2 DEF ScanStack
    <3>. QED BY <1>1, <1>2, <1>22, <1>23, <2>1, <3>3 DEF ScanStack, RootDone
  <2>2. CASE RescanStack(p, g)
    <3>1. New(Rescanned(g)) \subseteq Objs
      BY <1>1, <1>4 DEF Rescanned
    <3>. QED BY <1>1, <1>2, <1>22, <1>23, <2>2, <3>1 DEF RescanStack, RootDone
  <2>. QED BY <1>26, <2>1, <2>2
<1>27. ASSUME NEW p \in Ps, Get(p) PROVE TypeOK'
  <2>1. PICK S \in SUBSET gcw[p] :
           \/ \E o \in gcw[p] \ S :
                /\ hand' = [hand EXCEPT ![p] = o] /\ pc' = [pc EXCEPT ![p] = "scan"]
                /\ gcw' = [gcw EXCEPT ![p] = (gcw[p] \ S) \ {o}] /\ full' = full \cup S
           \/ \E o \in full \cup S :
                /\ hand' = [hand EXCEPT ![p] = o] /\ pc' = [pc EXCEPT ![p] = "scan"]
                /\ gcw' = [gcw EXCEPT ![p] = {}] /\ full' = (full \cup S) \ {o}
           \/ /\ \E l \in {"wait", "exit"} : pc' = [pc EXCEPT ![p] = l]
              /\ UNCHANGED <<gcw, full, hand>>
    BY <1>27 DEF Get
  <2>2. gcw[p] \subseteq Objs /\ S \subseteq Objs /\ pc[p] = "heap"
    BY <1>2, <1>27 DEF Get
  <2>3. full' \subseteq Objs
    BY <1>2, <2>1, <2>2
  <2>4. gcw' \in [Ps -> SUBSET Objs]
    <3>1. \E T \in SUBSET Objs : gcw' = [gcw EXCEPT ![p] = T]
      BY <1>2, <2>1, <2>2
    <3>. QED BY <1>2, <3>1
  <2>5. UNCHANGED <<ops, mem, gvars, marked, spans, markrootNext, markrootJobs, cycle>>
    BY <1>27 DEF Get
  <2>6. \/ \E o \in Objs : hand' = [hand EXCEPT ![p] = o] /\ pc' = [pc EXCEPT ![p] = "scan"]
        \/ UNCHANGED hand /\ \E l \in {"wait", "exit"} : pc' = [pc EXCEPT ![p] = l]
    BY <1>2, <2>1, <2>2
  <2>. QED BY <1>1, <1>2, <1>22, <1>23, <2>2, <2>3, <2>4, <2>5, <2>6
<1>28. ASSUME NEW p \in Ps, Scan(p) PROVE TypeOK'
  <2>1. hand[p] \in Objs
    BY <1>0, <1>2, <1>28 DEF Scan, Queued, Ptr
  <2>2. New({heap[hand[p]]}) \subseteq Objs
    BY <1>2, <1>4, <2>1
  <2>3. marked' \subseteq Objs /\ gcw' \in [Ps -> SUBSET Objs]
    BY <1>2, <1>28, <2>2 DEF Scan
  <2>. QED BY <1>1, <1>2, <1>22, <1>23, <1>28, <2>3 DEF Scan
<1>29. ASSUME NEW p \in Ps, StartWorker(p) \/ Preempt(p) \/ FindWork(p) \/ NoMoreWork(p)
       PROVE  TypeOK'
  BY <1>2, <1>22, <1>23, <1>29 DEF StartWorker, Preempt, FindWork, NoMoreWork, Idle
<1>30. ASSUME NEW p \in Ps, StopDrain(p) PROVE TypeOK'
  <2>1. full' \subseteq Objs /\ gcw' \in [Ps -> SUBSET Objs]
    BY <1>2, <1>30 DEF StopDrain
  <2>. QED BY <1>2, <1>22, <1>23, <1>30, <2>1 DEF StopDrain
<1>31. ASSUME NEW p \in Ps, StopWorker(p) PROVE TypeOK'
  BY <1>0, <1>3, <1>31 DEF StopWorker, TypeOK
<1>32. ASSUME NEW p \in Ps, PopWork(p) PROVE TypeOK'
  BY <1>1, <1>2, <1>22, <1>23, <1>32 DEF PopWork
<1>33. ASSUME NEW p \in Ps, MarkDone(p) \/ Flushed(p) PROVE TypeOK'
  BY <1>0, <1>3, <1>33 DEF MarkDone, Flushed, TypeOK
<1>34. ASSUME NEW p \in Ps, EnterMark2(p) PROVE TypeOK'
  <2>1. 1 \in 0 .. AllJobs /\ 0 \in 0 .. AllJobs
    BY <1>1
  <2>. QED BY <1>0, <1>3, <1>34, <2>1 DEF EnterMark2, TypeOK
<1>35. ASSUME NEW p \in Ps, NEW q \in Ps, Flush(p, q) PROVE TypeOK'
  BY <1>0, <1>35 DEF Flush, TypeOK
<1>36. ASSUME NEW p \in Ps, Terminate(p) PROVE TypeOK'
  <2>1. /\ gcphase' = "termination" /\ gcBlackenPromptly' = FALSE /\ gcscandone' = {}
        /\ full' = full \cup UNION {gcw[q] : q \in Ps} /\ gcw' = [q \in Ps |-> {}]
        /\ markrootNext' = 0 /\ markrootJobs' = AllJobs /\ sema' = Nil
        /\ done' = [done EXCEPT ![p] = "stopped"] /\ pc' = [q \in Ps |-> "roots"]
        /\ \A q \in Ps : pc[q] = "idle"
        /\ UNCHANGED <<ops, mem, stack, depth, barrier, gcscanvalid, stkbar, marked, spans, toFlush, hand>>
    BY <1>36 DEF Terminate
  <2>2. status' = [g \in Gs |-> IF status[g] \in Ps THEN "runnable" ELSE status[g]]
    BY <1>36 DEF Terminate
  <2>3. status' \in [Gs -> {"runnable", "waiting"} \cup Ps]
    BY <1>2, <2>2
  <2>4. full' \subseteq Objs
    BY <1>2, <2>1
  <2>5. 0 \in 0 .. AllJobs /\ AllJobs \in 0 .. AllJobs
    BY <1>1
  <2>. QED BY <1>0, <1>2, <1>3, <2>1, <2>3, <2>4, <2>5 DEF TypeOK
<1>. QED
  BY <1>5, <1>6, <1>7, <1>8, <1>11, <1>12, <1>13, <1>14, <1>15, <1>16, <1>17, <1>18, <1>19,
     <1>20, <1>21, <1>24, <1>25, <1>26, <1>27, <1>28, <1>29, <1>30, <1>31, <1>32, <1>33,
     <1>34, <1>35, <1>36, Steps

\* The phases follow one another, and each P is where its phase has work for it.
LEMMA NextPhases ==
  ASSUME IInv, [Next]_vars
  PROVE  Phases'
<1>. USE DEF mem, gvars, spans, work, cycle, drain
<1>0. /\ TypeOK /\ Phases /\ Barriers /\ Ending
      /\ pc \in [Ps -> {"idle", "roots", "root", "heap", "scan", "exit", "leave", "wait", "pop", "halt"}]
      /\ done \in [Ps -> {"no", "want", "hold", "flush", "stopped"}]
      /\ status \in [Gs -> {"runnable", "waiting"} \cup Ps]
      /\ gcphase \in {"off", "mark", "termination"}
      /\ "runnable" \notin Ps /\ "waiting" \notin Ps
  BY NilAssumption DEF IInv, TypeOK
<1>1. ASSUME UNCHANGED <<gcphase, pc, done, spans, gcBlackenPromptly>>,
             gcphase = "termination" => \A g \in Gs : status'[g] \notin Ps
      PROVE  Phases'
  BY <1>0, <1>1 DEF Phases
<1>2. CASE UNCHANGED vars
  BY <1>0, <1>1, <1>2 DEF vars, Phases
<1>3. CASE Start
  BY <1>0, <1>3 DEF Start, Phases
<1>4. CASE Finish
  BY <1>0, <1>4 DEF Finish, Phases
<1>5. ASSUME NEW g \in Gs, NEW p \in Ps, Execute(g, p) PROVE Phases'
  BY <1>1, <1>5 DEF Execute, Stopped
<1>6. ASSUME NEW g \in Gs, \/ Leave(g) \/ Move(g) \/ Call(g) \/ ReturnTo(g)
                           \/ StoreUp(g) \/ StoreHeap(g) \/ StoreGlobal(g)
                           \/ Shade(g) \/ Malloc(g)
      PROVE  Phases'
  <2>1. gcphase # "termination"
    BY <1>0, <1>6 DEF Phases, Barriers, Leave, Move, Call, ReturnTo, StoreUp, StoreHeap, StoreGlobal,
       Shade, Malloc, Does, Running
  <2>2. UNCHANGED <<gcphase, pc, done, spans, gcBlackenPromptly>>
    BY <1>6 DEF Leave, Move, Call, ReturnTo, StoreUp, StoreHeap, StoreGlobal, Shade, Malloc
  <2>. QED BY <1>1, <2>1, <2>2
<1>7. ASSUME NEW g \in Gs, NEW h \in Gs, Send(g, h) PROVE Phases'
  <2>1. gcphase # "termination"
    BY <1>0, <1>7 DEF Phases, Send, Does, Running
  <2>. QED BY <1>1, <1>7, <2>1 DEF Send
<1>8. ASSUME NEW s \in Spans, SweepBegin(s) \/ Sweep(s) PROVE Phases'
  BY <1>0, <1>8 DEF SweepBegin, Sweep, Phases
<1>9. ASSUME NEW p \in Ps, UNCHANGED <<gcphase, done, spans, gcBlackenPromptly, status>>,
             NEW l, pc' = [pc EXCEPT ![p] = l],
             gcphase = "mark" => l \in {"roots", "root", "heap", "scan", "exit", "leave"} /\ done[p] = "no",
             gcphase = "termination" => l \in {"roots", "root", "heap", "scan", "wait", "pop", "halt"},
             gcphase # "off"
      PROVE  Phases'
  BY <1>0, <1>9 DEF Phases
<1>10. ASSUME NEW p \in Ps, pc[p] # "idle"
       PROVE  gcphase # "off" /\ (gcphase = "mark" => done[p] = "no")
  BY <1>0, <1>10 DEF Phases
<1>11. ASSUME NEW p \in Ps, \/ StartWorker(p) \/ TakeRoot(p) \/ ScanGlobals(p)
                            \/ Get(p) \/ Scan(p) \/ Preempt(p) \/ StopDrain(p)
       PROVE  Phases'
  <2>1. CASE StartWorker(p)
    BY <1>9, <2>1 DEF StartWorker
  <2>2. CASE TakeRoot(p)
    BY <1>9, <1>10, <2>2 DEF TakeRoot
  <2>3. CASE ScanGlobals(p) \/ Scan(p)
    BY <1>9, <1>10, <2>3 DEF ScanGlobals, Scan, RootDone
  <2>4. CASE Get(p)
    <3>1. /\ pc[p] = "heap" /\ UNCHANGED <<gcphase, done, spans, gcBlackenPromptly, status>>
          /\ \E l \in {"scan", "wait", "exit"} : /\ pc' = [pc EXCEPT ![p] = l]
                                                 /\ l = "wait" => gcphase = "termination"
                                                 /\ l = "exit" => gcphase # "termination"
      BY <2>4 DEF Get, Stopped
    <3>. QED BY <1>9, <1>10, <3>1
  <2>5. CASE Preempt(p)
    BY <1>9, <1>10, <2>5 DEF Preempt
  <2>6. CASE StopDrain(p)
    BY <1>0, <1>9, <1>10, <2>6 DEF StopDrain, Phases
  <2>. QED BY <1>11, <2>1, <2>2, <2>3, <2>4, <2>5, <2>6
<1>12. ASSUME NEW p \in Ps, NEW g \in Gs, ScanStack(p, g) \/ RescanStack(p, g) PROVE Phases'
  BY <1>9, <1>10, <1>12 DEF ScanStack, RescanStack, RootDone
<1>13. ASSUME NEW p \in Ps, FindWork(p) \/ PopWork(p) \/ NoMoreWork(p) PROVE Phases'
  <2>1. gcphase = "termination"
    BY <1>0, <1>13 DEF Phases, FindWork, PopWork, NoMoreWork
  <2>2. /\ UNCHANGED <<gcphase, done, spans, gcBlackenPromptly, status>>
        /\ \E l \in {"scan", "wait", "pop", "halt"} : pc' = [pc EXCEPT ![p] = l]
    BY <1>13 DEF FindWork, PopWork, NoMoreWork
  <2>. QED BY <1>9, <2>1, <2>2
<1>14. ASSUME NEW p \in Ps, StopWorker(p) PROVE Phases'
  <2>1. /\ gcphase = "mark" /\ pc' = [pc EXCEPT ![p] = "idle"]
        /\ \E x \in {"want", "no"} : done' = [done EXCEPT ![p] = x]
        /\ UNCHANGED <<gcphase, spans, gcBlackenPromptly, status>>
    BY <1>0, <1>14 DEF StopWorker, Phases
  <2>. QED BY <1>0, <2>1 DEF Phases
<1>15. ASSUME NEW p \in Ps, MarkDone(p) \/ Flushed(p) PROVE Phases'
  <2>1. /\ done[p] # "no" /\ \E x \in {"want", "no", "hold"} : done' = [done EXCEPT ![p] = x]
        /\ UNCHANGED <<gcphase, pc, spans, gcBlackenPromptly, status>>
    BY <1>15 DEF MarkDone, Flushed
  <2>. QED BY <1>0, <2>1 DEF Phases
<1>16. ASSUME NEW p \in Ps, EnterMark2(p) PROVE Phases'
  <2>1. /\ done[p] = "hold" /\ done' = [done EXCEPT ![p] = "flush"] /\ gcphase = "mark"
        /\ UNCHANGED <<gcphase, pc, spans, status>>
    BY <1>0, <1>16 DEF EnterMark2, Ending
  <2>. QED BY <1>0, <2>1 DEF Phases
<1>17. ASSUME NEW p \in Ps, NEW q \in Ps, Flush(p, q) PROVE Phases'
  BY <1>0, <1>1, <1>17 DEF Flush, Phases
<1>18. ASSUME NEW p \in Ps, Terminate(p) PROVE Phases'
  <2>1. /\ gcphase' = "termination" /\ gcBlackenPromptly' = FALSE
        /\ pc' = [q \in Ps |-> "roots"] /\ UNCHANGED spans
        /\ status' = [g \in Gs |-> IF status[g] \in Ps THEN "runnable" ELSE status[g]]
        /\ gcphase = "mark"
    BY <1>0, <1>18 DEF Terminate, Ending
  <2>. QED BY <1>0, <2>1 DEF Phases
<1>. QED
  BY <1>2, <1>3, <1>4, <1>5, <1>6, <1>7, <1>8, <1>11, <1>12, <1>13, <1>14, <1>15, <1>16,
     <1>17, <1>18, Steps

\* A goroutine stays where it is until its write barrier is done, and a receiver waits
\* until its sender readies it.
LEMMA NextBarriers ==
  ASSUME IInv, [Next]_vars
  PROVE  Barriers'
<1>. USE DEF mem, gvars, spans, work, cycle, drain
<1>a. 0 \in 0 .. NG /\ Gs = 1 .. NG /\ NG \in Nat \ {0}
  BY SizeAssumption DEF Gs
<1>b. /\ Nil \in Ptr /\ "runnable" \notin Ps /\ "waiting" \notin Ps
      /\ NoBarrier.ptr = Nil /\ NoBarrier.wakes = 0
  BY NilAssumption DEF NoBarrier, Ptr
<1>0. /\ TypeOK /\ Phases /\ Barriers
      /\ status \in [Gs -> {"runnable", "waiting"} \cup Ps]
      /\ barrier \in [Gs -> [ptr : Ptr, wakes : 0 .. NG]]
      /\ gcscanvalid \subseteq Gs /\ Nil \in Ptr /\ 0 \in 0 .. NG
      /\ "runnable" \notin Ps /\ "waiting" \notin Ps
      /\ NoBarrier.ptr = Nil /\ NoBarrier.wakes = 0
      /\ Gs = 1 .. NG /\ NG \in Nat \ {0}
  BY <1>a, <1>b DEF IInv, TypeOK
<1>1. CASE UNCHANGED <<gcphase, status, barrier, gcscanvalid>>
  BY <1>0, <1>1 DEF Barriers
<1>2. CASE UNCHANGED vars
  BY <1>1, <1>2 DEF vars
<1>3. CASE Start
  BY <1>0, <1>3 DEF Start, SafePoint, Barriers
<1>4. CASE Finish
  <2>1. \A g \in Gs : barrier[g] = NoBarrier
    BY <1>0, <1>4 DEF Finish, Barriers
  <2>. QED BY <1>0, <1>4, <2>1 DEF Finish, Barriers
<1>5. ASSUME NEW g \in Gs, NEW p \in Ps, Execute(g, p) PROVE Barriers'
  <2>1. /\ status[g] = "runnable" /\ status' = [status EXCEPT ![g] = p]
        /\ gcscanvalid' = gcscanvalid \ {g} /\ UNCHANGED <<gcphase, barrier>>
    BY <1>5 DEF Execute
  <2>. QED BY <1>0, <2>1 DEF Barriers
<1>6. ASSUME NEW g \in Gs, Leave(g) PROVE Barriers'
  <2>1. /\ status[g] \in Ps /\ barrier[g] = NoBarrier
        /\ \E s \in {"runnable", "waiting"} : status' = [status EXCEPT ![g] = s]
        /\ UNCHANGED <<gcphase, barrier, gcscanvalid>>
    BY <1>6 DEF Leave, Running
  <2>. QED BY <1>0, <2>1 DEF Barriers
\* A store by g, which readies h if h # 0.
<1>7. ASSUME NEW g \in Gs, NEW v \in Ptr, NEW h \in 0 .. NG, Barriered(g, v, h), Running(g),
             h # 0 => status[h] = "waiting" /\ \A k \in Gs : barrier[k].wakes # h,
             UNCHANGED <<gcphase, gcscanvalid>>
      PROVE  Barriers'
  <2>1. status[g] \in Ps /\ barrier[g] = NoBarrier
    BY <1>7 DEF Running
  <2>2. CASE gcphase = "mark"
    <3>1. /\ barrier'[g] = [ptr |-> v, wakes |-> h] /\ UNCHANGED status
          /\ \A k \in Gs : k # g => barrier'[k] = barrier[k]
      BY <1>0, <1>7, <2>2, Stored
    <3>2. barrier'[g].wakes = h /\ UNCHANGED <<gcphase, gcscanvalid>>
      BY <1>7, <3>1
    <3>3. \A k \in Gs : barrier'[k] # NoBarrier => status[k] \in Ps
      BY <1>0, <2>1, <3>1 DEF Barriers
    <3>4. \A k \in Gs : barrier'[k].wakes # 0 =>
            /\ status[barrier'[k].wakes] = "waiting"
            /\ \A j \in Gs : barrier'[j].wakes = barrier'[k].wakes => j = k
      BY <1>0, <1>7, <3>1, <3>2 DEF Barriers
    <3>. QED BY <1>0, <2>2, <3>1, <3>2, <3>3, <3>4 DEF Barriers
  <2>3. CASE gcphase # "mark"
    <3>1. /\ UNCHANGED barrier
          /\ \A k \in Gs : status'[k] = status[k] \/ (k = h /\ status'[k] = "runnable")
      BY <1>0, <1>7, <2>3, Stored
    <3>2. \A k \in Gs : barrier[k] = NoBarrier
      BY <1>0, <2>3 DEF Barriers
    <3>. QED BY <1>0, <1>7, <3>1, <3>2 DEF Barriers
  <2>. QED BY <2>2, <2>3
<1>8. \A g \in Gs : /\ depth[g] \in 1 .. 2 /\ \A k \in 1 .. 2 : stack[g][k] \in Ptr
                    /\ Held(g) \subseteq Ptr
  <2>1. \A g \in Gs : depth[g] \in 1 .. 2 /\ \A k \in 1 .. 2 : stack[g][k] \in Ptr
    BY <1>0 DEF TypeOK
  <2>. QED BY <2>1 DEF Held
<1>9. ASSUME NEW g \in Gs, StoreUp(g) PROVE Barriers'
  BY <1>0, <1>7, <1>8, <1>9 DEF StoreUp, Does
<1>10. ASSUME NEW g \in Gs, StoreHeap(g) PROVE Barriers'
  <2>1. PICK v \in Held(g) \cup {global, Nil} : Barriered(g, v, 0)
    BY <1>10 DEF StoreHeap
  <2>2. v \in Ptr
    BY <1>0, <1>8 DEF TypeOK
  <2>. QED BY <1>0, <1>7, <1>10, <2>1, <2>2 DEF StoreHeap, Does
<1>11. ASSUME NEW g \in Gs, NEW h \in Gs, Send(g, h) PROVE Barriers'
  <2>1. stack[g][depth[g]] \in Ptr /\ h \in 0 .. NG
    BY <1>0, <1>8
  <2>2. PICK v \in Ptr : v = stack[g][depth[g]]
    BY <2>1
  <2>. QED BY <1>7, <1>11, <2>1, <2>2 DEF Send, Does
<1>12. ASSUME NEW g \in Gs, Move(g) \/ Call(g) \/ ReturnTo(g) \/ StoreGlobal(g) \/ Malloc(g)
       PROVE  Barriers'
  BY <1>1, <1>12 DEF Move, Call, ReturnTo, StoreGlobal, Malloc
<1>13. ASSUME NEW g \in Gs, Shade(g) PROVE Barriers'
  <2>1. /\ barrier' = [barrier EXCEPT ![g] = NoBarrier] /\ UNCHANGED <<gcphase, gcscanvalid>>
        /\ status' = IF barrier[g].wakes = 0 THEN status
                     ELSE [status EXCEPT ![barrier[g].wakes] = "runnable"]
    BY <1>13 DEF Shade
  <2>2. PICK h \in 0 .. NG : h = barrier[g].wakes
    BY <1>0
  <2>3. \A k \in Gs : status'[k] = IF k = h THEN "runnable" ELSE status[k]
    BY <1>0, <2>1, <2>2
  <2>4. h # 0 => status[h] = "waiting" /\ \A k \in Gs : barrier[k].wakes = h => k = g
    BY <1>0, <2>2 DEF Barriers
  <2>5. \A k \in Gs : barrier'[k] = IF k = g THEN NoBarrier ELSE barrier[k]
    BY <1>0, <2>1
  <2>. QED BY <1>0, <2>1, <2>3, <2>4, <2>5 DEF Barriers
<1>14. ASSUME NEW s \in Spans, SweepBegin(s) \/ Sweep(s) PROVE Barriers'
  BY <1>1, <1>14 DEF SweepBegin, Sweep
<1>15. ASSUME NEW p \in Ps, \/ StartWorker(p) \/ TakeRoot(p) \/ ScanGlobals(p)
                            \/ Get(p) \/ Scan(p) \/ Preempt(p) \/ StopDrain(p)
       PROVE  Barriers'
  BY <1>1, <1>15 DEF StartWorker, TakeRoot, ScanGlobals, Get, Scan, Preempt, StopDrain
<1>16. ASSUME NEW p \in Ps, \/ StopWorker(p) \/ FindWork(p) \/ PopWork(p) \/ NoMoreWork(p)
                            \/ MarkDone(p) \/ EnterMark2(p) \/ Flushed(p)
       PROVE  Barriers'
  BY <1>1, <1>16 DEF StopWorker, FindWork, PopWork, NoMoreWork, MarkDone, EnterMark2, Flushed
<1>17. ASSUME NEW p \in Ps, NEW g \in Gs, ScanStack(p, g) \/ RescanStack(p, g) PROVE Barriers'
  <2>1. /\ UNCHANGED <<gcphase, status, barrier>>
        /\ gcscanvalid' = gcscanvalid \/ (gcscanvalid' = gcscanvalid \cup {g} /\ status[g] \notin Ps)
    BY <1>0, <1>17 DEF ScanStack, RescanStack, Phases
  <2>. QED BY <1>0, <2>1 DEF Barriers
<1>18. ASSUME NEW p \in Ps, NEW q \in Ps, Flush(p, q) PROVE Barriers'
  BY <1>1, <1>18 DEF Flush
<1>19. ASSUME NEW p \in Ps, Terminate(p) PROVE Barriers'
  <2>1. /\ \A g \in Gs : barrier[g] = NoBarrier
        /\ status' = [g \in Gs |-> IF status[g] \in Ps THEN "runnable" ELSE status[g]]
        /\ UNCHANGED <<barrier, gcscanvalid>>
    BY <1>19 DEF Terminate, SafePoint
  <2>. QED BY <1>0, <2>1 DEF Barriers
<1>. QED
  BY <1>2, <1>3, <1>4, <1>5, <1>6, <1>9, <1>10, <1>11, <1>12, <1>13, <1>14, <1>15, <1>16,
     <1>17, <1>18, <1>19, Steps

\* Who holds markDoneSema has found nobody busy; only then does a phase end.
LEMMA NextEnding ==
  ASSUME IsFiniteSet(Ps), IInv, [Next]_vars
  PROVE  Ending'
<1>. USE DEF mem, gvars, spans, work, cycle, drain
<1>0. /\ TypeOK /\ Phases /\ Ending /\ Counted
      /\ pc \in [Ps -> {"idle", "roots", "root", "heap", "scan", "exit", "leave", "wait", "pop", "halt"}]
      /\ done \in [Ps -> {"no", "want", "hold", "flush", "stopped"}]
      /\ gcphase \in {"off", "mark", "termination"} /\ Nil \notin Ps
      /\ markrootNext \in Nat /\ markrootJobs \in Nat
  BY NilAssumption DEF IInv, TypeOK
<1>1. CASE UNCHANGED <<gcphase, done, sema, gcBlackenPromptly, markrootNext, markrootJobs, pc>>
  BY <1>0, <1>1 DEF Ending
<1>2. CASE UNCHANGED vars
  BY <1>1, <1>2 DEF vars
<1>3. CASE Start
  BY <1>0, <1>3 DEF Start, Ending
<1>4. CASE Finish
  BY <1>0, <1>4 DEF Finish, Ending
<1>5. ASSUME NEW p \in Ps, NEW l,
             UNCHANGED <<gcphase, done, sema, gcBlackenPromptly, markrootJobs>>,
             pc' = [pc EXCEPT ![p] = l],
             \/ UNCHANGED markrootNext /\ l # "root"
             \/ markrootNext < markrootJobs /\ markrootNext' = markrootNext + 1
      PROVE  Ending'
  <2>1. CASE UNCHANGED markrootNext /\ l # "root"
    BY <1>0, <1>5, <2>1 DEF Ending
  <2>2. CASE markrootNext < markrootJobs /\ markrootNext' = markrootNext + 1
    <3>1. ~ (markrootNext >= markrootJobs)
      BY <1>0, <2>2
    <3>. QED BY <1>0, <1>5, <2>2, <3>1 DEF Ending
  <2>. QED BY <1>5, <2>1, <2>2
<1>6. ASSUME NEW p \in Ps, \/ StartWorker(p) \/ TakeRoot(p) \/ ScanGlobals(p)
                           \/ Scan(p) \/ Preempt(p) \/ StopDrain(p)
      PROVE  Ending'
  BY <1>5, <1>6 DEF StartWorker, TakeRoot, ScanGlobals, Scan, Preempt, StopDrain, RootDone
<1>7. ASSUME NEW p \in Ps, Get(p) \/ FindWork(p) \/ PopWork(p) \/ NoMoreWork(p) PROVE Ending'
  <2>1. /\ UNCHANGED <<gcphase, done, sema, gcBlackenPromptly, markrootJobs, markrootNext>>
        /\ \E l \in {"scan", "wait", "exit", "pop", "halt"} : pc' = [pc EXCEPT ![p] = l]
    BY <1>7 DEF Get, FindWork, PopWork, NoMoreWork
  <2>. QED BY <1>5, <2>1
<1>8. ASSUME NEW p \in Ps, NEW g \in Gs, ScanStack(p, g) \/ RescanStack(p, g) PROVE Ending'
  BY <1>5, <1>8 DEF ScanStack, RescanStack, RootDone
<1>9. ASSUME NEW p \in Ps, StopWorker(p) PROVE Ending'
  <2>1. /\ UNCHANGED <<gcphase, sema, gcBlackenPromptly, markrootJobs, markrootNext>>
        /\ pc' = [pc EXCEPT ![p] = "idle"]
        /\ \E x \in {"want", "no"} : done' = [done EXCEPT ![p] = x]
    BY <1>9 DEF StopWorker
  <2>2. \A q \in Ps : done'[q] \in {"hold", "flush"} => done'[q] = done[q]
    BY <1>0, <2>1
  <2>3. \A q \in Ps : pc'[q] = "root" => pc[q] = "root"
    BY <1>0, <2>1
  <2>. QED BY <1>0, <2>1, <2>2, <2>3 DEF Ending
<1>10. ASSUME NEW p \in Ps, MarkDone(p) PROVE Ending'
  <2>1. UNCHANGED <<gcphase, gcBlackenPromptly, markrootJobs, markrootNext, pc>> /\ sema = Nil
    BY <1>10 DEF MarkDone
  <2>2. \A q \in Ps : done[q] # "hold"
    BY <1>0, <2>1 DEF Ending
  <2>3. CASE gcphase = "mark" /\ nwait = nproc /\ ~WorkAvailable
    <3>1. sema' = p /\ done' = [done EXCEPT ![p] = "hold"]
      BY <1>10, <2>3 DEF MarkDone
    <3>2. Busy = {}
      BY <1>0, <2>3, Idlers
    <3>3. (\A q \in Ps : pc[q] # "root" /\ done[q] # "flush") /\ markrootNext >= markrootJobs
      BY <1>0, <2>3, <3>2 DEF Busy, WorkAvailable
    <3>. QED BY <1>0, <2>1, <2>2, <2>3, <3>1, <3>3 DEF Ending
  <2>4. CASE ~(gcphase = "mark" /\ nwait = nproc /\ ~WorkAvailable)
    <3>1. UNCHANGED sema /\ done' = [done EXCEPT ![p] = "no"]
      BY <1>10, <2>4 DEF MarkDone
    <3>. QED BY <1>0, <2>1, <3>1 DEF Ending
  <2>. QED BY <2>3, <2>4
<1>11. ASSUME NEW p \in Ps, EnterMark2(p) PROVE Ending'
  <2>1. /\ done[p] = "hold" /\ done' = [done EXCEPT ![p] = "flush"] /\ gcBlackenPromptly' = TRUE
        /\ UNCHANGED gcphase
    BY <1>11 DEF EnterMark2
  <2>2. \A q \in Ps : q # p => done[q] # "hold"
    BY <1>0, <2>1 DEF Ending
  <2>. QED BY <1>0, <2>1, <2>2 DEF Ending
<1>12. ASSUME NEW p \in Ps, NEW q \in Ps, Flush(p, q) PROVE Ending'
  BY <1>1, <1>12 DEF Flush
<1>13. ASSUME NEW p \in Ps, Flushed(p) PROVE Ending'
  <2>1. /\ UNCHANGED <<gcphase, sema, gcBlackenPromptly, markrootJobs, markrootNext, pc>>
        /\ \E x \in {"want", "no"} : done' = [done EXCEPT ![p] = x]
    BY <1>13 DEF Flushed
  <2>2. \A q \in Ps : done'[q] \in {"hold", "flush"} => done'[q] = done[q]
    BY <1>0, <2>1
  <2>. QED BY <1>0, <2>1, <2>2 DEF Ending
<1>14. ASSUME NEW p \in Ps, Terminate(p) PROVE Ending'
  <2>1. done[p] = "hold" /\ gcBlackenPromptly /\ done' = [done EXCEPT ![p] = "stopped"]
    BY <1>14 DEF Terminate
  <2>2. \A q \in Ps : done[q] # "flush" /\ (q # p => done[q] # "hold")
    BY <1>0, <2>1 DEF Ending
  <2>3. \A q \in Ps : done'[q] \notin {"hold", "flush"}
    BY <1>0, <2>1, <2>2
  <2>. QED BY <2>3 DEF Ending
<1>. QED
  BY <1>1, <1>2, <1>3, <1>4, <1>6, <1>7, <1>8, <1>9, <1>10, <1>11, <1>12, <1>13, <1>14,
     Mutations, Steps

-----------------------------------------------------------------------------
\* The steps of root marking, seen from the jobs: none is done by taking one, and who
\* ends one has done it.
LEMMA JobsKept ==
  ASSUME TypeOK, Jobs, NEW p \in Ps, NEW l, pc' = [pc EXCEPT ![p] = l], pc[p] # "root", l # "root",
         UNCHANGED <<markrootNext, markrootJobs>>, \A q \in Ps : q # p => hand'[q] = hand[q]
  PROVE  /\ \A j : JobDone(j)' <=> JobDone(j)
         /\ \A q \in Ps : pc'[q] = "root" => pc[q] = "root" /\ hand'[q] = hand[q]
<1>1. \A q \in Ps : pc'[q] = IF q = p THEN l ELSE pc[q]
  BY DEF TypeOK
<1>. QED BY <1>1 DEF JobDone

LEMMA JobTaken ==
  ASSUME TypeOK, Jobs, NEW p \in Ps, TakeRoot(p), markrootNext < markrootJobs
  PROVE  /\ \A j \in 0 .. NG : JobDone(j)' <=> JobDone(j)
         /\ hand'[p] = markrootNext /\ pc'[p] = "root" /\ markrootNext' = markrootNext + 1
         /\ \A q \in Ps : q # p => hand'[q] = hand[q] /\ pc'[q] = pc[q]
<1>1. /\ hand'[p] = markrootNext /\ pc'[p] = "root" /\ markrootNext' = markrootNext + 1
      /\ \A q \in Ps : q # p => hand'[q] = hand[q] /\ pc'[q] = pc[q]
      /\ pc[p] = "roots" /\ markrootNext \in Nat
  BY DEF TypeOK, TakeRoot
<1>2. ASSUME NEW j \in 0 .. NG PROVE JobDone(j)' <=> JobDone(j)
  <2>1. j \in Nat
    OBVIOUS
  <2>. QED BY <1>1, <2>1 DEF JobDone
<1>. QED BY <1>1, <1>2

LEMMA JobEnded ==
  ASSUME TypeOK, Jobs, NEW p \in Ps, pc[p] = "root", RootDone(p), UNCHANGED <<markrootNext, markrootJobs>>
  PROVE  /\ \A j : JobDone(j)' <=> JobDone(j) \/ j = hand[p]
         /\ ~JobDone(hand[p])
         /\ \A q \in Ps : pc'[q] = "root" => pc[q] = "root" /\ q # p /\ hand'[q] = hand[q]
         /\ pc'[p] = "roots"
<1>1. /\ pc'[p] = "roots" /\ \A q \in Ps : q # p => pc'[q] = pc[q] /\ hand'[q] = hand[q]
  BY DEF RootDone, TypeOK
<1>2. hand[p] < markrootNext /\ \A q \in Ps : q # p /\ pc[q] = "root" => hand[q] # hand[p]
  BY DEF Jobs
<1>. QED BY <1>1, <1>2 DEF JobDone

\* Each root job is done once.
LEMMA NextJobs ==
  ASSUME IInv, [Next]_vars
  PROVE  Jobs'
<1>. USE DEF mem, gvars, spans, work, cycle, drain
<1>0. /\ TypeOK /\ Phases /\ Ending /\ Jobs /\ Stacks
      /\ pc \in [Ps -> {"idle", "roots", "root", "heap", "scan", "exit", "leave", "wait", "pop", "halt"}]
      /\ gcphase \in {"off", "mark", "termination"}
      /\ markrootNext \in Nat /\ markrootJobs \in Nat /\ AllJobs \in Nat \ {0} /\ AllJobs = 1 + NG
      /\ Gs = 1 .. NG /\ NG \in Nat \ {0} /\ stkbar \subseteq Gs
  BY SizeAssumption DEF IInv, TypeOK, AllJobs, Gs
<1>1. ASSUME UNCHANGED <<gcphase, gcBlackenPromptly, pc, hand, markrootNext, markrootJobs, gcscandone>>,
             stkbar' \subseteq stkbar
      PROVE  Jobs'
  BY <1>0, <1>1 DEF Jobs, JobDone
<1>2. CASE UNCHANGED vars
  BY <1>1, <1>2 DEF vars
<1>3. CASE Start
  <2>1. /\ gcphase' = "mark" /\ gcphase = "off" /\ markrootNext' = 0 /\ markrootJobs' = AllJobs
        /\ UNCHANGED <<pc, stkbar, gcBlackenPromptly>>
    BY <1>3 DEF Start
  <2>2. ~gcBlackenPromptly /\ stkbar = {} /\ \A p \in Ps : pc[p] = "idle"
    BY <1>0, <2>1 DEF Phases, Stacks
  <2>. QED BY <1>0, <2>1, <2>2 DEF Jobs, JobDone
<1>4. CASE Finish
  BY <1>0, <1>4 DEF Finish, Jobs
<1>5. ASSUME NEW g \in Gs, NEW p \in Ps, Execute(g, p) PROVE Jobs'
  BY <1>1, <1>5 DEF Execute
<1>6. ASSUME NEW g \in Gs, \/ Leave(g) \/ Move(g) \/ Call(g) \/ ReturnTo(g)
                           \/ StoreUp(g) \/ StoreHeap(g) \/ StoreGlobal(g)
                           \/ Shade(g) \/ Malloc(g)
      PROVE  Jobs'
  BY <1>1, <1>6 DEF Leave, Move, Call, ReturnTo, StoreUp, StoreHeap, StoreGlobal, Shade, Malloc
<1>7. ASSUME NEW g \in Gs, NEW h \in Gs, Send(g, h) PROVE Jobs'
  BY <1>1, <1>7 DEF Send
<1>8. ASSUME NEW s \in Spans, SweepBegin(s) \/ Sweep(s) PROVE Jobs'
  BY <1>1, <1>8 DEF SweepBegin, Sweep
\* A P that has no root job.
<1>9. ASSUME NEW p \in Ps, NEW l, pc' = [pc EXCEPT ![p] = l], pc[p] # "root", l # "root",
             UNCHANGED <<gcphase, gcBlackenPromptly, markrootNext, markrootJobs, gcscandone, stkbar>>,
             \A q \in Ps : q # p => hand'[q] = hand[q],
             gcphase = "termination" /\ l # "roots" => markrootNext >= markrootJobs
      PROVE  Jobs'
  <2>1. /\ \A j : JobDone(j)' <=> JobDone(j)
        /\ \A q \in Ps : pc'[q] = "root" => pc[q] = "root" /\ hand'[q] = hand[q]
    BY <1>0, <1>9, JobsKept
  <2>2. \A q \in Ps : pc'[q] = IF q = p THEN l ELSE pc[q]
    BY <1>0, <1>9
  <2>. QED BY <1>0, <1>9, <2>1, <2>2 DEF Jobs
<1>10. ASSUME NEW p \in Ps, StartWorker(p) \/ Scan(p) \/ Preempt(p) \/ StopDrain(p) \/ StopWorker(p)
       PROVE  Jobs'
  <2>1. \A q \in Ps : q # p => hand'[q] = hand[q]
    BY <1>0, <1>10 DEF StartWorker, Scan, Preempt, StopDrain, StopWorker, TypeOK
  <2>2. gcphase = "termination" => markrootNext >= markrootJobs
    BY <1>0, <1>10 DEF StartWorker, Scan, Preempt, StopDrain, StopWorker, Jobs
  <2>. QED BY <1>9, <1>10, <2>1, <2>2 DEF StartWorker, Idle, Scan, Preempt, StopDrain, StopWorker
<1>11. ASSUME NEW p \in Ps, Get(p) \/ FindWork(p) \/ PopWork(p) \/ NoMoreWork(p) PROVE Jobs'
  <2>1. \A q \in Ps : q # p => hand'[q] = hand[q]
    BY <1>0, <1>11 DEF Get, FindWork, PopWork, NoMoreWork, TypeOK
  <2>2. /\ UNCHANGED <<gcphase, gcBlackenPromptly, markrootNext, markrootJobs, gcscandone, stkbar>>
        /\ pc[p] \notin {"roots", "root"}
        /\ \E l \in {"scan", "wait", "exit", "pop", "halt"} : pc' = [pc EXCEPT ![p] = l]
    BY <1>11 DEF Get, FindWork, PopWork, NoMoreWork
  <2>3. gcphase = "termination" => markrootNext >= markrootJobs
    BY <1>0, <2>2 DEF Jobs
  <2>. QED BY <1>9, <2>1, <2>2, <2>3
<1>12. ASSUME NEW p \in Ps, TakeRoot(p) PROVE Jobs'
  <2>1. CASE markrootNext < markrootJobs
    <3>1. /\ \A j \in 0 .. NG : JobDone(j)' <=> JobDone(j)
          /\ hand'[p] = markrootNext /\ pc'[p] = "root" /\ markrootNext' = markrootNext + 1
          /\ \A q \in Ps : q # p => hand'[q] = hand[q] /\ pc'[q] = pc[q]
      BY <1>0, <1>12, <2>1, JobTaken
    <3>2. UNCHANGED <<gcphase, gcBlackenPromptly, markrootJobs, gcscandone, stkbar>>
      BY <1>12 DEF TakeRoot
    <3>3. \A q \in Ps : pc[q] = "root" => hand[q] \in 0 .. NG /\ hand[q] < markrootNext
      BY <1>0 DEF TypeOK, Jobs
    <3>4. \A q \in Ps : pc'[q] = "root" => hand'[q] < markrootNext'
      BY <1>0, <3>1, <3>3
    <3>5. \A q, r \in Ps : pc'[q] = "root" /\ pc'[r] = "root" /\ hand'[q] = hand'[r] => q = r
      BY <1>0, <3>1, <3>3 DEF Jobs
    <3>6. gcphase = "termination" => \A q \in Ps : pc'[q] \in {"roots", "root"}
      BY <1>0, <2>1, <3>1 DEF Jobs
    <3>7. \A g \in Gs : JobDone(g)' <=> JobDone(g)
      BY <1>0, <3>1
    <3>8. /\ gcphase # "off" /\ ~gcBlackenPromptly => \A g \in Gs : JobDone(g)' => g \in gcscandone
          /\ gcphase = "mark" /\ ~gcBlackenPromptly => \A g \in stkbar : JobDone(g)'
      BY <1>0, <3>7 DEF Jobs
    <3>9. markrootNext' <= markrootJobs
      BY <1>0, <2>1, <3>1
    <3>. QED BY <1>0, <3>2, <3>4, <3>5, <3>6, <3>8, <3>9 DEF Jobs
  <2>2. CASE ~(markrootNext < markrootJobs)
    <3>1. /\ pc[p] = "roots" /\ pc' = [pc EXCEPT ![p] = "heap"]
          /\ UNCHANGED <<gcphase, gcBlackenPromptly, markrootNext, markrootJobs, gcscandone, stkbar, hand>>
      BY <1>12, <2>2 DEF TakeRoot
    <3>2. markrootNext >= markrootJobs
      BY <1>0, <2>2
    <3>. QED BY <1>9, <3>1, <3>2
  <2>. QED BY <2>1, <2>2
<1>13. ASSUME NEW p \in Ps, ScanGlobals(p) PROVE Jobs'
  <2>1. /\ pc[p] = "root" /\ hand[p] = 0 /\ RootDone(p)
        /\ UNCHANGED <<gcphase, gcBlackenPromptly, markrootNext, markrootJobs, gcscandone, stkbar>>
    BY <1>13 DEF ScanGlobals
  <2>2. /\ \A j : JobDone(j)' <=> JobDone(j) \/ j = 0
        /\ \A q \in Ps : pc'[q] = "root" => pc[q] = "root" /\ q # p /\ hand'[q] = hand[q]
        /\ \A q \in Ps : pc[q] \in {"roots", "root"} => pc'[q] \in {"roots", "root"}
    BY <1>0, <2>1, JobEnded DEF RootDone
  <2>3. \A g \in Gs : JobDone(g)' <=> JobDone(g)
    BY <1>0, <2>2
  <2>. QED BY <1>0, <2>1, <2>2, <2>3 DEF Jobs
<1>14. ASSUME NEW p \in Ps, NEW g \in Gs, ScanStack(p, g) \/ RescanStack(p, g) PROVE Jobs'
  <2>1. /\ pc[p] = "root" /\ hand[p] = g /\ RootDone(p)
        /\ gcscandone' = gcscandone \cup {g} /\ stkbar' \subseteq stkbar \cup {g}
        /\ UNCHANGED <<gcphase, gcBlackenPromptly, markrootNext, markrootJobs>>
    BY <1>14 DEF ScanStack, RescanStack
  <2>2. /\ \A j : JobDone(j)' <=> JobDone(j) \/ j = g
        /\ \A q \in Ps : pc'[q] = "root" => pc[q] = "root" /\ q # p /\ hand'[q] = hand[q]
        /\ \A q \in Ps : pc[q] \in {"roots", "root"} => pc'[q] \in {"roots", "root"}
    BY <1>0, <2>1, JobEnded DEF RootDone
  <2>. QED BY <1>0, <2>1, <2>2 DEF Jobs
<1>15. ASSUME NEW p \in Ps, MarkDone(p) \/ Flushed(p) PROVE Jobs'
  BY <1>1, <1>15 DEF MarkDone, Flushed
<1>16. ASSUME NEW p \in Ps, NEW q \in Ps, Flush(p, q) PROVE Jobs'
  BY <1>1, <1>16 DEF Flush
<1>17. ASSUME NEW p \in Ps, EnterMark2(p) PROVE Jobs'
  <2>1. /\ gcBlackenPromptly' = TRUE /\ markrootNext' = 0 /\ markrootJobs' = 1
        /\ UNCHANGED <<gcphase, pc>> /\ gcphase = "mark"
        /\ \A q \in Ps : pc[q] # "root"
    BY <1>0, <1>17 DEF EnterMark2, Ending
  <2>. QED BY <2>1 DEF Jobs
<1>18. ASSUME NEW p \in Ps, Terminate(p) PROVE Jobs'
  <2>1. /\ gcBlackenPromptly' = FALSE /\ markrootNext' = 0 /\ markrootJobs' = AllJobs
        /\ gcphase' = "termination" /\ pc' = [q \in Ps |-> "roots"]
    BY <1>18 DEF Terminate
  <2>. QED BY <1>0, <2>1 DEF Jobs, JobDone
<1>. QED
  BY <1>2, <1>3, <1>4, <1>5, <1>6, <1>7, <1>8, <1>10, <1>11, <1>12, <1>13, <1>14, <1>15,
     <1>16, <1>17, <1>18, Steps

-----------------------------------------------------------------------------
LEMMA InQueue ==
  /\ \A o : o \in Queue <=> \/ o \in full \/ \E p \in Ps : o \in gcw[p]
                            \/ \E p \in Ps : pc[p] = "scan" /\ hand[p] = o
  /\ \A o : o \in Queue' <=> \/ o \in full' \/ \E p \in Ps : o \in gcw'[p]
                             \/ \E p \in Ps : pc'[p] = "scan" /\ hand'[p] = o
BY DEF Queue

LEMMA SameQueue ==
  ASSUME \A x : x \in Queue' <=> x \in Queue
  PROVE  Queue' = Queue
BY DEF Queue

\* When the helpers of mark termination have all halted, there is nothing left to scan.
LEMMA NothingQueued ==
  ASSUME Queued, gcphase = "termination", \A p \in Ps : pc[p] = "halt"
  PROVE  Queue = {} /\ full = {} /\ \A p \in Ps : gcw[p] = {}
<1>1. full = {} /\ \A p \in Ps : gcw[p] = {}
  BY DEF Queued
<1>. QED BY <1>1, InQueue

\* What a step of marking does: an object that leaves the queue was scanned, and one that
\* is marked is queued, or it is new.
Marking ==
  /\ gcphase # "off" /\ gcphase' # "off" =>
       /\ marked \subseteq marked' /\ Queue' \subseteq marked'
       /\ \A o \in Queue : o \in Queue' \/ heap'[o] \in marked' \cup {Nil}
       /\ \A o \in marked' \ marked : o \in Queue' \/ heap'[o] = Nil
  /\ gcphase = "off" \/ gcphase' = "off" => Queue' = {}

LEMMA NextMarking ==
  ASSUME IInv, [Next]_vars
  PROVE  Marking
<1>. USE DEF mem, gvars, spans, work, cycle, drain
<1>0. /\ TypeOK /\ Phases /\ Barriers /\ Queued
      /\ heap \in [Objs -> Ptr] /\ Ptr = Objs \cup {Nil} /\ Nil \notin Objs
      /\ pc \in [Ps -> {"idle", "roots", "root", "heap", "scan", "exit", "leave", "wait", "pop", "halt"}]
      /\ hand \in [Ps -> Ptr \cup 0 .. NG] /\ gcw \in [Ps -> SUBSET Objs]
      /\ marked \subseteq Objs /\ full \subseteq Objs
      /\ gcphase = "off" => Queue = {} /\ \A p \in Ps : pc[p] = "idle"
      /\ gcphase # "off" => Queue \subseteq marked
  BY NilAssumption DEF IInv, TypeOK, Phases, Queued, Ptr
<1>1. ASSUME UNCHANGED gcphase, Queue' = Queue,
             gcphase # "off" => /\ marked \subseteq marked'
                                /\ \A o \in marked' \ marked : heap'[o] = Nil
      PROVE  Marking
  BY <1>0, <1>1 DEF Marking
<1>2. ASSUME NEW N, UNCHANGED gcphase, gcphase # "off",
             marked' = marked \cup N, Queue' = Queue \cup N
      PROVE  Marking
  BY <1>0, <1>2 DEF Marking
\* The queue is where it was.
<1>3. ASSUME UNCHANGED <<full, gcw, pc, hand>> PROVE Queue' = Queue
  BY <1>3 DEF Queue
<1>4. ASSUME UNCHANGED <<full, gcw>>, NEW p \in Ps, NEW l, pc' = [pc EXCEPT ![p] = l],
             pc[p] # "scan", l # "scan", \A q \in Ps : q # p => hand'[q] = hand[q]
      PROVE  Queue' = Queue
  <2>1. \A q \in Ps : pc'[q] = "scan" <=> pc[q] = "scan"
    BY <1>0, <1>4
  <2>2. \A q \in Ps : pc[q] = "scan" => hand'[q] = hand[q]
    BY <1>4
  <2>. QED BY <1>4, <2>1, <2>2, InQueue
<1>5. CASE UNCHANGED vars
  BY <1>0, <1>1, <1>3, <1>5 DEF vars
<1>6. CASE Start
  BY <1>0, <1>3, <1>6 DEF Start, Marking
<1>7. CASE Finish
  <2>1. /\ gcphase' = "off" /\ gcphase = "termination" /\ \A p \in Ps : pc[p] = "halt"
        /\ UNCHANGED <<full, gcw, hand>> /\ pc' = [p \in Ps |-> "idle"]
    BY <1>7 DEF Finish
  <2>2. full = {} /\ \A p \in Ps : gcw[p] = {}
    BY <1>0, <2>1, NothingQueued
  <2>3. Queue' = {}
    BY <2>1, <2>2, InQueue
  <2>. QED BY <2>1, <2>3 DEF Marking
<1>8. ASSUME NEW g \in Gs, NEW p \in Ps, Execute(g, p) PROVE Marking
  BY <1>0, <1>1, <1>3, <1>8 DEF Execute
<1>9. ASSUME NEW g \in Gs, \/ Leave(g) \/ Move(g) \/ Call(g) \/ ReturnTo(g)
                           \/ StoreUp(g) \/ StoreHeap(g) \/ StoreGlobal(g)
      PROVE  Marking
  <2>1. UNCHANGED <<full, gcw, pc, hand, marked, gcphase>>
    BY <1>9 DEF Leave, Move, Call, ReturnTo, StoreUp, StoreHeap, StoreGlobal
  <2>. QED BY <1>0, <1>1, <1>3, <2>1
<1>10. ASSUME NEW g \in Gs, NEW h \in Gs, Send(g, h) PROVE Marking
  BY <1>0, <1>1, <1>3, <1>10 DEF Send
<1>11. ASSUME NEW g \in Gs, Malloc(g) PROVE Marking
  <2>1. PICK o \in Objs : /\ heap' = [heap EXCEPT ![o] = Nil]
                          /\ marked' = IF gcBlackenPromptly THEN marked \cup {o} ELSE marked
    BY <1>11 DEF Malloc
  <2>2. UNCHANGED <<full, gcw, pc, hand, gcphase>>
    BY <1>11 DEF Malloc
  <2>. QED BY <1>0, <1>1, <1>3, <2>1, <2>2
<1>12. ASSUME NEW g \in Gs, Shade(g) PROVE Marking
  <2>1. PICK p \in Ps : p = status[g]
    BY <1>0, <1>12 DEF Shade, Barriers
  <2>2. PICK new : new = New({barrier[g].ptr})
    OBVIOUS
  <2>3. /\ marked' = marked \cup new
        /\ \/ full' = full \cup gcw[p] \cup new /\ gcw' = [gcw EXCEPT ![p] = {}]
           \/ gcw' = [gcw EXCEPT ![p] = @ \cup new] /\ UNCHANGED full
        /\ UNCHANGED <<gcphase, pc, hand>>
    BY <1>12, <2>1, <2>2 DEF Shade
  <2>4. gcphase # "off"
    BY <1>0, <1>12 DEF Shade, Barriers
  <2>5. Queue' = Queue \cup new
    <3>1. CASE full' = full \cup gcw[p] \cup new /\ gcw' = [gcw EXCEPT ![p] = {}]
      BY <1>0, <2>3, <3>1, InQueue
    <3>2. CASE gcw' = [gcw EXCEPT ![p] = @ \cup new] /\ UNCHANGED full
      BY <1>0, <2>3, <3>2, InQueue
    <3>. QED BY <2>3, <3>1, <3>2
  <2>. QED BY <1>2, <2>3, <2>4, <2>5
<1>13. ASSUME NEW s \in Spans, SweepBegin(s) \/ Sweep(s) PROVE Marking
  <2>1. gcphase = "off"
    BY <1>0, <1>13 DEF SweepBegin, Sweep, Phases
  <2>2. UNCHANGED <<full, gcw, pc, hand, gcphase>>
    BY <1>13 DEF SweepBegin, Sweep
  <2>. QED BY <1>0, <1>3, <2>1, <2>2 DEF Marking
<1>14. ASSUME NEW p \in Ps, \/ StartWorker(p) \/ TakeRoot(p) \/ Preempt(p) \/ StopWorker(p)
                            \/ FindWork(p) \/ NoMoreWork(p)
       PROVE  Marking
  <2>1. UNCHANGED <<full, gcw, marked, gcphase>>
    BY <1>14 DEF StartWorker, TakeRoot, Preempt, StopWorker, FindWork, NoMoreWork
  <2>2. /\ pc[p] # "scan" /\ \A q \in Ps : q # p => hand'[q] = hand[q]
        /\ \E l \in {"roots", "root", "heap", "exit", "idle", "pop", "halt"} : pc' = [pc EXCEPT ![p] = l]
    BY <1>0, <1>14 DEF StartWorker, TakeRoot, Preempt, StopWorker, FindWork, NoMoreWork, Idle
  <2>3. Queue' = Queue
    BY <1>4, <2>1, <2>2
  <2>. QED BY <1>0, <1>1, <2>1, <2>3
<1>15. ASSUME NEW p \in Ps, NEW N \in SUBSET Objs, full' = full \cup N, marked' = marked \cup N,
              RootDone(p), pc[p] = "root", UNCHANGED <<gcw, gcphase>>
       PROVE  Marking
  <2>1. \A q \in Ps : q # p => pc'[q] = pc[q] /\ hand'[q] = hand[q]
    BY <1>0, <1>15 DEF RootDone
  <2>2. pc'[p] = "roots"
    BY <1>0, <1>15 DEF RootDone
  <2>3. Queue' = Queue \cup N
    BY <1>15, <2>1, <2>2, InQueue
  <2>. QED BY <1>0, <1>2, <1>15, <2>3
<1>16. ASSUME NEW p \in Ps, ScanGlobals(p) PROVE Marking
  <2>1. New({global}) \in SUBSET Objs
    BY <1>0 DEF New, TypeOK
  <2>. QED BY <1>15, <1>16, <2>1 DEF ScanGlobals
<1>17. ASSUME NEW g \in Gs PROVE Held(g) \subseteq Objs /\ Rescanned(g) \subseteq Ptr
  <2>1. depth[g] \in 1 .. 2 /\ \A k \in 1 .. 2 : stack[g][k] \in Ptr
    BY <1>0 DEF TypeOK
  <2>. QED BY <1>0, <2>1 DEF Held, Rescanned
<1>18. ASSUME NEW p \in Ps, NEW g \in Gs, RescanStack(p, g) PROVE Marking
  <2>1. New(Rescanned(g)) \in SUBSET Objs
    BY <1>0, <1>17 DEF New
  <2>. QED BY <1>15, <1>18, <2>1 DEF RescanStack
<1>19. ASSUME NEW p \in Ps, NEW g \in Gs, ScanStack(p, g) PROVE Marking
  <2>1. PICK N \in SUBSET Objs : N = New(Held(g))
    BY <1>17 DEF New
  <2>2. marked' = marked \cup N
    BY <1>0, <1>17, <1>19, <2>1 DEF ScanStack, New
  <2>3. PICK q \in Ps : gcw' = [gcw EXCEPT ![q] = @ \cup N]
    BY <1>19, <2>1 DEF ScanStack
  <2>4. UNCHANGED <<gcphase, full>> /\ pc[p] = "root" /\ RootDone(p)
    BY <1>19 DEF ScanStack
  <2>5. pc'[p] = "roots" /\ \A r \in Ps : r # p => pc'[r] = pc[r] /\ hand'[r] = hand[r]
    BY <1>0, <2>4 DEF RootDone
  <2>6. Queue' = Queue \cup N
    BY <1>0, <2>3, <2>4, <2>5, InQueue
  <2>. QED BY <1>0, <1>2, <2>2, <2>4, <2>6
<1>20. ASSUME NEW p \in Ps, Get(p) PROVE Marking
  <2>1. /\ pc[p] = "heap" /\ UNCHANGED <<gcphase, marked>>
        /\ \E S \in SUBSET gcw[p] :
             \/ \E o \in gcw[p] \ S :
                  /\ hand' = [hand EXCEPT ![p] = o] /\ pc' = [pc EXCEPT ![p] = "scan"]
                  /\ gcw' = [gcw EXCEPT ![p] = (gcw[p] \ S) \ {o}] /\ full' = full \cup S
             \/ \E o \in full \cup S :
                  /\ gcw[p] \ S = {}
                  /\ hand' = [hand EXCEPT ![p] = o] /\ pc' = [pc EXCEPT ![p] = "scan"]
                  /\ gcw' = [gcw EXCEPT ![p] = {}] /\ full' = (full \cup S) \ {o}
             \/ /\ \E l \in {"wait", "exit"} : pc' = [pc EXCEPT ![p] = l]
                /\ UNCHANGED <<gcw, full, hand>>
    BY <1>20 DEF Get
  <2>2. PICK S \in SUBSET gcw[p] :
             \/ \E o \in gcw[p] \ S :
                  /\ hand' = [hand EXCEPT ![p] = o] /\ pc' = [pc EXCEPT ![p] = "scan"]
                  /\ gcw' = [gcw EXCEPT ![p] = (gcw[p] \ S) \ {o}] /\ full' = full \cup S
             \/ \E o \in full \cup S :
                  /\ gcw[p] \ S = {}
                  /\ hand' = [hand EXCEPT ![p] = o] /\ pc' = [pc EXCEPT ![p] = "scan"]
                  /\ gcw' = [gcw EXCEPT ![p] = {}] /\ full' = (full \cup S) \ {o}
             \/ /\ \E l \in {"wait", "exit"} : pc' = [pc EXCEPT ![p] = l]
                /\ UNCHANGED <<gcw, full, hand>>
    BY <2>1
  <2>3. ASSUME NEW o \in gcw[p] \ S,
               hand' = [hand EXCEPT ![p] = o], pc' = [pc EXCEPT ![p] = "scan"],
               gcw' = [gcw EXCEPT ![p] = (gcw[p] \ S) \ {o}], full' = full \cup S
        PROVE  Queue' = Queue
    <3>1. /\ hand'[p] = o /\ pc'[p] = "scan" /\ gcw'[p] = (gcw[p] \ S) \ {o}
          /\ \A q \in Ps : q # p => hand'[q] = hand[q] /\ pc'[q] = pc[q] /\ gcw'[q] = gcw[q]
      BY <1>0, <2>3
    <3>2. \A x : x \in Queue' <=> x \in Queue
      BY <2>1, <2>3, <3>1, InQueue
    <3>. QED BY <3>2, SameQueue
  <2>4. ASSUME NEW o \in full \cup S, gcw[p] \ S = {},
               hand' = [hand EXCEPT ![p] = o], pc' = [pc EXCEPT ![p] = "scan"],
               gcw' = [gcw EXCEPT ![p] = {}], full' = (full \cup S) \ {o}
        PROVE  Queue' = Queue
    <3>1. /\ hand'[p] = o /\ pc'[p] = "scan" /\ gcw'[p] = {} /\ gcw[p] = S
          /\ \A q \in Ps : q # p => hand'[q] = hand[q] /\ pc'[q] = pc[q] /\ gcw'[q] = gcw[q]
      BY <1>0, <2>4
    <3>2. \A x : x \in Queue' <=> x \in Queue
      BY <2>1, <2>4, <3>1, InQueue
    <3>. QED BY <3>2, SameQueue
  <2>5. ASSUME \E l \in {"wait", "exit"} : pc' = [pc EXCEPT ![p] = l],
               UNCHANGED <<gcw, full, hand>>
        PROVE  Queue' = Queue
    <3>1. PICK l \in {"wait", "exit"} : pc' = [pc EXCEPT ![p] = l]
      BY <2>5
    <3>. QED BY <1>4, <2>1, <2>5, <3>1
  <2>6. Queue' = Queue
    <3>1. CASE \E o \in gcw[p] \ S :
                  /\ hand' = [hand EXCEPT ![p] = o] /\ pc' = [pc EXCEPT ![p] = "scan"]
                  /\ gcw' = [gcw EXCEPT ![p] = (gcw[p] \ S) \ {o}] /\ full' = full \cup S
      BY <2>3, <3>1
    <3>2. CASE \E o \in full \cup S :
                  /\ gcw[p] \ S = {}
                  /\ hand' = [hand EXCEPT ![p] = o] /\ pc' = [pc EXCEPT ![p] = "scan"]
                  /\ gcw' = [gcw EXCEPT ![p] = {}] /\ full' = (full \cup S) \ {o}
      BY <2>4, <3>2
    <3>. QED BY <2>2, <2>5, <3>1, <3>2
  <2>. QED BY <1>0, <1>1, <2>1, <2>6
<1>21. ASSUME NEW p \in Ps, PopWork(p) PROVE Marking
  <2>1. pc[p] = "pop" /\ UNCHANGED <<gcphase, marked, gcw>>
    BY <1>21 DEF PopWork
  <2>2. CASE full = {}
    BY <1>0, <1>1, <1>4, <1>21, <2>1, <2>2 DEF PopWork
  <2>3. CASE full # {}
    <3>1. PICK o \in full : full' = full \ {o} /\ hand' = [hand EXCEPT ![p] = o]
      BY <1>21, <2>3 DEF PopWork
    <3>2. /\ hand'[p] = o /\ pc'[p] = "scan"
          /\ \A q \in Ps : q # p => hand'[q] = hand[q] /\ pc'[q] = pc[q]
      BY <1>0, <1>21, <2>3, <3>1 DEF PopWork
    <3>3. Queue' = Queue
      <4>1. \A x : x \in Queue' <=> x \in Queue
        BY <2>1, <3>1, <3>2, InQueue
      <4>. QED BY <4>1, SameQueue
    <3>. QED BY <1>0, <1>1, <2>1, <3>3
  <2>. QED BY <2>2, <2>3
<1>22. ASSUME NEW p \in Ps, StopDrain(p) PROVE Marking
  <2>1. /\ pc[p] = "exit" /\ pc' = [pc EXCEPT ![p] = "leave"] /\ UNCHANGED <<gcphase, marked, hand>>
        /\ \/ UNCHANGED <<full, gcw>>
           \/ full' = full \cup gcw[p] /\ gcw' = [gcw EXCEPT ![p] = {}]
    BY <1>22 DEF StopDrain
  <2>2. \A q \in Ps : pc'[q] = "scan" <=> pc[q] = "scan"
    BY <1>0, <2>1
  <2>3. CASE UNCHANGED <<full, gcw>>
    BY <1>0, <1>1, <1>4, <2>1, <2>3
  <2>4. CASE full' = full \cup gcw[p] /\ gcw' = [gcw EXCEPT ![p] = {}]
    <3>1. Queue' = Queue
      <4>1. \A x : x \in Queue' <=> x \in Queue
        BY <1>0, <2>1, <2>2, <2>4, InQueue
      <4>. QED BY <4>1, SameQueue
    <3>. QED BY <1>0, <1>1, <2>1, <3>1
  <2>. QED BY <2>1, <2>3, <2>4
<1>23. ASSUME NEW p \in Ps, Scan(p) PROVE Marking
  <2>1. PICK o \in Objs : o = hand[p] /\ o \in Queue
    BY <1>0, <1>23, InQueue DEF Scan
  <2>2. PICK N \in SUBSET Objs : N = New({heap[o]})
    BY <1>0, <2>1 DEF New
  <2>3. /\ pc[p] = "scan" /\ marked' = marked \cup N /\ gcw' = [gcw EXCEPT ![p] = @ \cup N]
        /\ pc' = [pc EXCEPT ![p] = "heap"] /\ hand' = [hand EXCEPT ![p] = Nil]
        /\ UNCHANGED <<gcphase, full, heap>>
    BY <1>23, <2>1, <2>2 DEF Scan
  <2>4. gcphase # "off"
    BY <1>0, <2>3
  <2>5. /\ pc'[p] = "heap" /\ gcw'[p] = gcw[p] \cup N
        /\ \A q \in Ps : q # p => hand'[q] = hand[q] /\ pc'[q] = pc[q] /\ gcw'[q] = gcw[q]
    BY <1>0, <2>3
  <2>6. Queue' \subseteq Queue \cup N
    BY <2>3, <2>5, InQueue
  <2>7. N \subseteq Queue'
    BY <2>5, InQueue
  <2>8. \A x \in Queue : x # o => x \in Queue'
    BY <2>1, <2>3, <2>5, InQueue
  <2>9. heap'[o] \in marked' \cup {Nil}
    BY <2>2, <2>3 DEF New
  <2>. QED BY <1>0, <2>3, <2>4, <2>6, <2>7, <2>8, <2>9 DEF Marking
<1>24. ASSUME NEW p \in Ps, MarkDone(p) \/ EnterMark2(p) \/ Flushed(p) PROVE Marking
  <2>1. UNCHANGED <<full, gcw, pc, hand, marked, gcphase>>
    BY <1>24 DEF MarkDone, EnterMark2, Flushed
  <2>. QED BY <1>0, <1>1, <1>3, <2>1
<1>25. ASSUME NEW p \in Ps, Terminate(p) PROVE Marking
  <2>1. /\ \A q \in Ps : pc[q] = "idle"
        /\ full' = full \cup UNION {gcw[q] : q \in Ps} /\ gcw' = [q \in Ps |-> {}]
        /\ pc' = [q \in Ps |-> "roots"] /\ UNCHANGED <<marked, hand>>
        /\ gcphase' = "termination" /\ gcBlackenPromptly
    BY <1>25 DEF Terminate
  <2>2. Queue' = Queue
    <3>1. \A x : x \in Queue' <=> x \in Queue
      BY <2>1, InQueue
    <3>. QED BY <3>1, SameQueue
  <2>3. gcphase # "off"
    BY <1>0, <2>1 DEF Phases
  <2>. QED BY <1>0, <2>1, <2>2, <2>3 DEF Marking
<1>26. ASSUME NEW p \in Ps, NEW q \in Ps, Flush(p, q) PROVE Marking
  <2>1. /\ full' = full \cup gcw[q] /\ gcw' = [gcw EXCEPT ![q] = {}]
        /\ UNCHANGED <<gcphase, marked, pc, hand>>
    BY <1>26 DEF Flush
  <2>2. Queue' = Queue
    <3>1. \A x : x \in Queue' <=> x \in Queue
      BY <1>0, <2>1, InQueue
    <3>. QED BY <3>1, SameQueue
  <2>. QED BY <1>0, <1>1, <2>1, <2>2
<1>. QED
  BY <1>5, <1>6, <1>7, <1>8, <1>9, <1>10, <1>11, <1>12, <1>13, <1>14, <1>16, <1>18, <1>19,
     <1>20, <1>21, <1>22, <1>23, <1>24, <1>25, <1>26, Steps

\* What is queued is marked, and the last helper of mark termination leaves no work behind.
LEMMA NextQueued ==
  ASSUME IInv, [Next]_vars
  PROVE  Queued'
<1>. USE DEF mem, gvars, spans, work, cycle, drain
<1>0. /\ TypeOK /\ Phases /\ Barriers /\ Queued /\ Ending /\ Marking /\ Phases'
      /\ pc \in [Ps -> {"idle", "roots", "root", "heap", "scan", "exit", "leave", "wait", "pop", "halt"}]
      /\ hand \in [Ps -> Ptr \cup 0 .. NG] /\ gcw \in [Ps -> SUBSET Objs]
      /\ full \subseteq Objs /\ Nil \notin Objs /\ Ps # {}
      /\ gcphase \in {"off", "mark", "termination"}
  BY NilAssumption, SizeAssumption, NextMarking, NextPhases DEF IInv, TypeOK
<1>1. ASSUME \A p \in Ps : pc'[p] = "scan" => hand'[p] # Nil,
             gcphase' = "termination" =>
               /\ \A p \in Ps : pc'[p] \in {"wait", "pop", "halt"} => gcw'[p] = {}
               /\ full' # {} => \E p \in Ps : pc'[p] \notin {"wait", "halt"}
      PROVE  Queued'
  <2>1. gcphase' \in {"off", "mark", "termination"}
    BY PhaseChanges
  <2>2. gcphase' # "termination" => \A p \in Ps : pc'[p] \notin {"wait", "pop", "halt"}
    BY <1>0, <2>1 DEF Phases
  <2>3. gcphase' # "off" => Queue' \subseteq marked'
    BY <1>0 DEF Marking
  <2>. QED BY <1>0, <1>1, <2>2, <2>3 DEF Queued, Marking
<1>2. CASE UNCHANGED <<pc, hand, gcw, full, gcphase>>
  BY <1>0, <1>2, <1>1 DEF Queued
<1>3. CASE UNCHANGED vars
  BY <1>2, <1>3 DEF vars
<1>4. CASE Start \/ Finish
  BY <1>0, <1>1, <1>4 DEF Start, Finish, Phases
<1>5. ASSUME NEW g \in Gs, NEW p \in Ps, Execute(g, p) PROVE Queued'
  BY <1>2, <1>5 DEF Execute
<1>6. ASSUME NEW g \in Gs, \/ Leave(g) \/ Move(g) \/ Call(g) \/ ReturnTo(g)
                           \/ StoreUp(g) \/ StoreHeap(g) \/ StoreGlobal(g) \/ Malloc(g)
      PROVE  Queued'
  BY <1>2, <1>6 DEF Leave, Move, Call, ReturnTo, StoreUp, StoreHeap, StoreGlobal, Malloc
<1>7. ASSUME NEW g \in Gs, NEW h \in Gs, Send(g, h) PROVE Queued'
  BY <1>2, <1>7 DEF Send
<1>8. ASSUME NEW s \in Spans, SweepBegin(s) \/ Sweep(s) PROVE Queued'
  BY <1>2, <1>8 DEF SweepBegin, Sweep
<1>9. ASSUME NEW g \in Gs, Shade(g) PROVE Queued'
  <2>1. gcphase = "mark" /\ UNCHANGED <<pc, hand, gcphase>>
    BY <1>0, <1>9 DEF Shade, Barriers
  <2>. QED BY <1>0, <1>1, <2>1 DEF Queued
\* A worker or a helper p turns to something else.
<1>10. ASSUME NEW p \in Ps, NEW l, pc' = [pc EXCEPT ![p] = l], UNCHANGED gcphase,
              \A q \in Ps : q # p => hand'[q] = hand[q],
              l = "scan" => hand'[p] # Nil
       PROVE  \A q \in Ps : pc'[q] = "scan" => hand'[q] # Nil
  BY <1>0, <1>10 DEF Queued
<1>11. ASSUME NEW p \in Ps, NEW l, pc' = [pc EXCEPT ![p] = l], UNCHANGED gcphase,
              \A q \in Ps : q # p => hand'[q] = hand[q],
              l = "scan" => hand'[p] # Nil,
              gcphase = "termination" => \A q \in Ps : q # p => gcw'[q] = gcw[q],
              gcphase = "termination" => l \notin {"wait", "pop", "halt"}
       PROVE  Queued'
  <2>1. \A q \in Ps : pc'[q] = IF q = p THEN l ELSE pc[q]
    BY <1>0, <1>11
  <2>2. gcphase = "termination" => \A q \in Ps : pc'[q] \in {"wait", "pop", "halt"} => gcw'[q] = {}
    BY <1>0, <1>11, <2>1 DEF Queued
  <2>. QED BY <1>0, <1>1, <1>10, <1>11, <2>1, <2>2
<1>12. ASSUME NEW p \in Ps, StartWorker(p) \/ TakeRoot(p) \/ ScanGlobals(p) \/ Preempt(p) \/ Scan(p)
       PROVE  Queued'
  <2>1. /\ UNCHANGED gcphase /\ \A q \in Ps : q # p => hand'[q] = hand[q] /\ gcw'[q] = gcw[q]
        /\ \E l \in {"roots", "root", "heap"} \cup (IF gcphase = "mark" THEN {"exit"} ELSE {}) :
             pc' = [pc EXCEPT ![p] = l]
    BY <1>0, <1>12 DEF StartWorker, TakeRoot, ScanGlobals, Preempt, Scan, RootDone
  <2>2. PICK l \in {"roots", "root", "heap"} \cup (IF gcphase = "mark" THEN {"exit"} ELSE {}) :
             pc' = [pc EXCEPT ![p] = l]
    BY <2>1
  <2>. QED BY <1>11, <2>1, <2>2
<1>13. ASSUME NEW p \in Ps, StopDrain(p) \/ StopWorker(p) PROVE Queued'
  <2>1. gcphase = "mark" /\ UNCHANGED <<gcphase, hand>>
    BY <1>0, <1>13 DEF StopDrain, StopWorker, Phases
  <2>2. \A q \in Ps : pc'[q] = "scan" => pc[q] = "scan"
    BY <1>0, <1>13 DEF StopDrain, StopWorker
  <2>. QED BY <1>0, <1>1, <2>1, <2>2 DEF Queued
<1>14. ASSUME NEW p \in Ps, NEW g \in Gs, ScanStack(p, g) \/ RescanStack(p, g) PROVE Queued'
  <2>1. /\ UNCHANGED gcphase /\ \A q \in Ps : q # p => hand'[q] = hand[q]
        /\ gcphase = "termination" => UNCHANGED gcw
        /\ pc' = [pc EXCEPT ![p] = "roots"]
    BY <1>0, <1>14 DEF ScanStack, RescanStack, RootDone
  <2>. QED BY <1>11, <2>1
<1>15. ASSUME NEW p \in Ps, Get(p) PROVE Queued'
  <2>1. /\ UNCHANGED gcphase /\ pc[p] = "heap"
        /\ \/ \E o \in Objs, T \in SUBSET Objs : /\ hand' = [hand EXCEPT ![p] = o]
                                                 /\ pc' = [pc EXCEPT ![p] = "scan"]
                                                 /\ gcw' = [gcw EXCEPT ![p] = T]
           \/ /\ gcw[p] = {} /\ full = {} /\ UNCHANGED <<gcw, full, hand>>
              /\ \E l \in {"wait", "exit"} : pc' = [pc EXCEPT ![p] = l]
    <3>1. PICK S \in SUBSET gcw[p] :
             \/ \E o \in gcw[p] \ S :
                  /\ hand' = [hand EXCEPT ![p] = o] /\ pc' = [pc EXCEPT ![p] = "scan"]
                  /\ gcw' = [gcw EXCEPT ![p] = (gcw[p] \ S) \ {o}]
             \/ \E o \in full \cup S :
                  /\ hand' = [hand EXCEPT ![p] = o] /\ pc' = [pc EXCEPT ![p] = "scan"]
                  /\ gcw' = [gcw EXCEPT ![p] = {}]
             \/ /\ gcw[p] \ S = {} /\ full \cup S = {}
                /\ \E l \in {"wait", "exit"} : pc' = [pc EXCEPT ![p] = l]
                /\ UNCHANGED <<gcw, full, hand>>
      BY <1>15 DEF Get
    <3>2. gcw[p] \subseteq Objs /\ UNCHANGED gcphase /\ pc[p] = "heap"
      BY <1>0, <1>15 DEF Get
    <3>3. CASE \E o \in gcw[p] \ S :
                  /\ hand' = [hand EXCEPT ![p] = o] /\ pc' = [pc EXCEPT ![p] = "scan"]
                  /\ gcw' = [gcw EXCEPT ![p] = (gcw[p] \ S) \ {o}]
      BY <3>2, <3>3
    <3>4. CASE \E o \in full \cup S :
                  /\ hand' = [hand EXCEPT ![p] = o] /\ pc' = [pc EXCEPT ![p] = "scan"]
                  /\ gcw' = [gcw EXCEPT ![p] = {}]
      BY <1>0, <3>2, <3>4
    <3>5. CASE /\ gcw[p] \ S = {} /\ full \cup S = {}
               /\ \E l \in {"wait", "exit"} : pc' = [pc EXCEPT ![p] = l]
               /\ UNCHANGED <<gcw, full, hand>>
      BY <3>2, <3>5
    <3>. QED BY <3>1, <3>3, <3>4, <3>5
  <2>2. ASSUME NEW o \in Objs, NEW T \in SUBSET Objs,
               hand' = [hand EXCEPT ![p] = o], pc' = [pc EXCEPT ![p] = "scan"],
               gcw' = [gcw EXCEPT ![p] = T]
        PROVE  Queued'
    <3>1. hand'[p] = o /\ \A q \in Ps : q # p => hand'[q] = hand[q] /\ gcw'[q] = gcw[q]
      BY <1>0, <2>2
    <3>. QED BY <1>0, <1>11, <2>1, <2>2, <3>1
  <2>3. ASSUME NEW l \in {"wait", "exit"}, gcw[p] = {}, full = {}, UNCHANGED <<gcw, full, hand>>,
               pc' = [pc EXCEPT ![p] = l]
        PROVE  Queued'
    <3>1. \A q \in Ps : pc'[q] = IF q = p THEN l ELSE pc[q]
      BY <1>0, <2>3
    <3>2. \A q \in Ps : pc'[q] \in {"wait", "pop", "halt"} => gcw'[q] = {}
      BY <1>0, <2>3, <3>1 DEF Queued
    <3>. QED BY <1>0, <1>1, <2>3, <3>1, <3>2 DEF Queued
  <2>. QED BY <2>1, <2>2, <2>3
<1>16. ASSUME NEW p \in Ps, FindWork(p) \/ NoMoreWork(p) PROVE Queued'
  <2>1. /\ pc[p] = "wait" /\ UNCHANGED <<gcphase, hand, gcw, full>>
        /\ \E l \in {"pop", "halt"} : pc' = [pc EXCEPT ![p] = l]
    BY <1>16 DEF FindWork, NoMoreWork
  <2>2. /\ \A q \in Ps : q # p => pc'[q] = pc[q]
        /\ pc'[p] \in {"pop", "halt"}
    BY <1>0, <2>1
  <2>3. \A q \in Ps : pc'[q] \in {"wait", "pop", "halt"} => gcw'[q] = {}
    BY <1>0, <2>1, <2>2 DEF Queued
  <2>4. gcphase' = "termination" /\ full' # {} => \E q \in Ps : pc'[q] \notin {"wait", "halt"}
    BY <1>0, <2>1, <2>2 DEF Queued
  <2>5. \A q \in Ps : pc'[q] = "scan" => hand'[q] # Nil
    BY <1>0, <2>1, <2>2 DEF Queued
  <2>. QED BY <1>1, <2>3, <2>4, <2>5
<1>17. ASSUME NEW p \in Ps, PopWork(p) PROVE Queued'
  <2>1. pc[p] = "pop" /\ UNCHANGED <<gcphase, gcw>>
    BY <1>17 DEF PopWork
  <2>2. CASE full = {}
    <3>1. UNCHANGED <<full, hand>> /\ pc' = [pc EXCEPT ![p] = "wait"]
      BY <1>17, <2>2 DEF PopWork
    <3>2. \A q \in Ps : pc'[q] = IF q = p THEN "wait" ELSE pc[q]
      BY <1>0, <3>1
    <3>. QED BY <1>0, <1>1, <2>1, <2>2, <3>1, <3>2 DEF Queued
  <2>3. CASE full # {}
    <3>1. PICK o \in full : hand' = [hand EXCEPT ![p] = o] /\ pc' = [pc EXCEPT ![p] = "scan"]
      BY <1>17, <2>3 DEF PopWork
    <3>2. hand'[p] = o /\ o \in Objs /\ \A q \in Ps : q # p => hand'[q] = hand[q]
      BY <1>0, <3>1
    <3>. QED BY <1>0, <1>11, <2>1, <3>1, <3>2
  <2>. QED BY <2>2, <2>3
<1>18. ASSUME NEW p \in Ps, MarkDone(p) \/ EnterMark2(p) \/ Flushed(p) PROVE Queued'
  BY <1>2, <1>18 DEF MarkDone, EnterMark2, Flushed
<1>19. ASSUME NEW p \in Ps, NEW q \in Ps, Flush(p, q) PROVE Queued'
  <2>1. gcphase = "mark" /\ UNCHANGED <<gcphase, pc, hand>>
    BY <1>0, <1>19 DEF Flush, Ending
  <2>. QED BY <1>0, <1>1, <2>1 DEF Queued
<1>20. ASSUME NEW p \in Ps, Terminate(p) PROVE Queued'
  <2>1. pc' = [q \in Ps |-> "roots"]
    BY <1>20 DEF Terminate
  <2>. QED BY <1>0, <1>1, <2>1
<1>. QED
  BY <1>3, <1>4, <1>5, <1>6, <1>7, <1>8, <1>9, <1>12, <1>13, <1>14, <1>15, <1>16, <1>17,
     <1>18, <1>19, <1>20, Steps

-----------------------------------------------------------------------------
\* When the helpers have all halted, every root job has been done and every mark is complete.
LEMMA AtTheEnd ==
  ASSUME IInv, gcphase = "termination", \A p \in Ps : pc[p] = "halt"
  PROVE  /\ full = {} /\ \A p \in Ps : gcw[p] = {}
         /\ markrootNext >= markrootJobs /\ gcscandone = Gs /\ stkbar = {}
         /\ \A g \in Gs : barrier[g] = NoBarrier
         /\ global \in marked \cup {Nil}
         /\ \A g \in Gs : \A k \in 1 .. depth[g] : stack[g][k] \in marked \cup {Nil}
         /\ \A o \in marked : heap[o] \in marked \cup {Nil}
         /\ marked \subseteq used /\ Safe = used
<1>1. /\ NG \in Nat \ {0} /\ Gs = 1 .. NG /\ AllJobs = 1 + NG /\ Ps # {}
      /\ NoBarrier.ptr = Nil /\ markrootNext \in Nat /\ markrootJobs \in Nat
      /\ gcscandone \subseteq Gs /\ stkbar \subseteq Gs
  BY SizeAssumption DEF Gs, AllJobs, NoBarrier, IInv, TypeOK
<1>2. /\ ~gcBlackenPromptly /\ unswept = {} /\ sweeping = {}
  BY DEF IInv, Phases
<1>3. /\ markrootNext >= markrootJobs /\ markrootJobs = AllJobs
  BY <1>1, <1>2 DEF IInv, Jobs
<1>4. \A j \in 0 .. NG : JobDone(j)
  BY <1>1, <1>3 DEF JobDone
<1>5. /\ \A g \in Gs : JobDone(g)
      /\ JobDone(0)
  BY <1>1, <1>4
<1>6. gcscandone = Gs
  BY <1>1, <1>2, <1>5 DEF IInv, Jobs
<1>7. /\ global \in marked \cup {Nil} /\ stkbar = {}
      /\ \A g \in Gs : \A k \in 1 .. depth[g] : stack[g][k] \in marked \cup {Nil}
  BY <1>1, <1>5 DEF IInv, Rescans
<1>8. Queue = {} /\ full = {} /\ \A p \in Ps : gcw[p] = {}
  BY NothingQueued DEF IInv
<1>9. \A g \in Gs : barrier[g] = NoBarrier
  BY DEF IInv, Barriers
<1>10. \A o \in marked : heap[o] \in marked \cup {Nil}
  BY <1>1, <1>8, <1>9 DEF IInv, Tricolor, Shaded
<1>11. marked \subseteq used /\ Safe = used
  BY <1>2 DEF IInv, Memory, Safe, Garbage
<1>. QED BY <1>3, <1>6, <1>7, <1>8, <1>9, <1>10, <1>11

\* What goroutines can get at is allocated, and no sweep is about to free it.
LEMMA NextMemory ==
  ASSUME IInv, [Next]_vars
  PROVE  Memory'
<1>. USE DEF mem, gvars, spans, work, cycle, drain
<1>0. /\ TypeOK /\ Phases /\ Barriers /\ Memory /\ Queued
      /\ heap \in [Objs -> Ptr] /\ Ptr = Objs \cup {Nil} /\ Nil \notin Objs
      /\ stack \in [Gs -> [1 .. 2 -> Ptr]] /\ depth \in [Gs -> 1 .. 2]
      /\ marked \subseteq Objs /\ used \subseteq Objs
      /\ NoBarrier.ptr = Nil /\ Safe \subseteq used
  BY NilAssumption DEF IInv, TypeOK, Ptr, NoBarrier, Safe
<1>1. /\ gcphase # "off" => Safe = used
      /\ ~gcBlackenPromptly \/ gcphase = "mark"
  BY <1>0 DEF Phases, Safe, Garbage
\* The pointers stay where they are.
<1>2. ASSUME UNCHANGED <<mem, stack, depth, barrier>>, (gcphase = "off") <=> (gcphase' = "off"),
             unswept' \cup sweeping' = unswept \cup sweeping,
             marked' = marked \/ (gcphase # "off" /\ unswept' \cup sweeping' = {} /\ marked' \subseteq marked \cup Safe)
      PROVE  Memory'
  <2>1. Safe' = Safe
    <3>1. CASE marked' = marked
      BY <1>2, <3>1 DEF Safe, Garbage
    <3>2. CASE marked' # marked
      BY <1>2, <3>2 DEF Safe, Garbage
    <3>. QED BY <3>1, <3>2
  <2>2. /\ SafePtr(global)'
        /\ \A g \in Gs : SafePtr(barrier[g].ptr)' /\ \A k \in 1 .. depth'[g] : SafePtr(stack[g][k])'
        /\ \A o \in Safe' : SafePtr(heap[o])'
    BY <1>0, <1>2, <2>1 DEF Memory, SafePtr
  <2>3. gcphase' # "off" => marked' \subseteq used'
    BY <1>0, <1>2 DEF Memory
  <2>4. gcphase' = "off" => \A o \in marked' : SpanOf[o] \in unswept' \cup sweeping'
    BY <1>0, <1>2 DEF Memory
  <2>. QED BY <2>2, <2>3, <2>4 DEF Memory
\* Pointers are copied.
<1>3. ASSUME UNCHANGED <<used, marked, spans, gcphase>>,
             global' \in Safe \cup {Nil},
             \A g \in Gs : barrier'[g].ptr \in Safe \cup {Nil},
             \A g \in Gs : \A k \in 1 .. depth'[g] : stack'[g][k] \in Safe \cup {Nil},
             \A o \in Safe : heap'[o] \in Safe \cup {Nil}
      PROVE  Memory'
  <2>1. Safe' = Safe
    BY <1>3 DEF Safe, Garbage
  <2>. QED BY <1>0, <1>3, <2>1 DEF Memory, SafePtr
\* The pointers that a goroutine can copy.
<1>4. /\ global \in Safe \cup {Nil}
      /\ \A g \in Gs : barrier[g].ptr \in Safe \cup {Nil}
      /\ \A g \in Gs : \A k \in 1 .. depth[g] : stack[g][k] \in Safe \cup {Nil}
      /\ \A o \in Safe : heap[o] \in Safe \cup {Nil}
      /\ \A g \in Gs : Held(g) \subseteq Safe
      /\ \A g \in Gs : stack[g][1] \in Safe \cup {Nil} /\ stack[g][depth[g]] \in Safe \cup {Nil}
      /\ \A g \in Gs : depth[g] \in 1 .. 2
      /\ Safe \subseteq Objs
  <2>1. /\ global \in Safe \cup {Nil}
        /\ \A g \in Gs : barrier[g].ptr \in Safe \cup {Nil}
        /\ \A g \in Gs : \A k \in 1 .. depth[g] : stack[g][k] \in Safe \cup {Nil}
        /\ \A o \in Safe : heap[o] \in Safe \cup {Nil}
    BY <1>0 DEF Memory, SafePtr
  <2>2. \A g \in Gs : depth[g] \in 1 .. 2
    BY <1>0
  <2>3. \A g \in Gs : stack[g][1] \in Safe \cup {Nil} /\ stack[g][depth[g]] \in Safe \cup {Nil}
    BY <2>1, <2>2
  <2>4. \A g \in Gs : Held(g) \subseteq Safe
    BY <2>1 DEF Held
  <2>. QED BY <1>0, <2>1, <2>2, <2>3, <2>4
<1>5. ASSUME NEW g \in Gs, NEW v \in Safe \cup {Nil}, NEW h \in 0 .. NG, Barriered(g, v, h)
      PROVE  \A k \in Gs : barrier'[k].ptr \in Safe \cup {Nil}
  <2>1. v \in Ptr
    BY <1>0
  <2>2. /\ gcphase = "mark" => /\ barrier'[g] = [ptr |-> v, wakes |-> h]
                               /\ \A k \in Gs : k # g => barrier'[k] = barrier[k]
        /\ gcphase # "mark" => UNCHANGED barrier
    BY <1>0, <1>5, <2>1, Stored
  <2>3. gcphase = "mark" => barrier'[g].ptr = v
    BY <2>2
  <2>. QED BY <1>4, <2>2, <2>3
<1>6. CASE UNCHANGED vars
  BY <1>2, <1>6 DEF vars
<1>7. CASE Start
  <2>1. /\ gcphase = "off" /\ sweeping = {} /\ unswept' = {} /\ sweeping' = {}
        /\ used' = used \ Garbage(unswept) /\ marked' = marked \ MarksOf(unswept)
        /\ UNCHANGED <<heap, global, stack, depth, barrier>> /\ gcphase' = "mark"
    BY <1>7 DEF Start
  <2>2. Safe' = Safe
    BY <2>1 DEF Safe, Garbage
  <2>3. marked' = {}
    BY <1>0, <2>1 DEF Memory, MarksOf
  <2>. QED BY <1>0, <2>1, <2>2, <2>3 DEF Memory, SafePtr
<1>8. CASE Finish
  <2>1. /\ gcphase = "termination" /\ \A p \in Ps : pc[p] = "halt"
        /\ gcphase' = "off" /\ unswept' = InUse(used) /\ UNCHANGED <<mem, gvars, marked, sweeping>>
    BY <1>8 DEF Finish
  <2>2. /\ \A g \in Gs : barrier[g] = NoBarrier
        /\ global \in marked \cup {Nil}
        /\ \A g \in Gs : \A k \in 1 .. depth[g] : stack[g][k] \in marked \cup {Nil}
        /\ \A o \in marked : heap[o] \in marked \cup {Nil}
        /\ marked \subseteq used
    BY <2>1, AtTheEnd
  <2>3. sweeping = {}
    BY <1>0, <2>1 DEF Phases
  <2>4. \A o \in used : SpanOf[o] \in unswept'
    BY <2>1 DEF InUse
  <2>5. Safe' = marked
    BY <1>0, <2>1, <2>2, <2>3, <2>4 DEF Safe, Garbage
  <2>. QED BY <1>0, <2>1, <2>2, <2>4, <2>5 DEF Memory, SafePtr
<1>9. ASSUME NEW g \in Gs, NEW p \in Ps, Execute(g, p) PROVE Memory'
  BY <1>2, <1>9 DEF Execute
<1>10. ASSUME NEW g \in Gs, Leave(g) PROVE Memory'
  BY <1>2, <1>10 DEF Leave
<1>11. ASSUME NEW g \in Gs, Move(g) PROVE Memory'
  <2>1. PICK v \in {Nil, global} \cup {stack[g][1]} \cup {heap[o] : o \in Held(g)} :
           stack' = [stack EXCEPT ![g][depth[g]] = v]
    BY <1>11 DEF Move
  <2>2. v \in Safe \cup {Nil}
    BY <1>4
  <2>3. UNCHANGED <<mem, depth, barrier, marked, spans, gcphase>>
    BY <1>11 DEF Move
  <2>4. \A k \in Gs : \A i \in 1 .. depth'[k] : stack'[k][i] \in Safe \cup {Nil}
    BY <1>0, <1>4, <2>1, <2>2, <2>3
  <2>. QED BY <1>3, <1>4, <2>3, <2>4
<1>12. ASSUME NEW g \in Gs, Call(g) PROVE Memory'
  <2>1. /\ depth' = [depth EXCEPT ![g] = 2] /\ stack' = [stack EXCEPT ![g][2] = stack[g][1]]
        /\ UNCHANGED <<mem, barrier, marked, spans, gcphase>>
        /\ depth[g] = 1 \/ depth[g] = 2
    BY <1>4, <1>12 DEF Call
  <2>2. \A i \in 1 .. 2 : stack'[g][i] \in Safe \cup {Nil}
    BY <1>0, <1>4, <2>1
  <2>3. \A k \in Gs : \A i \in 1 .. depth'[k] : stack'[k][i] \in Safe \cup {Nil}
    BY <1>0, <1>4, <2>1, <2>2
  <2>. QED BY <1>3, <1>4, <2>1, <2>3
<1>13. ASSUME NEW g \in Gs, ReturnTo(g) PROVE Memory'
  <2>1. PICK v \in {stack[g][1], stack[g][2]} :
           stack' = [stack EXCEPT ![g] = [k \in 1 .. 2 |-> IF k = 1 THEN v ELSE Nil]]
    BY <1>13 DEF ReturnTo
  <2>2. /\ depth[g] = 2 /\ depth' = [depth EXCEPT ![g] = 1]
        /\ UNCHANGED <<mem, barrier, marked, spans, gcphase>>
    BY <1>13 DEF ReturnTo
  <2>3. v \in Safe \cup {Nil}
    BY <1>4, <2>2
  <2>4. \A k \in Gs : \A i \in 1 .. depth'[k] : stack'[k][i] \in Safe \cup {Nil}
    BY <1>0, <1>4, <2>1, <2>2, <2>3
  <2>. QED BY <1>3, <1>4, <2>2, <2>4
<1>14. ASSUME NEW g \in Gs, StoreUp(g) PROVE Memory'
  <2>1. /\ depth[g] = 2 /\ stack' = [stack EXCEPT ![g][1] = stack[g][2]]
        /\ UNCHANGED <<mem, depth, marked, spans, gcphase>>
    BY <1>14 DEF StoreUp
  <2>2. PICK v \in Safe \cup {Nil} : v = stack[g][2]
    BY <1>4, <2>1
  <2>3. \A k \in Gs : \A i \in 1 .. depth'[k] : stack'[k][i] \in Safe \cup {Nil}
    BY <1>0, <1>4, <2>1, <2>2
  <2>4. \A k \in Gs : barrier'[k].ptr \in Safe \cup {Nil}
    BY <1>5, <1>14, <2>2, SizeAssumption DEF StoreUp
  <2>. QED BY <1>3, <1>4, <2>1, <2>3, <2>4
<1>15. ASSUME NEW g \in Gs, StoreHeap(g) PROVE Memory'
  <2>1. PICK o \in (Held(g) \cup {global}) \ {Nil}, v \in Held(g) \cup {global, Nil} :
          heap' = [heap EXCEPT ![o] = v] /\ Barriered(g, v, 0)
    BY <1>15 DEF StoreHeap
  <2>2. v \in Safe \cup {Nil}
    BY <1>4
  <2>3. \A x \in Safe : heap'[x] \in Safe \cup {Nil}
    BY <1>0, <1>4, <2>1, <2>2
  <2>4. \A k \in Gs : barrier'[k].ptr \in Safe \cup {Nil}
    BY <1>5, <2>1, <2>2, SizeAssumption
  <2>5. UNCHANGED <<used, global, stack, depth, marked, spans, gcphase>>
    BY <1>15 DEF StoreHeap
  <2>. QED BY <1>3, <1>4, <2>3, <2>4, <2>5
<1>16. ASSUME NEW g \in Gs, StoreGlobal(g) PROVE Memory'
  <2>1. global' \in Safe \cup {Nil}
    BY <1>4, <1>16 DEF StoreGlobal
  <2>. QED BY <1>3, <1>4, <1>16, <2>1 DEF StoreGlobal
<1>17. ASSUME NEW g \in Gs, NEW h \in Gs, Send(g, h) PROVE Memory'
  <2>1. PICK v \in Safe \cup {Nil} : v = stack[g][depth[g]]
    BY <1>4
  <2>2. /\ stack' = [stack EXCEPT ![h][depth[h]] = v] /\ Barriered(g, v, h)
        /\ UNCHANGED <<mem, depth, marked, spans, gcphase>>
    BY <1>17, <2>1 DEF Send
  <2>3. \A k \in Gs : \A i \in 1 .. depth'[k] : stack'[k][i] \in Safe \cup {Nil}
    BY <1>0, <1>4, <2>2
  <2>4. h \in 0 .. NG
    BY SizeAssumption DEF Gs
  <2>5. \A k \in Gs : barrier'[k].ptr \in Safe \cup {Nil}
    BY <1>5, <2>2, <2>4
  <2>. QED BY <1>3, <1>4, <2>2, <2>3, <2>5
<1>18. ASSUME NEW g \in Gs, Shade(g) PROVE Memory'
  <2>1. gcphase # "off"
    BY <1>0, <1>18 DEF Shade, Barriers
  <2>2. marked' \subseteq marked \cup Safe
    BY <1>4, <1>18 DEF Shade, New
  <2>3. /\ UNCHANGED <<mem, stack, depth, spans, gcphase>>
        /\ barrier' = [barrier EXCEPT ![g] = NoBarrier]
    BY <1>18 DEF Shade
  <2>4. Safe' = Safe
    BY <1>0, <2>1, <2>3 DEF Phases, Safe, Garbage
  <2>5. \A k \in Gs : barrier'[k] = IF k = g THEN NoBarrier ELSE barrier[k]
    BY <1>0, <2>3 DEF TypeOK
  <2>6. \A k \in Gs : SafePtr(barrier[k].ptr)'
    BY <1>0, <1>4, <2>4, <2>5 DEF SafePtr
  <2>. QED BY <1>0, <2>1, <2>2, <2>3, <2>4, <2>6 DEF Memory, SafePtr
<1>19. ASSUME NEW g \in Gs, Malloc(g) PROVE Memory'
  <2>1. PICK o \in Objs \ used :
          /\ SpanOf[o] \notin unswept \cup sweeping
          /\ used' = used \cup {o} /\ heap' = [heap EXCEPT ![o] = Nil]
          /\ stack' = [stack EXCEPT ![g][depth[g]] = o]
          /\ marked' = IF gcBlackenPromptly THEN marked \cup {o} ELSE marked
    BY <1>19 DEF Malloc
  <2>2. UNCHANGED <<global, depth, barrier, spans, gcphase>>
    BY <1>19 DEF Malloc
  <2>3. Safe' = Safe \cup {o}
    BY <1>0, <2>1, <2>2 DEF Safe, Garbage
  <2>4. \A x \in Safe' : heap'[x] \in Safe' \cup {Nil}
    BY <1>0, <1>4, <2>1, <2>3
  <2>5. \A k \in Gs : \A i \in 1 .. depth'[k] : stack'[k][i] \in Safe' \cup {Nil}
    BY <1>0, <1>4, <2>1, <2>2, <2>3
  <2>6. gcphase' # "off" => marked' \subseteq used'
    BY <1>0, <2>1, <2>2 DEF Memory
  <2>7. gcphase' = "off" => \A x \in marked' : SpanOf[x] \in unswept' \cup sweeping'
    BY <1>0, <1>1, <2>1, <2>2 DEF Memory
  <2>. QED BY <1>4, <2>2, <2>3, <2>4, <2>5, <2>6, <2>7 DEF Memory, SafePtr
<1>20. ASSUME NEW s \in Spans, SweepBegin(s) PROVE Memory'
  <2>1. unswept' \cup sweeping' = unswept \cup sweeping
    BY <1>20 DEF SweepBegin
  <2>. QED BY <1>2, <1>20, <2>1 DEF SweepBegin
<1>21. ASSUME NEW s \in Spans, Sweep(s) PROVE Memory'
  <2>1. /\ s \in sweeping /\ sweeping' = sweeping \ {s} /\ UNCHANGED <<heap, global, unswept, gvars, gcphase>>
        /\ used' = used \ Garbage({s}) /\ marked' = marked \ MarksOf({s})
    BY <1>21 DEF Sweep
  <2>2. gcphase = "off" /\ s \notin unswept
    BY <1>0, <2>1 DEF Phases
  <2>3. Safe' = Safe
    BY <2>1, <2>2 DEF Safe, Garbage, MarksOf
  <2>4. \A o \in marked' : SpanOf[o] \in unswept' \cup sweeping'
    BY <1>0, <2>1, <2>2 DEF Memory, MarksOf
  <2>. QED BY <1>0, <2>1, <2>2, <2>3, <2>4 DEF Memory, SafePtr
<1>22. ASSUME NEW p \in Ps, pc[p] # "idle" PROVE gcphase # "off" /\ unswept \cup sweeping = {}
  BY <1>0, <1>22 DEF Phases
<1>23. ASSUME NEW p \in Ps, \/ StartWorker(p) \/ TakeRoot(p) \/ Get(p) \/ Preempt(p) \/ StopDrain(p)
       PROVE  Memory'
  BY <1>2, <1>23 DEF StartWorker, TakeRoot, Get, Preempt, StopDrain
<1>24. ASSUME NEW p \in Ps, ScanGlobals(p) PROVE Memory'
  <2>1. marked' \subseteq marked \cup Safe
    BY <1>4, <1>24 DEF ScanGlobals, New
  <2>. QED BY <1>2, <1>22, <1>24, <2>1 DEF ScanGlobals
<1>25. ASSUME NEW p \in Ps, Scan(p) PROVE Memory'
  <2>1. hand[p] \in Queue /\ gcphase # "off"
    BY <1>22, <1>25, InQueue DEF Scan
  <2>2. hand[p] \in Safe
    BY <1>0, <1>1, <2>1 DEF Queued, Memory
  <2>3. marked' \subseteq marked \cup Safe
    BY <1>4, <1>25, <2>2 DEF Scan, New
  <2>. QED BY <1>2, <1>22, <1>25, <2>3 DEF Scan
<1>26. ASSUME NEW p \in Ps, \/ StopWorker(p) \/ FindWork(p) \/ PopWork(p) \/ NoMoreWork(p)
                            \/ MarkDone(p) \/ EnterMark2(p) \/ Flushed(p)
       PROVE  Memory'
  BY <1>2, <1>26 DEF StopWorker, FindWork, PopWork, NoMoreWork, MarkDone, EnterMark2, Flushed
<1>27. ASSUME NEW p \in Ps, Terminate(p) PROVE Memory'
  <2>1. gcphase # "off"
    BY <1>1, <1>27 DEF Terminate
  <2>. QED BY <1>2, <1>27, <2>1 DEF Terminate
<1>28. ASSUME NEW p \in Ps, NEW g \in Gs, ScanStack(p, g) \/ RescanStack(p, g) PROVE Memory'
  <2>1. Rescanned(g) \subseteq Safe \cup {Nil}
    <3>1. g \in stkbar /\ g \notin gcscanvalid => depth[g] = 2
      <4>1. CASE gcphase = "off"
        BY <1>22, <1>28, <4>1 DEF ScanStack, RescanStack
      <4>2. CASE gcphase # "off"
        BY <4>2 DEF IInv, Stacks
      <4>. QED BY <4>1, <4>2
    <3>. QED BY <1>4, <3>1 DEF Rescanned
  <2>2. marked' \subseteq marked \cup Safe
    BY <1>4, <1>28, <2>1 DEF ScanStack, RescanStack, New
  <2>. QED BY <1>2, <1>22, <1>28, <2>2 DEF ScanStack, RescanStack
<1>29. ASSUME NEW p \in Ps, NEW q \in Ps, Flush(p, q) PROVE Memory'
  BY <1>2, <1>29 DEF Flush
<1>. QED
  BY <1>6, <1>7, <1>8, <1>9, <1>10, <1>11, <1>12, <1>13, <1>14, <1>15, <1>16, <1>17, <1>18,
     <1>19, <1>20, <1>21, <1>23, <1>24, <1>25, <1>26, <1>27, <1>28, <1>29, Steps

-----------------------------------------------------------------------------
\* While the collector marks, what is shaded stays so, and a pointer that is stored in the
\* heap is.
LEMMA ShadedKept ==
  ASSUME IInv, [Next]_vars, gcphase # "off", gcphase' # "off"
  PROVE  /\ \A v : Shaded(v) => Shaded(v)'
         /\ \A o \in Objs : heap'[o] = heap[o] \/ Shaded(heap[o])'
<1>. USE DEF mem, gvars, spans, work, cycle, drain
<1>a. 0 \in 0 .. NG /\ Gs \subseteq 0 .. NG
  BY SizeAssumption DEF Gs
<1>b. marked \subseteq marked'
  BY NextMarking DEF Marking
<1>0. /\ TypeOK /\ Phases /\ Barriers
      /\ marked \subseteq marked' /\ NoBarrier.ptr = Nil
      /\ barrier \in [Gs -> [ptr : Ptr, wakes : 0 .. NG]] /\ heap \in [Objs -> Ptr]
      /\ 0 \in 0 .. NG /\ Gs \subseteq 0 .. NG
  BY <1>a, <1>b DEF IInv, TypeOK, NoBarrier
<1>. DEFINE Good == /\ \A v : Shaded(v) => Shaded(v)'
                    /\ \A o \in Objs : heap'[o] = heap[o] \/ Shaded(heap[o])'
<1>1. CASE UNCHANGED <<heap, barrier>>
  BY <1>0, <1>1 DEF Shaded
<1>2. CASE UNCHANGED vars
  BY <1>1, <1>2 DEF vars
<1>3. CASE Start \/ Finish
  BY <1>1, <1>3 DEF Start, Finish
<1>4. ASSUME NEW g \in Gs, NEW p \in Ps, Execute(g, p) PROVE Good
  BY <1>1, <1>4 DEF Execute
<1>5. ASSUME NEW g \in Gs, Leave(g) \/ Move(g) \/ Call(g) \/ ReturnTo(g) \/ StoreGlobal(g) PROVE Good
  BY <1>1, <1>5 DEF Leave, Move, Call, ReturnTo, StoreGlobal
\* The barrier of a store: g was in none.
<1>6. ASSUME NEW g \in Gs, Running(g), NEW v \in Ptr, NEW h \in 0 .. NG, Barriered(g, v, h)
      PROVE  /\ \A x : Shaded(x) => Shaded(x)'
             /\ Shaded(v)'
  <2>1. gcphase = "mark"
    BY <1>0, <1>6 DEF Running, Phases, TypeOK
  <2>2. /\ barrier'[g] = [ptr |-> v, wakes |-> h]
        /\ \A k \in Gs : k # g => barrier'[k] = barrier[k]
    BY <1>0, <1>6, <2>1, Stored
  <2>3. barrier'[g].ptr = v /\ barrier[g].ptr = Nil
    BY <1>0, <1>6, <2>2 DEF Running
  <2>. QED BY <1>0, <2>2, <2>3 DEF Shaded
<1>7. \A g \in Gs : /\ \A k \in 1 .. 2 : stack[g][k] \in Ptr
                    /\ depth[g] \in 1 .. 2 /\ Held(g) \subseteq Ptr
  <2>1. \A g \in Gs : depth[g] \in 1 .. 2 /\ \A k \in 1 .. 2 : stack[g][k] \in Ptr
    BY <1>0 DEF TypeOK
  <2>. QED BY <2>1 DEF Held
<1>8. ASSUME NEW g \in Gs, StoreUp(g) PROVE Good
  <2>1. stack[g][2] \in Ptr /\ Running(g) /\ Barriered(g, stack[g][2], 0) /\ UNCHANGED heap
    BY <1>7, <1>8 DEF StoreUp, Does
  <2>. QED BY <1>0, <1>6, <2>1
<1>9. ASSUME NEW g \in Gs, StoreHeap(g) PROVE Good
  <2>1. PICK o \in (Held(g) \cup {global}) \ {Nil}, v \in Held(g) \cup {global, Nil} :
          heap' = [heap EXCEPT ![o] = v] /\ Barriered(g, v, 0)
    BY <1>9 DEF StoreHeap
  <2>2. v \in Ptr /\ Running(g)
    BY <1>0, <1>7, <1>9 DEF TypeOK, Ptr, StoreHeap, Does
  <2>3. Shaded(v)' /\ \A x : Shaded(x) => Shaded(x)'
    BY <1>0, <1>6, <2>1, <2>2
  <2>4. \A x \in Objs : heap'[x] = heap[x] \/ heap'[x] = v
    BY <1>0, <2>1
  <2>. QED BY <2>3, <2>4 DEF Shaded
<1>10. ASSUME NEW g \in Gs, NEW h \in Gs, Send(g, h) PROVE Good
  <2>1. PICK v \in Ptr : v = stack[g][depth[g]]
    BY <1>7
  <2>2. Running(g) /\ Barriered(g, v, h) /\ h \in 0 .. NG /\ UNCHANGED heap
    BY <1>0, <1>10, <2>1 DEF Send, Does
  <2>. QED BY <1>6, <2>2
<1>11. ASSUME NEW g \in Gs, Malloc(g) PROVE Good
  <2>1. UNCHANGED barrier /\ \E o \in Objs : heap' = [heap EXCEPT ![o] = Nil]
    BY <1>11 DEF Malloc
  <2>2. \A x \in Objs : heap'[x] = heap[x] \/ heap'[x] = Nil
    BY <1>0, <2>1
  <2>. QED BY <1>0, <2>1, <2>2 DEF Shaded
<1>12. ASSUME NEW g \in Gs, Shade(g) PROVE Good
  <2>1. /\ UNCHANGED heap /\ barrier' = [barrier EXCEPT ![g] = NoBarrier]
        /\ marked' = marked \cup New({barrier[g].ptr})
    BY <1>12 DEF Shade
  <2>2. barrier[g].ptr \in marked' \cup {Nil}
    BY <2>1 DEF New
  <2>3. \A k \in Gs : k # g => barrier'[k] = barrier[k]
    BY <1>0, <2>1
  <2>. QED BY <1>0, <2>1, <2>2, <2>3 DEF Shaded
<1>13. ASSUME NEW s \in Spans, SweepBegin(s) \/ Sweep(s) PROVE Good
  BY <1>1, <1>13 DEF SweepBegin, Sweep
<1>14. ASSUME NEW p \in Ps, \/ StartWorker(p) \/ TakeRoot(p) \/ ScanGlobals(p)
                            \/ Get(p) \/ Scan(p) \/ Preempt(p) \/ StopDrain(p)
       PROVE  Good
  BY <1>1, <1>14 DEF StartWorker, TakeRoot, ScanGlobals, Get, Scan, Preempt, StopDrain
<1>15. ASSUME NEW p \in Ps, \/ StopWorker(p) \/ FindWork(p) \/ PopWork(p) \/ NoMoreWork(p)
                            \/ MarkDone(p) \/ EnterMark2(p) \/ Flushed(p) \/ Terminate(p)
       PROVE  Good
  BY <1>1, <1>15 DEF StopWorker, FindWork, PopWork, NoMoreWork, MarkDone, EnterMark2, Flushed, Terminate
<1>16. ASSUME NEW p \in Ps, NEW g \in Gs, ScanStack(p, g) \/ RescanStack(p, g) PROVE Good
  BY <1>1, <1>16 DEF ScanStack, RescanStack
<1>17. ASSUME NEW p \in Ps, NEW q \in Ps, Flush(p, q) PROVE Good
  BY <1>1, <1>17 DEF Flush
<1>. QED
  BY <1>2, <1>3, <1>4, <1>5, <1>8, <1>9, <1>10, <1>11, <1>12, <1>13, <1>14, <1>15, <1>16, <1>17, Steps

\* No pointer to a white object is left in a black one.
LEMMA NextTricolor ==
  ASSUME IInv, [Next]_vars
  PROVE  Tricolor'
<1>1. CASE gcphase' = "off"
  BY <1>1 DEF Tricolor
<1>2. CASE gcphase = "off" /\ gcphase' # "off"
  <2>1. marked' = marked \ MarksOf(unswept) /\ sweeping = {}
    BY <1>2, PhaseChanges DEF Start
  <2>2. marked' = {}
    BY <1>2, <2>1 DEF IInv, Memory, MarksOf
  <2>. QED BY <2>2 DEF Tricolor
<1>3. CASE gcphase # "off" /\ gcphase' # "off"
  <2>1. Marking /\ marked \subseteq Objs
    BY NextMarking DEF IInv, TypeOK
  <2>2. ASSUME NEW o \in marked' \ Queue' PROVE Shaded(heap[o])'
    <3>1. CASE o \notin marked
      BY <1>3, <2>1, <3>1 DEF Marking, Shaded
    <3>2. CASE o \in Queue
      BY <1>3, <2>1, <3>2 DEF Marking, Shaded
    <3>3. CASE o \in marked \ Queue
      <4>1. Shaded(heap[o])
        BY <1>3, <3>3 DEF IInv, Tricolor
      <4>2. PICK v : v = heap[o]
        OBVIOUS
      <4>3. Shaded(v)' /\ (heap'[o] = v \/ Shaded(heap[o])')
        BY <1>3, <2>1, <3>3, <4>1, <4>2, ShadedKept
      <4>. QED BY <4>3 DEF Shaded
    <3>. QED BY <3>1, <3>2, <3>3
  <2>. QED BY <2>2 DEF Tricolor
<1>. QED BY <1>1, <1>2, <1>3

\* A stack that was scanned leads only to what is shaded, though its goroutine may run: it
\* writes without a barrier to its last frame only.
LEMMA NextStacks ==
  ASSUME IInv, [Next]_vars
  PROVE  Stacks'
<1>. USE DEF mem, gvars, spans, work, cycle, drain
<1>0. /\ TypeOK /\ Phases /\ Barriers /\ Stacks
      /\ stack \in [Gs -> [1 .. 2 -> Ptr]] /\ depth \in [Gs -> 1 .. 2]
      /\ stkbar \subseteq Gs /\ gcscanvalid \subseteq Gs /\ Nil \in Ptr
      /\ gcphase \in {"off", "mark", "termination"}
      /\ barrier \in [Gs -> [ptr : Ptr, wakes : 0 .. NG]]
  BY DEF IInv, TypeOK, Ptr
<1>1. 0 \in 0 .. NG /\ Gs \subseteq 0 .. NG /\ \A g \in Gs : Frames[g] \in 1 .. 2
  BY SizeAssumption DEF Gs
<1>2. \A g \in Gs : depth[g] \in 1 .. 2 /\ \A k \in 1 .. 2 : stack[g][k] \in Ptr
  BY <1>0
<1>3. gcphase # "off" /\ gcphase' # "off" => \A v : Shaded(v) => Shaded(v)'
  BY ShadedKept
\* Each slot that was seen by a scan is as it was, or is shaded.
<1>4. ASSUME (gcphase = "off") <=> (gcphase' = "off"),
             stkbar' \subseteq stkbar, gcscanvalid' \subseteq gcscanvalid,
             gcphase # "off" => \A g \in stkbar' :
               /\ depth'[g] = depth[g]
               /\ stack'[g][1] = stack[g][1] \/ Shaded(stack[g][1])',
             gcphase # "off" => \A g \in gcscanvalid' : \A k \in 1 .. depth'[g] :
               (k \in 1 .. depth[g] /\ stack'[g][k] = stack[g][k]) \/ Shaded(stack[g][k])'
      PROVE  Stacks'
  <2>1. CASE gcphase = "off"
    BY <1>0, <1>4, <2>1 DEF Stacks
  <2>2. CASE gcphase # "off"
    <3>1. ASSUME NEW g \in stkbar' PROVE depth'[g] = 2 /\ Shaded(stack[g][1])'
      <4>1. PICK v : v = stack[g][1]
        OBVIOUS
      <4>2. depth[g] = 2 /\ Shaded(v)
        BY <1>0, <1>4, <2>2, <3>1, <4>1 DEF Stacks
      <4>. QED BY <1>3, <1>4, <2>2, <4>1, <4>2 DEF Shaded
    <3>2. ASSUME NEW g \in gcscanvalid', NEW k \in 1 .. depth'[g] PROVE Shaded(stack[g][k])'
      <4>1. CASE k \in 1 .. depth[g] /\ stack'[g][k] = stack[g][k]
        <5>1. PICK v : v = stack[g][k]
          OBVIOUS
        <5>2. Shaded(v)
          BY <1>0, <1>4, <2>2, <4>1, <5>1 DEF Stacks
        <5>. QED BY <1>3, <1>4, <2>2, <4>1, <5>1, <5>2 DEF Shaded
      <4>. QED BY <1>4, <2>2, <3>2, <4>1
    <3>. QED BY <1>4, <2>2, <3>1, <3>2 DEF Stacks
  <2>. QED BY <2>1, <2>2
<1>5. ASSUME UNCHANGED <<stack, depth>>, (gcphase = "off") <=> (gcphase' = "off"),
             stkbar' \subseteq stkbar, gcscanvalid' \subseteq gcscanvalid
      PROVE  Stacks'
  BY <1>4, <1>5
<1>6. CASE UNCHANGED vars
  BY <1>5, <1>6 DEF vars
<1>7. CASE Start
  BY <1>0, <1>7 DEF Start, Stacks
<1>8. CASE Finish
  <2>1. stkbar = {}
    BY <1>8, AtTheEnd DEF Finish
  <2>. QED BY <1>8, <2>1 DEF Finish, Stacks
<1>9. ASSUME NEW g \in Gs, NEW p \in Ps, Execute(g, p) PROVE Stacks'
  BY <1>5, <1>9 DEF Execute
<1>10. ASSUME NEW g \in Gs, Leave(g) \/ StoreHeap(g) \/ StoreGlobal(g) \/ Shade(g) PROVE Stacks'
  <2>1. UNCHANGED <<stack, depth, gcphase, stkbar, gcscanvalid>>
    BY <1>10 DEF Leave, StoreHeap, StoreGlobal, Shade
  <2>. QED BY <1>5, <2>1
\* A goroutine that runs may have the stack barrier, and then two frames.
<1>11. ASSUME NEW g \in Gs, Running(g)
       PROVE  g \notin gcscanvalid /\ (g \in stkbar => depth[g] = 2)
  BY <1>0, <1>11 DEF Running, Barriers, Stacks
<1>12. ASSUME NEW g \in Gs, Running(g), NEW v, stack' = [stack EXCEPT ![g][depth[g]] = v],
              UNCHANGED <<depth, gcphase, stkbar, gcscanvalid>>
       PROVE  Stacks'
  <2>1. g \notin gcscanvalid /\ (g \in stkbar => depth[g] = 2)
    BY <1>11, <1>12
  <2>2. /\ \A k \in Gs : k # g => stack'[k] = stack[k]
        /\ depth[g] = 2 => stack'[g][1] = stack[g][1]
    BY <1>0, <1>2, <1>12
  <2>. QED BY <1>0, <1>4, <1>12, <2>1, <2>2
<1>13. ASSUME NEW g \in Gs, Move(g) \/ Malloc(g) PROVE Stacks'
  <2>1. /\ Running(g) /\ \E v : stack' = [stack EXCEPT ![g][depth[g]] = v]
        /\ UNCHANGED <<depth, gcphase, stkbar, gcscanvalid>>
    BY <1>13 DEF Move, Malloc, Does
  <2>. QED BY <1>12, <2>1
<1>14. ASSUME NEW g \in Gs, Call(g) PROVE Stacks'
  <2>1. /\ Running(g) /\ depth[g] < Frames[g] /\ UNCHANGED <<gcphase, stkbar, gcscanvalid>>
        /\ depth' = [depth EXCEPT ![g] = 2] /\ stack' = [stack EXCEPT ![g][2] = stack[g][1]]
    BY <1>14 DEF Call, Does
  <2>2. depth[g] # 2
    BY <1>1, <1>2, <2>1
  <2>3. g \notin gcscanvalid /\ g \notin stkbar
    BY <1>11, <2>1, <2>2
  <2>4. \A k \in Gs : k # g => stack'[k] = stack[k] /\ depth'[k] = depth[k]
    BY <1>0, <2>1
  <2>. QED BY <1>0, <1>4, <2>1, <2>3, <2>4
<1>15. ASSUME NEW g \in Gs, ReturnTo(g) PROVE Stacks'
  <2>1. /\ Running(g) /\ UNCHANGED <<gcphase, gcscanvalid>>
        /\ depth' = [depth EXCEPT ![g] = 1] /\ stkbar' = stkbar \ {g}
        /\ \E v : stack' = [stack EXCEPT ![g] = v]
    BY <1>15 DEF ReturnTo, Does
  <2>2. g \notin gcscanvalid
    BY <1>11, <2>1
  <2>3. \A k \in Gs : k # g => stack'[k] = stack[k] /\ depth'[k] = depth[k]
    BY <1>0, <2>1
  <2>. QED BY <1>0, <1>4, <2>1, <2>2, <2>3
\* A store to a stack whose barrier has the pointer.
<1>16. ASSUME NEW g \in Gs, Running(g), NEW v \in Ptr, NEW h \in 0 .. NG, Barriered(g, v, h), gcphase # "off"
       PROVE  Shaded(v)'
  <2>1. gcphase = "mark"
    BY <1>0, <1>16 DEF Running, Phases
  <2>2. barrier'[g] = [ptr |-> v, wakes |-> h]
    BY <1>0, <1>16, <2>1, Stored
  <2>3. barrier'[g].ptr = v
    BY <2>2
  <2>. QED BY <2>3 DEF Shaded
<1>17. ASSUME NEW g \in Gs, StoreUp(g) PROVE Stacks'
  <2>1. /\ Running(g) /\ UNCHANGED <<depth, gcphase, stkbar, gcscanvalid>>
        /\ stack' = [stack EXCEPT ![g][1] = stack[g][2]] /\ Barriered(g, stack[g][2], 0)
    BY <1>17 DEF StoreUp, Does
  <2>2. PICK v \in Ptr : v = stack[g][2]
    BY <1>2
  <2>3. gcphase # "off" => Shaded(v)'
    BY <1>1, <1>16, <2>1, <2>2
  <2>4. stack'[g][1] = v /\ \A k \in Gs : k # g => stack'[k] = stack[k]
    BY <1>0, <2>1, <2>2
  <2>5. g \notin gcscanvalid
    BY <1>11, <2>1
  <2>6. gcphase # "off" => Shaded(stack[g][1])'
    BY <2>3, <2>4 DEF Shaded
  <2>. QED BY <1>0, <1>4, <2>1, <2>4, <2>5, <2>6
<1>18. ASSUME NEW g \in Gs, NEW h \in Gs, Send(g, h) PROVE Stacks'
  <2>1. PICK v \in Ptr : v = stack[g][depth[g]]
    BY <1>2
  <2>2. /\ Running(g) /\ UNCHANGED <<depth, gcphase, stkbar, gcscanvalid>>
        /\ stack' = [stack EXCEPT ![h][depth[h]] = v] /\ Barriered(g, v, h)
    BY <1>18, <2>1 DEF Send, Does
  <2>3. gcphase # "off" => Shaded(v)'
    BY <1>1, <1>16, <2>2
  <2>4. /\ \A k \in Gs : k # h => stack'[k] = stack[k]
        /\ \A k \in 1 .. 2 : stack'[h][k] = IF k = depth[h] THEN v ELSE stack[h][k]
    BY <1>0, <1>2, <2>2
  <2>5. gcphase # "off" => \A k \in 1 .. 2 : stack'[h][k] = stack[h][k] \/ Shaded(stack[h][k])'
    BY <2>3, <2>4 DEF Shaded
  <2>6. gcphase # "off" => \A k \in stkbar' : stack'[k][1] = stack[k][1] \/ Shaded(stack[k][1])'
    BY <1>0, <2>2, <2>4, <2>5
  <2>7. gcphase # "off" => \A j \in gcscanvalid' : \A k \in 1 .. depth'[j] :
               (k \in 1 .. depth[j] /\ stack'[j][k] = stack[j][k]) \/ Shaded(stack[j][k])'
    <3>1. \A j \in Gs : \A k \in 1 .. depth'[j] : k \in 1 .. depth[j] /\ k \in 1 .. 2
      BY <1>2, <2>2
    <3>. QED BY <1>0, <2>2, <2>4, <2>5, <3>1
  <2>. QED BY <1>4, <2>2, <2>6, <2>7
<1>19. ASSUME NEW s \in Spans, SweepBegin(s) \/ Sweep(s) PROVE Stacks'
  BY <1>5, <1>19 DEF SweepBegin, Sweep
<1>20. ASSUME NEW p \in Ps, \/ StartWorker(p) \/ TakeRoot(p) \/ ScanGlobals(p)
                            \/ Get(p) \/ Scan(p) \/ Preempt(p) \/ StopDrain(p)
       PROVE  Stacks'
  BY <1>5, <1>20 DEF StartWorker, TakeRoot, ScanGlobals, Get, Scan, Preempt, StopDrain
<1>21. ASSUME NEW p \in Ps, \/ StopWorker(p) \/ FindWork(p) \/ PopWork(p) \/ NoMoreWork(p)
                            \/ MarkDone(p) \/ EnterMark2(p) \/ Flushed(p)
       PROVE  Stacks'
  BY <1>5, <1>21 DEF StopWorker, FindWork, PopWork, NoMoreWork, MarkDone, EnterMark2, Flushed
<1>22. ASSUME NEW p \in Ps, NEW q \in Ps, Flush(p, q) PROVE Stacks'
  BY <1>5, <1>22 DEF Flush
<1>23. ASSUME NEW p \in Ps, Terminate(p) PROVE Stacks'
  <2>1. gcphase # "off" /\ gcphase' # "off"
    BY <1>0, <1>23 DEF Terminate, Phases
  <2>. QED BY <1>5, <1>23, <2>1 DEF Terminate
\* The scan of g.
<1>24. ASSUME NEW p \in Ps, NEW g \in Gs, UNCHANGED <<stack, depth, gcphase>>, gcphase # "off",
              stkbar' \subseteq stkbar \cup {g}, gcscanvalid' \subseteq gcscanvalid \cup {g},
              g \in stkbar' => depth[g] = 2,
              g \in stkbar' \cup gcscanvalid' => \A k \in 1 .. depth[g] : Shaded(stack[g][k])'
       PROVE  Stacks'
  <2>1. ASSUME NEW h \in stkbar', h # g PROVE depth'[h] = 2 /\ Shaded(stack[h][1])'
    <3>1. PICK v : v = stack[h][1]
      OBVIOUS
    <3>2. depth[h] = 2 /\ Shaded(v)
      BY <1>0, <1>24, <2>1, <3>1 DEF Stacks
    <3>. QED BY <1>3, <1>24, <3>1, <3>2 DEF Shaded
  <2>2. ASSUME NEW h \in gcscanvalid', h # g, NEW k \in 1 .. depth'[h] PROVE Shaded(stack[h][k])'
    <3>1. PICK v : v = stack[h][k]
      OBVIOUS
    <3>2. Shaded(v)
      BY <1>0, <1>24, <2>2, <3>1 DEF Stacks
    <3>. QED BY <1>3, <1>24, <3>1, <3>2 DEF Shaded
  <2>3. g \in stkbar' => depth'[g] = 2 /\ Shaded(stack[g][1])'
    BY <1>2, <1>24
  <2>. QED BY <1>24, <2>1, <2>2, <2>3 DEF Stacks
<1>25. ASSUME NEW p \in Ps, NEW g \in Gs, ScanStack(p, g) PROVE Stacks'
  <2>1. /\ UNCHANGED <<stack, depth, gcphase>> /\ gcphase = "mark"
        /\ stkbar' \subseteq stkbar \cup {g} /\ gcscanvalid' \subseteq gcscanvalid \cup {g}
        /\ marked' = marked \cup Held(g) /\ (g \in stkbar' => g \in stkbar \/ depth[g] = 2)
    BY <1>25 DEF ScanStack
  <2>2. \A k \in 1 .. depth[g] : stack[g][k] \in marked' \cup {Nil}
    BY <2>1 DEF Held
  <2>3. \A k \in 1 .. depth[g] : Shaded(stack[g][k])'
    BY <2>1, <2>2 DEF Shaded
  <2>4. g \in stkbar' => depth[g] = 2
    BY <1>0, <2>1 DEF Stacks
  <2>. QED BY <1>24, <2>1, <2>3, <2>4
<1>26. ASSUME NEW p \in Ps, NEW g \in Gs, RescanStack(p, g) PROVE Stacks'
  <2>1. /\ UNCHANGED <<stack, depth, gcphase>> /\ gcphase = "termination"
        /\ stkbar' = stkbar \ {g} /\ gcscanvalid' = gcscanvalid \cup {g}
        /\ marked' = marked \cup New(Rescanned(g))
    BY <1>26 DEF RescanStack
  <2>2. Rescanned(g) \subseteq marked' \cup {Nil}
    BY <2>1 DEF New
  <2>3. ASSUME NEW k \in 1 .. depth[g] PROVE Shaded(stack[g][k])'
    <3>1. PICK v : v = stack[g][k]
      OBVIOUS
    <3>2. Shaded(v) \/ v \in marked' \cup {Nil}
      <4>1. CASE g \in gcscanvalid
        BY <1>0, <2>1, <3>1, <4>1 DEF Stacks
      <4>2. CASE g \notin gcscanvalid /\ g \in stkbar
        <5>1. Rescanned(g) = {stack[g][2]} /\ (k = 1 \/ k = 2)
          BY <1>2, <4>2 DEF Rescanned
        <5>. QED BY <1>0, <2>1, <2>2, <3>1, <4>2, <5>1 DEF Stacks
      <4>3. CASE g \notin gcscanvalid /\ g \notin stkbar
        BY <2>2, <3>1, <4>3 DEF Rescanned, Held
      <4>. QED BY <4>1, <4>2, <4>3
    <3>3. Shaded(v)'
      BY <1>3, <2>1, <3>2 DEF Shaded
    <3>. QED BY <2>1, <3>1, <3>3 DEF Shaded
  <2>. QED BY <1>24, <2>1, <2>3
<1>. QED
  BY <1>6, <1>7, <1>8, <1>9, <1>10, <1>13, <1>14, <1>15, <1>17, <1>18, <1>19, <1>20, <1>21,
     <1>22, <1>23, <1>25, <1>26, Steps

\* The roots that mark termination has scanned are marked, and no goroutine changes them.
LEMMA NextRescans ==
  ASSUME IInv, [Next]_vars
  PROVE  Rescans'
<1>. USE DEF mem, gvars, spans, work, cycle, drain
<1>0. /\ TypeOK /\ Phases /\ Barriers /\ Ending /\ Jobs /\ Rescans /\ Stacks'
      /\ hand \in [Ps -> Ptr \cup 0 .. NG]
      /\ NG \in Nat \ {0} /\ Gs = 1 .. NG /\ Nil \notin Ps
  BY NextStacks, SizeAssumption, NilAssumption DEF IInv, TypeOK, Gs
<1>1. CASE gcphase' # "termination"
  BY <1>1 DEF Rescans
<1>2. CASE gcphase' = "termination" /\ gcphase # "termination"
  <2>1. PICK p \in Ps : Terminate(p)
    BY <1>2, PhaseChanges DEF Start, TypeOK, IInv
  <2>2. markrootNext' = 0
    BY <2>1 DEF Terminate
  <2>3. ~JobDone(0)' /\ \A g \in Gs : ~JobDone(g)'
    BY <1>0, <2>2 DEF JobDone
  <2>. QED BY <2>3 DEF Rescans
<1>3. CASE gcphase' = "termination" /\ gcphase = "termination"
  <2>0. /\ marked \subseteq marked'
        /\ \A g \in Gs : ~Running(g) /\ barrier[g] = NoBarrier
        /\ unswept = {} /\ sweeping = {}
        /\ 0 \in 0 .. NG /\ Gs \subseteq 0 .. NG
    <3>1. marked \subseteq marked'
      BY <1>3, NextMarking DEF Marking
    <3>2. \A g \in Gs : ~Running(g) /\ barrier[g] = NoBarrier
      BY <1>0, <1>3 DEF Phases, Barriers, Running
    <3>3. 0 \in 0 .. NG /\ Gs \subseteq 0 .. NG
      BY <1>0
    <3>. QED BY <1>0, <1>3, <3>1, <3>2, <3>3 DEF Phases
  <2>1. ASSUME UNCHANGED <<global, stack, depth, stkbar>>,
               \A j \in 0 .. NG : JobDone(j)' => JobDone(j)
        PROVE  Rescans'
    BY <1>0, <1>3, <2>0, <2>1 DEF Rescans
  <2>2. CASE UNCHANGED vars
    BY <2>1, <2>2 DEF vars, JobDone
  <2>3. CASE Start \/ Finish
    BY <1>3, <2>3 DEF Start, Finish
  <2>4. ASSUME NEW g \in Gs, \/ Leave(g) \/ Move(g) \/ Call(g) \/ ReturnTo(g)
                             \/ StoreUp(g) \/ StoreHeap(g) \/ StoreGlobal(g)
                             \/ Shade(g) \/ Malloc(g) \/ \E h \in Gs : Send(g, h)
        PROVE  FALSE
    BY <2>0, <2>4 DEF Leave, Move, Call, ReturnTo, StoreUp, StoreHeap, StoreGlobal, Shade, Malloc, Send, Does
  <2>5. ASSUME NEW g \in Gs, NEW p \in Ps, Execute(g, p) PROVE FALSE
    BY <1>3, <2>5 DEF Execute, Stopped
  <2>6. ASSUME NEW s \in Spans, SweepBegin(s) \/ Sweep(s) PROVE FALSE
    BY <2>0, <2>6 DEF SweepBegin, Sweep
  <2>7. ASSUME NEW p \in Ps, StartWorker(p) \/ Preempt(p) \/ StopDrain(p) \/ StopWorker(p) PROVE FALSE
    BY <1>0, <1>3, <2>7 DEF StartWorker, Preempt, StopDrain, StopWorker, Phases
  \* A helper that has no root job.
  <2>8. ASSUME NEW p \in Ps, NEW l, pc' = [pc EXCEPT ![p] = l], pc[p] # "root", l # "root",
               UNCHANGED <<markrootNext, markrootJobs>>, \A q \in Ps : q # p => hand'[q] = hand[q],
               UNCHANGED <<global, stack, depth, stkbar>>
        PROVE  Rescans'
    BY <1>0, <2>1, <2>8, JobsKept
  <2>9. ASSUME NEW p \in Ps, Get(p) \/ Scan(p) \/ FindWork(p) \/ PopWork(p) \/ NoMoreWork(p)
        PROVE  Rescans'
    <3>1. \A q \in Ps : q # p => hand'[q] = hand[q]
      BY <1>0, <2>9 DEF Get, Scan, FindWork, PopWork, NoMoreWork
    <3>2. /\ UNCHANGED <<markrootNext, markrootJobs>> /\ UNCHANGED <<global, stack, depth, stkbar>>
          /\ pc[p] # "root"
          /\ \E l \in {"heap", "scan", "exit", "wait", "pop", "halt"} : pc' = [pc EXCEPT ![p] = l]
      BY <2>9 DEF Get, Scan, FindWork, PopWork, NoMoreWork
    <3>3. PICK l \in {"heap", "scan", "exit", "wait", "pop", "halt"} : pc' = [pc EXCEPT ![p] = l]
      BY <3>2
    <3>. QED BY <2>8, <3>1, <3>2, <3>3
  <2>10. ASSUME NEW p \in Ps, TakeRoot(p) PROVE Rescans'
    <3>1. CASE markrootNext < markrootJobs
      <4>1. \A j \in 0 .. NG : JobDone(j)' <=> JobDone(j)
        BY <1>0, <2>10, <3>1, JobTaken
      <4>. QED BY <2>1, <2>10, <4>1 DEF TakeRoot
    <3>2. CASE ~(markrootNext < markrootJobs)
      BY <2>8, <2>10, <3>2 DEF TakeRoot
    <3>. QED BY <3>1, <3>2
  <2>11. ASSUME NEW p \in Ps, ScanGlobals(p) PROVE Rescans'
    <3>1. /\ pc[p] = "root" /\ hand[p] = 0 /\ RootDone(p) /\ UNCHANGED <<markrootNext, markrootJobs>>
          /\ UNCHANGED <<global, stack, depth, stkbar>> /\ marked' = marked \cup New({global})
      BY <2>11 DEF ScanGlobals
    <3>2. \A j : JobDone(j)' <=> JobDone(j) \/ j = 0
      BY <1>0, <3>1, JobEnded
    <3>3. global' \in marked' \cup {Nil}
      BY <3>1 DEF New
    <3>4. \A g \in Gs : JobDone(g)' => JobDone(g)
      BY <1>0, <3>2
    <3>. QED BY <1>0, <1>3, <2>0, <3>1, <3>3, <3>4 DEF Rescans
  <2>12. ASSUME NEW p \in Ps, NEW g \in Gs, RescanStack(p, g) PROVE Rescans'
    <3>1. /\ pc[p] = "root" /\ hand[p] = g /\ RootDone(p) /\ UNCHANGED <<markrootNext, markrootJobs>>
          /\ UNCHANGED <<global, stack, depth, barrier>>
          /\ stkbar' = stkbar \ {g} /\ gcscanvalid' = gcscanvalid \cup {g}
      BY <2>12 DEF RescanStack
    <3>2. \A j : JobDone(j)' <=> JobDone(j) \/ j = g
      BY <1>0, <3>1, JobEnded
    <3>3. \A k \in 1 .. depth'[g] : Shaded(stack[g][k])'
      BY <1>0, <1>3, <3>1 DEF Stacks
    <3>4. \A h \in Gs : barrier'[h].ptr = Nil
      BY <2>0, <3>1 DEF NoBarrier
    <3>5. \A k \in 1 .. depth'[g] : stack'[g][k] \in marked' \cup {Nil}
      BY <3>3, <3>4 DEF Shaded
    <3>6. JobDone(0)' => JobDone(0)
      BY <1>0, <3>2
    <3>7. JobDone(0)' => global' \in marked' \cup {Nil}
      BY <1>0, <1>3, <2>0, <3>1, <3>6 DEF Rescans
    <3>8. ASSUME NEW h \in Gs, JobDone(h)', h # g
          PROVE  h \notin stkbar' /\ \A k \in 1 .. depth'[h] : stack'[h][k] \in marked' \cup {Nil}
      BY <1>0, <1>3, <2>0, <3>1, <3>2, <3>8 DEF Rescans
    <3>. QED BY <3>1, <3>5, <3>7, <3>8 DEF Rescans
  <2>13. ASSUME NEW p \in Ps, NEW g \in Gs, ScanStack(p, g) PROVE FALSE
    BY <1>3, <2>13 DEF ScanStack
  <2>14. ASSUME NEW p \in Ps, MarkDone(p) PROVE Rescans'
    BY <2>1, <2>14 DEF MarkDone, JobDone
  <2>15. ASSUME NEW p \in Ps, EnterMark2(p) \/ Flushed(p) \/ Terminate(p) PROVE FALSE
    BY <1>0, <1>3, <2>15 DEF EnterMark2, Flushed, Terminate, Ending
  <2>16. ASSUME NEW p \in Ps, NEW q \in Ps, Flush(p, q) PROVE FALSE
    BY <1>0, <1>3, <2>16 DEF Flush, Ending
  <2>. QED
    BY <2>2, <2>3, <2>4, <2>5, <2>6, <2>7, <2>9, <2>10, <2>11, <2>12, <2>13, <2>14, <2>15, <2>16, Steps
<1>. QED BY <1>1, <1>2, <1>3

\* Whoever was the last to be busy either leaves work behind or sees that it was the last.
LEMMA NextMarkingGoesOn ==
  ASSUME IsFiniteSet(Ps), IInv, [Next]_vars
  PROVE  MarkingGoesOn'
<1>. USE DEF mem, gvars, spans, work, cycle, drain
<1>0. /\ TypeOK /\ Phases /\ Barriers /\ Ending /\ Counted /\ MarkingGoesOn
      /\ pc \in [Ps -> {"idle", "roots", "root", "heap", "scan", "exit", "leave", "wait", "pop", "halt"}]
      /\ done \in [Ps -> {"no", "want", "hold", "flush", "stopped"}]
      /\ gcw \in [Ps -> SUBSET Objs] /\ nwait \in Nat
      /\ markrootNext \in Nat /\ markrootJobs \in Nat /\ AllJobs \in Nat \ {0}
  BY SizeAssumption DEF IInv, TypeOK, AllJobs
<1>1. ASSUME UNCHANGED <<gcphase, full, markrootNext, markrootJobs, pc, done, gcw>> PROVE MarkingGoesOn'
  BY <1>0, <1>1 DEF MarkingGoesOn, WorkAvailable
<1>2. ASSUME NEW p \in Ps, pc'[p] # "idle" \/ done'[p] # "no" PROVE MarkingGoesOn'
  BY <1>2 DEF MarkingGoesOn
<1>3. CASE gcphase' # "mark"
  BY <1>3 DEF MarkingGoesOn
<1>4. CASE UNCHANGED vars
  BY <1>1, <1>4 DEF vars
<1>5. CASE Start
  <2>1. markrootNext' = 0 /\ markrootJobs' = AllJobs
    BY <1>5 DEF Start
  <2>2. markrootNext' < markrootJobs'
    BY <1>0, <2>1
  <2>. QED BY <2>2 DEF MarkingGoesOn, WorkAvailable
<1>6. CASE Finish
  BY <1>3, <1>6 DEF Finish
<1>7. ASSUME NEW g \in Gs, NEW p \in Ps, Execute(g, p) PROVE MarkingGoesOn'
  BY <1>1, <1>7 DEF Execute
<1>8. ASSUME NEW g \in Gs, \/ Leave(g) \/ Move(g) \/ Call(g) \/ ReturnTo(g)
                           \/ StoreUp(g) \/ StoreHeap(g) \/ StoreGlobal(g) \/ Malloc(g)
      PROVE  MarkingGoesOn'
  BY <1>1, <1>8 DEF Leave, Move, Call, ReturnTo, StoreUp, StoreHeap, StoreGlobal, Malloc
<1>9. ASSUME NEW g \in Gs, NEW h \in Gs, Send(g, h) PROVE MarkingGoesOn'
  BY <1>1, <1>9 DEF Send
<1>10. ASSUME NEW s \in Spans, SweepBegin(s) \/ Sweep(s) PROVE MarkingGoesOn'
  BY <1>1, <1>10 DEF SweepBegin, Sweep
\* What is queued moves from a cache to the global list, or is joined by more.
<1>11. ASSUME NEW p \in Ps, NEW N,
              UNCHANGED <<gcphase, markrootNext, markrootJobs, pc, done>>,
              \/ full' = full \cup gcw[p] \cup N /\ gcw' = [gcw EXCEPT ![p] = {}]
              \/ full' = full /\ gcw' = [gcw EXCEPT ![p] = gcw[p] \cup N]
       PROVE  MarkingGoesOn'
  <2>1. full # {} => full' # {}
    BY <1>11
  <2>2. \A q \in Ps : gcw[q] # {} => full' # {} \/ gcw'[q] # {}
    BY <1>0, <1>11
  <2>. QED BY <1>0, <1>11, <2>1, <2>2 DEF MarkingGoesOn, WorkAvailable
<1>12. ASSUME NEW g \in Gs, Shade(g) PROVE MarkingGoesOn'
  <2>1. PICK p \in Ps : p = status[g]
    BY <1>0, <1>12 DEF Shade, Barriers
  <2>2. PICK new : new = New({barrier[g].ptr})
    OBVIOUS
  <2>3. /\ \/ full' = full \cup gcw[p] \cup new /\ gcw' = [gcw EXCEPT ![p] = {}]
           \/ gcw' = [gcw EXCEPT ![p] = gcw[p] \cup new] /\ UNCHANGED full
        /\ UNCHANGED <<gcphase, markrootNext, markrootJobs, pc, done>>
    BY <1>12, <2>1, <2>2 DEF Shade
  <2>. QED BY <1>11, <2>3
<1>13. ASSUME NEW p \in Ps, NEW q \in Ps, Flush(p, q) PROVE MarkingGoesOn'
  <2>1. full' = full \cup gcw[q] \cup {} /\ gcw' = [gcw EXCEPT ![q] = {}]
        /\ UNCHANGED <<gcphase, markrootNext, markrootJobs, pc, done>>
    BY <1>13 DEF Flush
  <2>. QED BY <1>11, <2>1
<1>14. ASSUME NEW p \in Ps, StartWorker(p) \/ TakeRoot(p) \/ ScanGlobals(p) \/ Get(p) \/ Scan(p)
                            \/ Preempt(p) \/ StopDrain(p) \/ FindWork(p) \/ PopWork(p) \/ NoMoreWork(p)
       PROVE  MarkingGoesOn'
  <2>1. \E l : pc' = [pc EXCEPT ![p] = l] /\ l # "idle"
    BY <1>14 DEF StartWorker, TakeRoot, ScanGlobals, Get, Scan, Preempt, StopDrain, FindWork, PopWork,
       NoMoreWork, RootDone
  <2>2. pc'[p] # "idle"
    BY <1>0, <2>1
  <2>. QED BY <1>2, <2>2
<1>15. ASSUME NEW p \in Ps, NEW g \in Gs, ScanStack(p, g) \/ RescanStack(p, g) PROVE MarkingGoesOn'
  <2>1. pc'[p] # "idle"
    BY <1>0, <1>15 DEF ScanStack, RescanStack, RootDone
  <2>. QED BY <1>2, <2>1
\* p stops being busy, and does not end the phase.
<1>16. ASSUME NEW p \in Ps, gcphase = "mark", nwait + 1 # nproc, p \in Busy
       PROVE  \E q \in Ps : q # p /\ (pc[q] # "idle" \/ done[q] = "flush")
  <2>1. PICK B \in SUBSET Ps : B = Busy
    BY DEF Busy
  <2>2. nwait + Cardinality(B) = nproc /\ Cardinality(B) \in Nat
    BY <1>0, <1>16, <2>1, CountOne DEF Counted
  <2>3. Cardinality(B) # 1
    BY <1>0, <1>16, <2>2
  <2>4. Cardinality(B \ {p}) = Cardinality(B) - 1
    BY <1>16, <2>1, CountOne
  <2>5. B \ {p} # {}
    BY <2>2, <2>3, <2>4, FS_EmptySet
  <2>. QED BY <1>16, <2>1, <2>5 DEF Busy
<1>17. ASSUME NEW p \in Ps, p \in Busy, StopWorker(p) \/ Flushed(p),
              \A q \in Ps : q # p => pc'[q] = pc[q] /\ done'[q] = done[q],
              done'[p] = IF LastWorker THEN "want" ELSE "no"
       PROVE  MarkingGoesOn'
  <2>1. UNCHANGED <<gcphase, full, markrootNext, markrootJobs>>
    BY <1>17 DEF StopWorker, Flushed
  <2>2. CASE LastWorker
    BY <1>2, <1>17, <2>2
  <2>3. CASE WorkAvailable
    BY <2>1, <2>3 DEF MarkingGoesOn, WorkAvailable
  <2>4. CASE gcphase = "mark" /\ nwait + 1 # nproc
    <3>1. PICK q \in Ps : q # p /\ (pc[q] # "idle" \/ done[q] = "flush")
      BY <1>16, <1>17, <2>4
    <3>2. pc'[q] # "idle" \/ done'[q] # "no"
      BY <1>17, <3>1
    <3>. QED BY <1>2, <3>2
  <2>. QED BY <1>3, <2>1, <2>2, <2>3, <2>4 DEF LastWorker
<1>18. ASSUME NEW p \in Ps, StopWorker(p) PROVE MarkingGoesOn'
  <2>1. /\ pc[p] = "leave" /\ pc' = [pc EXCEPT ![p] = "idle"]
        /\ done' = [done EXCEPT ![p] = IF LastWorker THEN "want" ELSE "no"]
    BY <1>18 DEF StopWorker
  <2>2. p \in Busy
    BY <1>0, <2>1 DEF Busy
  <2>3. done'[p] = IF LastWorker THEN "want" ELSE "no"
    BY <1>0, <2>1
  <2>4. \A q \in Ps : q # p => pc'[q] = pc[q] /\ done'[q] = done[q]
    BY <1>0, <2>1
  <2>. QED BY <1>17, <1>18, <2>2, <2>3, <2>4
<1>19. ASSUME NEW p \in Ps, Flushed(p) PROVE MarkingGoesOn'
  <2>1. /\ done[p] = "flush" /\ UNCHANGED pc
        /\ done' = [done EXCEPT ![p] = IF LastWorker THEN "want" ELSE "no"]
    BY <1>19 DEF Flushed
  <2>2. p \in Busy
    BY <1>0, <2>1 DEF Busy, Ending
  <2>3. done'[p] = IF LastWorker THEN "want" ELSE "no"
    BY <1>0, <2>1
  <2>4. \A q \in Ps : q # p => pc'[q] = pc[q] /\ done'[q] = done[q]
    BY <1>0, <2>1
  <2>. QED BY <1>17, <1>19, <2>2, <2>3, <2>4
<1>20. ASSUME NEW p \in Ps, MarkDone(p) PROVE MarkingGoesOn'
  <2>1. done[p] = "want" /\ UNCHANGED <<gcphase, full, markrootNext, markrootJobs, pc>>
    BY <1>20 DEF MarkDone
  <2>2. CASE gcphase = "mark" /\ nwait = nproc /\ ~WorkAvailable
    <3>1. done' = [done EXCEPT ![p] = "hold"]
      BY <1>20, <2>2 DEF MarkDone
    <3>2. done'[p] # "no"
      BY <1>0, <3>1
    <3>. QED BY <1>2, <3>2
  <2>3. CASE WorkAvailable
    BY <2>1, <2>3 DEF MarkingGoesOn, WorkAvailable
  <2>4. CASE gcphase = "mark" /\ nwait # nproc
    <3>1. Busy # {}
      BY <1>0, <2>4, Idlers
    <3>2. PICK q \in Ps : pc[q] # "idle" \/ done[q] = "flush"
      BY <2>4, <3>1 DEF Busy
    <3>3. q # p
      BY <1>0, <2>1, <2>4, <3>2 DEF Phases
    <3>4. \E x : done' = [done EXCEPT ![p] = x]
      BY <1>20 DEF MarkDone
    <3>5. pc'[q] = pc[q] /\ done'[q] = done[q]
      BY <1>0, <2>1, <3>3, <3>4
    <3>. QED BY <1>2, <3>2, <3>5
  <2>. QED BY <1>3, <2>1, <2>2, <2>3, <2>4
<1>21. ASSUME NEW p \in Ps, EnterMark2(p) PROVE MarkingGoesOn'
  <2>1. done'[p] # "no"
    BY <1>0, <1>21 DEF EnterMark2
  <2>. QED BY <1>2, <2>1
<1>22. ASSUME NEW p \in Ps, Terminate(p) PROVE MarkingGoesOn'
  BY <1>3, <1>22 DEF Terminate
<1>. QED
  BY <1>4, <1>5, <1>6, <1>7, <1>8, <1>9, <1>10, <1>12, <1>13, <1>14, <1>15, <1>18, <1>19,
     <1>20, <1>21, <1>22, Steps

-----------------------------------------------------------------------------
LEMMA InitIInv ==
  ASSUME Init
  PROVE  IInv
<1>0. /\ NG \in Nat \ {0} /\ Gs = 1 .. NG /\ AllJobs = 1 + NG /\ MaxOps \in Nat
      /\ Ptr = Objs \cup {Nil} /\ Nil \notin Objs /\ Nil \notin Ps
      /\ "runnable" \notin Ps /\ "waiting" \notin Ps
  BY SizeAssumption, NilAssumption DEF Gs, AllJobs, Ptr
<1>1. TypeOK
  <2>1. /\ ops \in 0 .. MaxOps /\ global \in Ptr /\ used \subseteq Objs
        /\ heap \in [Objs -> Ptr] /\ stack \in [Gs -> [1 .. 2 -> Ptr]] /\ depth \in [Gs -> 1 .. 2]
        /\ status \in [Gs -> {"runnable", "waiting"} \cup Ps]
    BY <1>0 DEF Init
  <2>2. /\ NoBarrier \in [ptr : Ptr, wakes : 0 .. NG]
        /\ barrier \in [Gs -> [ptr : Ptr, wakes : 0 .. NG]]
    BY <1>0 DEF Init, NoBarrier
  <2>3. /\ markrootNext \in 0 .. AllJobs /\ markrootJobs \in 0 .. AllJobs /\ nwait \in Nat
    BY <1>0 DEF Init
  <2>4. hand \in [Ps -> Ptr \cup 0 .. NG] /\ gcw \in [Ps -> SUBSET Objs]
    BY <1>0 DEF Init
  <2>. QED BY <1>0, <2>1, <2>2, <2>3, <2>4 DEF Init, TypeOK
<1>2. Phases /\ Counted /\ Ending /\ Tricolor /\ Rescans /\ MarkingGoesOn
  BY <1>0 DEF Init, Phases, Counted, Ending, Tricolor, Rescans, MarkingGoesOn
<1>3. Barriers
  BY <1>0 DEF Init, Barriers, NoBarrier
<1>4. Jobs
  BY <1>0 DEF Init, Jobs
<1>5. Queued
  <2>1. Queue = {}
    BY InQueue DEF Init
  <2>. QED BY <2>1 DEF Init, Queued
<1>6. Memory
  <2>1. Safe = used /\ used = {global} \ {Nil}
    BY DEF Init, Safe, Garbage
  <2>2. /\ \A g \in Gs : \A k \in 1 .. 2 : stack[g][k] = Nil
        /\ \A g \in Gs : barrier[g].ptr = Nil /\ depth[g] \in 1 .. 2
        /\ \A o \in Objs : heap[o] = Nil
        /\ marked = {} /\ gcphase = "off" /\ used \subseteq Objs
    BY <1>0 DEF Init, NoBarrier
  <2>3. \A g \in Gs : \A k \in 1 .. depth[g] : stack[g][k] = Nil
    BY <2>2
  <2>. QED BY <2>1, <2>2, <2>3 DEF Memory, SafePtr
<1>7. Stacks
  BY DEF Init, Stacks
<1>. QED BY <1>1, <1>2, <1>3, <1>4, <1>5, <1>6, <1>7 DEF IInv

LEMMA NextIInv ==
  ASSUME IsFiniteSet(Ps), IInv, [Next]_vars
  PROVE  IInv'
BY NextTypeOK, NextPhases, NextBarriers, NextCounted, NextEnding, NextJobs, NextQueued, NextMemory,
   NextTricolor, NextStacks, NextRescans, NextMarkingGoesOn DEF IInv

LEMMA AlwaysIInv ==
  ASSUME IsFiniteSet(Ps)
  PROVE  Spec => []IInv
<1>1. Init => IInv
  BY InitIInv
<1>2. IInv /\ [Next]_vars => IInv'
  BY NextIInv
<1>. QED BY <1>1, <1>2, PTL DEF Spec

\* Every variable keeps its type; the workers counted in nwait never become fewer than none.
THEOREM TypeCorrect ==
  ASSUME IsFiniteSet(Ps)
  PROVE  Spec => []TypeOK
<1>1. IInv => TypeOK
  BY DEF IInv
<1>. QED BY <1>1, AlwaysIInv, PTL

\* NothingLost: what a goroutine can reach is never freed, and is marked when mark
\* termination ends.  Safe and, at the end, marked are sets that the pointers do not leave.
THEOREM NothingIsLost ==
  ASSUME IsFiniteSet(Ps)
  PROVE  Spec => []NothingLost
<1>1. ASSUME NEW S \in SUBSET Objs, Roots \subseteq S, \A o \in S : heap[o] \in S \cup {Nil}
      PROVE  ReachableFrom(Roots) \subseteq S
  <2>1. Fields(S) \subseteq S
    BY <1>1 DEF Fields
  <2>. QED BY <1>1, <2>1 DEF ReachableFrom
<1>2. ASSUME IInv PROVE NothingLost
  <2>1. TypeOK /\ Memory /\ marked \subseteq Objs /\ Safe \subseteq used /\ Safe \subseteq Objs
    BY <1>2 DEF IInv, TypeOK, Safe
  <2>2. ReachableFrom(Roots) \subseteq used
    <3>1. Roots \subseteq Safe
      <4>1. \A g \in Gs : Held(g) \subseteq Safe
        BY <2>1 DEF Memory, SafePtr, Held
      <4>. QED BY <2>1, <4>1 DEF Memory, SafePtr, Roots
    <3>2. \A o \in Safe : heap[o] \in Safe \cup {Nil}
      BY <2>1 DEF Memory, SafePtr
    <3>3. ReachableFrom(Roots) \subseteq Safe
      BY <1>1, <2>1, <3>1, <3>2
    <3>. QED BY <2>1, <3>3
  <2>3. ASSUME Stopped, \A p \in Ps : pc[p] = "halt"
        PROVE  ReachableFrom(Roots) \subseteq marked
    <3>1. /\ global \in marked \cup {Nil}
          /\ \A g \in Gs : \A k \in 1 .. depth[g] : stack[g][k] \in marked \cup {Nil}
          /\ \A o \in marked : heap[o] \in marked \cup {Nil}
      BY <1>2, <2>3, AtTheEnd DEF Stopped
    <3>2. Roots \subseteq marked
      <4>1. \A g \in Gs : Held(g) \subseteq marked
        BY <3>1 DEF Held
      <4>. QED BY <3>1, <4>1 DEF Roots
    <3>. QED BY <1>1, <2>1, <3>1, <3>2
  <2>. QED BY <2>1, <2>2, <2>3 DEF NothingLost
<1>3. IInv => NothingLost
  BY <1>2
<1>. QED BY <1>3, AlwaysIInv, PTL

\* NoBlackToWhite: while the collector marks, an object that was scanned leads to objects
\* that are marked or that a write barrier is about to mark.
THEOREM BlackIsShaded ==
  ASSUME IsFiniteSet(Ps)
  PROVE  Spec => []NoBlackToWhite
<1>1. ASSUME IInv PROVE NoBlackToWhite
  <2>1. Queue \subseteq Grey
    BY DEF Queue, Grey
  <2>. QED BY <1>1, <2>1 DEF IInv, Tricolor, NoBlackToWhite, Shaded
<1>2. IInv => NoBlackToWhite
  BY <1>1
<1>. QED BY <1>2, AlwaysIInv, PTL

\* NotStuck: neither marking nor mark termination comes to rest before its end.
THEOREM NeverStuck ==
  ASSUME IsFiniteSet(Ps)
  PROVE  Spec => []NotStuck
<1>1. ASSUME IInv PROVE HelpersGoOn
  <2>. SUFFICES ASSUME gcphase = "termination", \A p \in Ps : pc[p] \in {"wait", "halt"}
               PROVE  nwait = nproc /\ markrootNext >= markrootJobs
    BY DEF HelpersGoOn
  <2>1. Busy = {}
    BY DEF Busy
  <2>2. nwait = nproc
    BY <1>1, <2>1, Idlers DEF IInv
  <2>3. \E p \in Ps : TRUE
    BY SizeAssumption
  <2>4. markrootNext >= markrootJobs
    BY <1>1, <2>3 DEF IInv, Jobs
  <2>. QED BY <2>2, <2>4
<1>2. IInv => NotStuck
  BY <1>1 DEF IInv, NotStuck
<1>. QED BY <1>2, AlwaysIInv, PTL

\* NeverThrows: the runtime finds none of the states that it throws in.
THEOREM NothingThrows ==
  ASSUME IsFiniteSet(Ps)
  PROVE  Spec => []NeverThrows
<1>1. ASSUME IInv PROVE NeverThrows
  <2>0. /\ TypeOK /\ Counted /\ Ending /\ Jobs
        /\ NG \in Nat \ {0} /\ Gs = 1 .. NG /\ AllJobs = 1 + NG
        /\ gcscandone \subseteq Gs /\ stkbar \subseteq Gs
        /\ markrootNext \in Nat /\ markrootJobs \in Nat
    BY <1>1, SizeAssumption DEF IInv, TypeOK, Gs, AllJobs
  <2>1. gcphase # "off" => nwait <= nproc
    BY <2>0, Idlers
  <2>2. ASSUME NEW p \in Ps, done[p] = "hold", ~gcBlackenPromptly
        PROVE  markrootNext >= markrootJobs /\ gcscandone = Gs
    <3>1. gcphase = "mark" /\ markrootNext >= markrootJobs /\ \A q \in Ps : pc[q] # "root"
      BY <2>0, <2>2 DEF Ending
    <3>2. markrootJobs = AllJobs
      BY <2>0, <2>2, <3>1 DEF Jobs
    <3>3. \A g \in Gs : JobDone(g)
      BY <2>0, <3>1, <3>2 DEF JobDone
    <3>. QED BY <2>0, <2>2, <3>1, <3>3 DEF Jobs
  <2>3. ASSUME NEW p \in Ps, pc[p] = "root", gcphase = "mark" PROVE hand[p] \notin stkbar
    <3>1. CASE gcBlackenPromptly
      <4>1. hand[p] \in 0 .. NG /\ hand[p] < markrootNext /\ markrootNext <= markrootJobs /\ markrootJobs = 1
        BY <2>0, <2>3, <3>1 DEF TypeOK, Jobs
      <4>2. hand[p] = 0
        BY <2>0, <4>1
      <4>. QED BY <2>0, <4>2
    <3>2. CASE ~gcBlackenPromptly
      BY <2>0, <2>3, <3>2 DEF Jobs, JobDone
    <3>. QED BY <3>1, <3>2
  <2>4. (gcphase = "termination" /\ \A p \in Ps : pc[p] = "halt") =>
           /\ full = {} /\ markrootNext >= markrootJobs /\ gcscandone = Gs
           /\ \A p \in Ps : gcw[p] = {}
    BY <1>1, AtTheEnd
  <2>. QED BY <2>1, <2>2, <2>3, <2>4 DEF NeverThrows
<1>2. IInv => NeverThrows
  BY <1>1
<1>. QED BY <1>2, AlwaysIInv, PTL

==============================================================================
