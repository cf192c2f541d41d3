--------------------------- MODULE SchedulerProofs ---------------------------
(***************************************************************************)
(* The scheduler of proc.go: what MCScheduler checks for three threads,    *)
(* two Ps and three goroutines, proved for any finite numbers of them and  *)
(* whatever the goroutines call: a P has one holder and a goroutine one    *)
(* place, stopTheWorld counts every P once and has them all, the throws    *)
(* that a wrong handover would reach are dead, and work in the global      *)
(* queue has somebody who will come for it.                                *)
(*                                                                         *)
(* None of it is inductive. IInv adds, for each point of a thread's        *)
(* program, what the thread has with it (Shape) and which queues it may    *)
(* count on to be empty (EmptyFor); that a P's status says who has it      *)
(* (Owners); what lies in the idle lists (Idle); and that stopwait counts  *)
(* the Ps not yet stopped for the one who stops the world (World).         *)
(*                                                                         *)
(* Most steps are of one of three forms, and preserve IInv for a common    *)
(* reason: Onward, where a thread goes on with the Ps it has; MovesKeep,   *)
(* where a goroutine moves between it and the queues; and Passes, where    *)
(* one P changes hands. Startm and Stopm, which concern two threads, and   *)
(* the stop and the start of the world have lemmas of their own.           *)
(***************************************************************************)
EXTENDS Scheduler, FiniteSetTheorems, TLAPS

\* Where a thread has its P; where it has a goroutine; the calls and what may follow them.
Handing == {"handoff", "handoff2", "handoffidle", "handoffspin", "handoff3"}
InCall == Handing \cup {"wakep", "startm", "startspin", "undo", "inject"}
HasP == {"schedule", "find", "look", "spin", "spinup", "steal", "stop", "respin",
         "dropgc", "gcstop", "got", "run", "ready", "wakep", "stopping", "stopped"}
HasG == {"got", "run", "ready", "wakep", "polled", "entersyscall", "gcwait", "syscall",
         "exitfast", "exitsyscall", "stopping", "stopped"}

Stopper(t) == At(t, "stopping") \/ At(t, "stopped")
HasIt(t, p) == th[t].p = p /\ ~InSyscall(t)
PassesIt(t, p) == th[t].next = p \/ th[t].hand = p

\* What a thread has with it at each point.
Shape(t) ==
  LET s == th[t] IN
  /\ s.p # NoP => /\ s.next = NoP /\ s.hand = NoP
                  /\ s.pc \in HasP \cup {"startspin", "undo", "entersyscall", "gcwait", "syscall"}
  /\ s.pc \in HasP \cup {"entersyscall", "gcwait"} => s.p # NoP
  /\ s.next # NoP => s.pc = "parked" /\ s.hand = NoP
  /\ s.hand # NoP => /\ s.pc \in Handing \cup {"startm", "startspin"}
                   /\ s.ret \in {"syscall", "sysmon"}
  /\ s.pc \in Handing => s.hand # NoP
  /\ s.pc \in {"wakep", "startspin", "undo"} /\ s.hand = NoP => s.p # NoP /\ s.ret = "run"
  /\ s.pc \in {"inject", "startm"} /\ s.hand = NoP => s.ret \in {"stopm", "sysmon"}
  /\ s.pc \in {"dropgc", "gcstop", "stopm", "parked"} => s.ret \in {"schedule", "find"}
  /\ s.pc \in (HasP \ {"dropgc", "gcstop"}) \cup {"entersyscall", "gcwait", "syscall"} =>
       s.ret = "run"
  /\ s.pc \in HasG => s.g # NoG
  /\ s.pc \in InCall /\ s.ret \in {"run", "syscall"} => s.g # NoG
  /\ s.spinning => s.pc \in {"parked", "schedule", "find", "look", "steal", "stop", "drop", "got"}
  /\ s.spinning /\ s.pc = "parked" => s.next # NoP
  /\ s.pc = "drop" => s.spinning
  /\ t = Sysmon <=> s.pc = "sysmon" \/ (s.pc \in InCall /\ s.ret = "sysmon")

\* The queue of its P is empty where a thread counts on it.
EmptyFor(t) ==
  /\ th[t].pc \in {"spin", "spinup", "steal", "stop"} => runq[th[t].p] = {}
  /\ th[t].pc \in Handing \cup {"startspin"} /\ ~At(t, "handoff") /\ th[t].hand # NoP =>
       runq[th[t].hand] = {}
  /\ th[t].spinning /\ th[t].next # NoP => runq[th[t].next] = {}
  /\ th[t].spinning /\ At(t, "schedule") => runq[th[t].p] = {}

Fits(t) ==
  /\ Shape(t) /\ EmptyFor(t)
  /\ At(t, "dropgc") \/ At(t, "gcstop") => gcwaiting
  /\ At(t, "stopped") => stopwait = 0

\* A P has one thread at most that runs with it or hands it on, and its status says which.
Owners ==
  /\ \A p \in P, t, u \in Thread :
       (HasIt(t, p) \/ PassesIt(t, p)) /\ (HasIt(u, p) \/ PassesIt(u, p)) => t = u
  /\ \A p \in P : status[p] = "running" => \E t \in Thread : HasIt(t, p)
  /\ \A p \in P : status[p] = "idle" => p \in pidle \/ \E t \in Thread : PassesIt(t, p)
  /\ \A p \in P, t \in Thread :
       HasIt(t, p) => status[p] = IF Stopper(t) THEN "gcstop" ELSE "running"
  /\ \A p \in P, t \in Thread : PassesIt(t, p) => status[p] = "idle" /\ p \notin pidle
  /\ \A p \in P : status[p] = "dead" <=> p \notin procs

\* The idle lists: Ps without work, threads that sleep.
Idle ==
  /\ \A p \in pidle : status[p] = "idle" /\ runq[p] = {}
  /\ \A m \in midle : Sleeping(m)

\* One thread stops the world, and waits for as many Ps as are not stopped yet.
World ==
  /\ \A t, u \in Thread : Stopper(t) /\ Stopper(u) => t = u
  /\ gcwaiting <=> \E t \in Thread : Stopper(t)
  /\ ~gcwaiting => stopwait = 0 /\ \A p \in P : status[p] # "gcstop"
  /\ gcwaiting => stopwait = Cardinality({p \in procs : status[p] # "gcstop"})

\* A goroutine is in one queue or with one thread.
Places ==
  /\ \A p \in P : runq[p] \cap globrunq = {}
  /\ \A p, q \in P : p # q => runq[p] \cap runq[q] = {}
  /\ \A t \in Thread : th[t].g \notin globrunq /\ \A p \in P : th[t].g \notin runq[p]
  /\ \A t, u \in Thread : th[t].g # NoG /\ th[t].g = th[u].g => t = u

\* Somebody comes for what is in the global queue: a P that is not idle, or a wakeup under way.
Attended ==
  globrunq # {} /\ ~gcwaiting =>
    \/ pidle # procs
    \/ \E t \in Thread : At(t, "inject") \/ At(t, "startm")

\* Every thread is where what it has lets it be.
Fit == \A t \in Thread : Fits(t)
IInv == /\ TypeOK /\ Fit /\ Owners /\ Idle /\ World /\ Places /\ SpinningCounted /\ Attended

\* Who is counted in nmspinning, startm's increments for another thread included.
Spins(t) == th[t].spinning \/ At(t, "dropgc") \/ At(t, "startspin") \/ At(t, "undo")

-----------------------------------------------------------------------------
\* nmspinning stays right when nobody begins or ends,
LEMMA SpinningSame ==
  ASSUME SpinningCounted, nmspinning' = nmspinning, \A t \in Thread : Spins(t)' <=> Spins(t)
  PROVE  SpinningCounted'
<1>1. {t \in Thread : Spins(t)'} = {t \in Thread : Spins(t)}
  OBVIOUS
<1>. QED BY <1>1 DEF SpinningCounted, Spins

\* The threads are finitely many.
LEMMA ThreadFinite == IsFiniteSet(Thread)
<1>1. IsFiniteSet(M)
  BY FiniteAssumption
<1>. QED BY <1>1, FS_AddElement DEF Thread

\* when one thread begins and counts itself,
LEMMA SpinningMore ==
  ASSUME SpinningCounted, NEW m \in Thread, ~Spins(m), Spins(m)',
         \A t \in Thread \ {m} : Spins(t)' <=> Spins(t), nmspinning' = nmspinning + 1
  PROVE  SpinningCounted'
<1>. DEFINE S == {t \in Thread : Spins(t)}  T == {t \in Thread : Spins(t)'}
<1>1. T = S \cup {m} /\ m \notin S
  OBVIOUS
<1>2. IsFiniteSet(S)
  BY ThreadFinite, FS_Subset
<1>. HIDE DEF S, T
<1>3. Cardinality(T) = Cardinality(S) + 1
  BY <1>1, <1>2, FS_AddElement
<1>. QED BY <1>3 DEF SpinningCounted, Spins, S, T

\* and when one ends; there was one to subtract, so the count stays natural.
LEMMA SpinningLess ==
  ASSUME SpinningCounted, NEW m \in Thread, Spins(m), ~Spins(m)',
         \A t \in Thread \ {m} : Spins(t)' <=> Spins(t), nmspinning' = nmspinning - 1
  PROVE  SpinningCounted' /\ nmspinning' \in Nat
<1>. DEFINE S == {t \in Thread : Spins(t)}  T == {t \in Thread : Spins(t)'}
<1>1. T = S \ {m} /\ m \in S
  OBVIOUS
<1>2. IsFiniteSet(S)
  BY ThreadFinite, FS_Subset
<1>. HIDE DEF S, T
<1>3. Cardinality(T) = Cardinality(S) - 1 /\ IsFiniteSet(T)
  BY <1>1, <1>2, FS_RemoveElement
<1>4. Cardinality(T) \in Nat
  BY <1>3, FS_CardinalityType
<1>5. nmspinning = Cardinality(S)
  BY DEF SpinningCounted, Spins, S
<1>6. nmspinning' = Cardinality(T)
  BY <1>3, <1>5
<1>. QED BY <1>4, <1>6 DEF SpinningCounted, Spins, T

-----------------------------------------------------------------------------
\* The steps that concern no P: thread m stays with those it has.
Stays(m) ==
  /\ th' \in [Thread -> State] /\ \A t \in Thread \ {m} : th'[t] = th[t]
  /\ th'[m].next = th[m].next /\ th'[m].hand = th[m].hand
  /\ \/ th'[m].p = th[m].p /\ (InSyscall(m)' <=> InSyscall(m))
     \/ th'[m].p = NoP /\ InSyscall(m)
  /\ Stopper(m)' <=> Stopper(m)
  /\ th[m].pc # "parked"
  /\ UNCHANGED <<procs, gcwaiting, stopwait, status, pidle, midle>>

\* The three ways in which a step of m leaves nmspinning right.
SpinStep(m) ==
  \/ nmspinning' = nmspinning /\ (Spins(m)' <=> Spins(m))
  \/ nmspinning' = nmspinning + 1 /\ ~Spins(m) /\ Spins(m)'
  \/ nmspinning' = nmspinning - 1 /\ Spins(m) /\ ~Spins(m)'

\* Such a step leaves who has which P, and the stop of the world, as they are.
LEMMA StaysKeeps ==
  ASSUME TypeOK, Owners, World, NEW m \in Thread, Stays(m)
  PROVE  Owners' /\ World'
<1>1. \A t \in Thread, p \in P : /\ HasIt(t, p)' <=> HasIt(t, p)
                                 /\ PassesIt(t, p)' <=> PassesIt(t, p)
  BY NamesAssumption DEF Stays, HasIt, PassesIt, InSyscall
<1>2. \A t \in Thread : Stopper(t)' <=> Stopper(t)
  BY DEF Stays, Stopper, At
<1>3. UNCHANGED <<procs, gcwaiting, stopwait, status, pidle>>
  BY DEF Stays
<1>4. Owners'
  BY <1>1, <1>2, <1>3 DEF Owners
<1>5. World'
  BY <1>2, <1>3 DEF World
<1>. QED BY <1>4, <1>5

\* However m counts itself, nmspinning counts the spinning threads.
LEMMA SpinStepCounts ==
  ASSUME TypeOK, SpinningCounted, NEW m \in Thread, SpinStep(m),
         \A t \in Thread \ {m} : th'[t] = th[t]
  PROVE  SpinningCounted' /\ nmspinning' \in Nat
<1>1. \A t \in Thread \ {m} : Spins(t)' <=> Spins(t)
  BY DEF Spins, At
<1>2. CASE nmspinning' = nmspinning /\ (Spins(m)' <=> Spins(m))
  BY <1>1, <1>2, SpinningSame DEF TypeOK
<1>3. CASE nmspinning' = nmspinning + 1 /\ ~Spins(m) /\ Spins(m)'
  BY <1>1, <1>3, SpinningMore DEF TypeOK
<1>4. CASE nmspinning' = nmspinning - 1 /\ Spins(m) /\ ~Spins(m)'
  BY <1>1, <1>4, SpinningLess
<1>. QED BY <1>2, <1>3, <1>4 DEF SpinStep

\* Where the queues that were empty are so still, except perhaps of the P that m has, the
\* others fit in.
LEMMA OthersFit ==
  ASSUME TypeOK, Fit, Owners, Idle, NEW m \in Thread, Stays(m), Fits(m)',
         \A p \in P : runq[p] = {} /\ ~HasIt(m, p) => runq'[p] = {}
  PROVE  Fit' /\ Idle'
<1>1. ASSUME NEW t \in Thread \ {m} PROVE Fits(t)'
  <2>1. Fits(t) /\ th'[t] = th[t] /\ th[t] \in State /\ UNCHANGED <<gcwaiting, stopwait>>
    BY DEF Fit, Stays, TypeOK
  <2>2. th[t].pc \in {"spin", "spinup", "steal", "stop", "schedule"} =>
          th[t].p \in P /\ ~HasIt(m, th[t].p)
    BY <2>1 DEF Fits, Shape, HasP, State, Owners, HasIt, InSyscall
  <2>3. /\ th[t].next # NoP => th[t].next \in P /\ ~HasIt(m, th[t].next)
        /\ th[t].hand # NoP => th[t].hand \in P /\ ~HasIt(m, th[t].hand)
    BY <2>1 DEF State, Owners, PassesIt
  <2>4. EmptyFor(t)'
    BY <2>1, <2>2, <2>3 DEF Fits, EmptyFor, At
  <2>5. Shape(t)'
    BY <2>1 DEF Fits, Shape
  <2>. QED BY <2>1, <2>4, <2>5 DEF Fits, At
<1>2. Fit'
  BY <1>1 DEF Fit
<1>3. Idle'
  <2>1. \A p \in pidle : p \in P /\ ~HasIt(m, p)
    BY DEF TypeOK, Idle, Owners
  <2>2. \A n \in midle : n # m /\ n \in Thread
    BY DEF TypeOK, Idle, Sleeping, At, Stays, Thread
  <2>3. UNCHANGED <<status, pidle, midle>> /\ \A t \in Thread \ {m} : th'[t] = th[t]
    BY DEF Stays
  <2>4. \A p \in pidle' : status'[p] = "idle" /\ runq'[p] = {}
    BY <2>1, <2>3 DEF Idle
  <2>5. \A n \in midle' : Sleeping(n)'
    BY <2>2, <2>3 DEF Idle, Sleeping, At
  <2>. QED BY <2>4, <2>5 DEF Idle
<1>. QED BY <1>2, <1>3

\* It goes on, and does not touch the queues.
Onward(m) ==
  /\ Stays(m) /\ UNCHANGED <<runq, globrunq>> /\ th'[m].g = th[m].g
  /\ Fits(m)' /\ SpinStep(m) /\ polling' \in BOOLEAN
  /\ At(m, "inject") \/ At(m, "startm") =>
       pidle = {} \/ th'[m].pc \in {"inject", "startm"}

\* A step of this form preserves the invariant.
LEMMA OnwardKeeps ==
  ASSUME IInv, NEW m \in Thread, Onward(m)
  PROVE  IInv'
<1>. USE DEF IInv
<1>1. Owners' /\ World'
  BY StaysKeeps DEF Onward
<1>2. Fit' /\ Idle'
  BY OthersFit DEF Onward
<1>3. SpinningCounted' /\ nmspinning' \in Nat
  BY SpinStepCounts DEF Onward, Stays
<1>4. TypeOK'
  BY <1>3 DEF TypeOK, Onward, Stays
<1>5. Places'
  <2>1. \A t \in Thread : th'[t].g = th[t].g
    BY DEF Onward, Stays
  <2>. QED BY <2>1 DEF Places, Onward
<1>6. Attended'
  BY DEF Attended, Onward, Stays, TypeOK, At
<1>. QED BY <1>1, <1>2, <1>3, <1>4, <1>5, <1>6

-----------------------------------------------------------------------------
\* As before, but for the program counter and the fields that say where to go on.
Others(m) ==
  /\ th' \in [Thread -> State] /\ \A t \in Thread \ {m} : th'[t] = th[t]
  /\ th'[m].p = th[m].p /\ th'[m].next = th[m].next /\ th'[m].hand = th[m].hand
  /\ th'[m].g = th[m].g

\* What Goto changes.
LEMMA GoesTo ==
  ASSUME TypeOK, NEW m \in Thread, NEW l \in Labels, Goto(m, l)
  PROVE  /\ Others(m) /\ th'[m].pc = l
         /\ th'[m].spinning = th[m].spinning /\ th'[m].ret = th[m].ret
BY DEF TypeOK, Goto, State, Others

\* The state of a thread that returns from a call.
LEMMA ReturnedState ==
  ASSUME NEW s \in State
  PROVE  LET r == Returned(s) IN
         /\ r \in State /\ r.pc = s.ret /\ r.p = s.p /\ r.next = s.next /\ r.hand = NoP
         /\ r.g = s.g /\ r.spinning = s.spinning
         /\ r.ret = IF s.ret = "stopm" THEN "find" ELSE "run"
<1>1. PICK l : l = IF s.ret = "stopm" THEN "find" ELSE "run"
  OBVIOUS
<1>2. l \in Labels
  BY <1>1 DEF Labels
<1>3. PICK r : r = [s EXCEPT !.pc = s.ret, !.hand = NoP, !.ret = l]
  OBVIOUS
<1>4. r = Returned(s)
  BY <1>1, <1>3 DEF Returned
<1>5. /\ r \in State /\ r.pc = s.ret /\ r.p = s.p /\ r.next = s.next /\ r.hand = NoP
      /\ r.g = s.g /\ r.spinning = s.spinning /\ r.ret = l
  BY <1>2, <1>3 DEF State
<1>. QED BY <1>1, <1>4, <1>5

\* What the return from a call changes, when no P is in hand.
LEMMA ReturnsTo ==
  ASSUME TypeOK, NEW m \in Thread, Return(m), th[m].hand = NoP
  PROVE  /\ Others(m) /\ th'[m].pc = th[m].ret
         /\ th'[m].spinning = th[m].spinning
         /\ th'[m].ret = IF th[m].ret = "stopm" THEN "find" ELSE "run"
<1>1. th[m] \in State /\ th \in [Thread -> State]
  BY DEF TypeOK
<1>2. PICK r : r = Returned(th[m])
  OBVIOUS
<1>3. /\ r \in State /\ r.pc = th[m].ret /\ r.p = th[m].p /\ r.next = th[m].next /\ r.hand = NoP
      /\ r.g = th[m].g /\ r.spinning = th[m].spinning
      /\ r.ret = IF th[m].ret = "stopm" THEN "find" ELSE "run"
  BY <1>1, <1>2, ReturnedState
<1>4. th' = [th EXCEPT ![m] = r]
  BY <1>2 DEF Return
<1>. QED BY <1>1, <1>3, <1>4 DEF Others

\* What the steps need to know of a thread before they look at it.
LEMMA ThreadFacts ==
  ASSUME IInv
  PROVE  /\ \A t \in Thread : Fits(t) /\ th[t] \in State
         /\ \A m \in M : m \in Thread /\ m # Sysmon
         /\ Sysmon \in Thread
BY NamesAssumption DEF IInv, Fit, TypeOK, Thread


\* Steps of a scheduling round and of a goroutine that only go on.
LEMMA RoundOnward ==
  ASSUME IInv, NEW m \in M,
         NoLocal(m) \/ LookFurther(m) \/ EnoughSpin(m) \/ StealFails(m) \/ Execute(m)
         \/ ReadyWakes(m) \/ EnterSyscallCheck(m) \/ WorldStops(m)
  PROVE  Onward(m)
<1>0. m \in Thread /\ m # Sysmon /\ Fits(m) /\ th[m] \in State /\ TypeOK
  BY ThreadFacts DEF IInv
<1>. USE DEF Onward, Stays, Others, SpinStep, Spins, Fits, Shape, EmptyFor, At, Stopper, InSyscall,
             HasP, HasG, InCall, Handing, world, queues
<1>1. CASE NoLocal(m)
  <2>1. PICK l \in {"find", "look"} : Goto(m, l)
    BY <1>1 DEF NoLocal
  <2>2. /\ Others(m) /\ th'[m].pc = l
        /\ th'[m].spinning = th[m].spinning /\ th'[m].ret = th[m].ret
    BY <1>0, <2>1, GoesTo DEF Labels
  <2>. QED BY <1>0, <1>1, <2>1, <2>2 DEF NoLocal, TypeOK
<1>2. CASE LookFurther(m)
  <2>1. PICK l \in {"steal", "spin"} : Goto(m, l) /\ (l = "steal" <=> th[m].spinning)
    <3>1. CASE th[m].spinning
      BY <1>2, <3>1 DEF LookFurther
    <3>2. CASE ~th[m].spinning
      BY <1>2, <3>2 DEF LookFurther
    <3>. QED BY <3>1, <3>2
  <2>2. /\ Others(m) /\ th'[m].pc = l
        /\ th'[m].spinning = th[m].spinning /\ th'[m].ret = th[m].ret
    BY <1>0, <2>1, GoesTo DEF Labels
  <2>3. /\ th[m].pc = "look" /\ runq[th[m].p] = {} /\ (l = "steal" <=> th[m].spinning)
        /\ UNCHANGED <<world, status, queues, pidle, midle, nmspinning, polling>>
    BY <1>0, <1>2, <2>1, <2>2 DEF LookFurther
  <2>4. Fits(m)'
    BY <1>0, <2>2, <2>3
  <2>. QED BY <1>0, <2>2, <2>3, <2>4 DEF TypeOK
<1>3. CASE EnoughSpin(m)
  <2>1. PICK l \in {"stop", "spinup"} : Goto(m, l)
    BY <1>3 DEF EnoughSpin
  <2>2. /\ Others(m) /\ th'[m].pc = l
        /\ th'[m].spinning = th[m].spinning /\ th'[m].ret = th[m].ret
    BY <1>0, <2>1, GoesTo DEF Labels
  <2>. QED BY <1>0, <1>3, <2>1, <2>2 DEF EnoughSpin, TypeOK
<1>4. CASE StealFails(m)
  <2>1. PICK l \in {"stop", "find"} : Goto(m, l)
    BY <1>4 DEF StealFails
  <2>2. /\ Others(m) /\ th'[m].pc = l
        /\ th'[m].spinning = th[m].spinning /\ th'[m].ret = th[m].ret
    BY <1>0, <2>1, GoesTo DEF Labels
  <2>. QED BY <1>0, <1>4, <2>1, <2>2 DEF StealFails, TypeOK
<1>5. CASE Execute(m)
  <2>1. PICK l \in {"run"} : Goto(m, l)
    BY <1>5 DEF Execute
  <2>2. /\ Others(m) /\ th'[m].pc = l
        /\ th'[m].spinning = th[m].spinning /\ th'[m].ret = th[m].ret
    BY <1>0, <2>1, GoesTo DEF Labels
  <2>. QED BY <1>0, <1>5, <2>1, <2>2 DEF Execute, TypeOK
<1>6. CASE ReadyWakes(m)
  <2>1. PICK l \in {"wakep", "run"} : Goto(m, l)
    BY <1>6 DEF ReadyWakes
  <2>2. /\ Others(m) /\ th'[m].pc = l
        /\ th'[m].spinning = th[m].spinning /\ th'[m].ret = th[m].ret
    BY <1>0, <2>1, GoesTo DEF Labels
  <2>. QED BY <1>0, <1>6, <2>1, <2>2 DEF ReadyWakes, TypeOK
<1>7. CASE EnterSyscallCheck(m)
  <2>1. PICK l \in {"gcwait", "syscall"} : Goto(m, l)
    BY <1>7 DEF EnterSyscallCheck
  <2>2. /\ Others(m) /\ th'[m].pc = l
        /\ th'[m].spinning = th[m].spinning /\ th'[m].ret = th[m].ret
    BY <1>0, <2>1, GoesTo DEF Labels
  <2>. QED BY <1>0, <1>7, <2>1, <2>2 DEF EnterSyscallCheck, TypeOK
<1>8. CASE WorldStops(m)
  <2>1. PICK l \in {"stopped"} : Goto(m, l)
    BY <1>8 DEF WorldStops
  <2>2. /\ Others(m) /\ th'[m].pc = l
        /\ th'[m].spinning = th[m].spinning /\ th'[m].ret = th[m].ret
    BY <1>0, <2>1, GoesTo DEF Labels
  <2>. QED BY <1>0, <1>8, <2>1, <2>2 DEF WorldStops, TypeOK
<1>. QED BY <1>1, <1>2, <1>3, <1>4, <1>5, <1>6, <1>7, <1>8

\* The calls of wakep, startm, injectglist and handoffp, up to where a P or a thread is found.
LEMMA CallOnward ==
  ASSUME IInv, NEW t \in Thread,
         \/ Wakep(t) \/ StartmNoP(t) \/ Undo(t) \/ Inject(t)
         \/ HandoffWork(t) \/ HandoffSpin(t) \/ HandoffIdle(t) \/ HandoffCas(t)
  PROVE  Onward(t)
<1>0. t \in Thread /\ Fits(t) /\ th[t] \in State /\ TypeOK
  BY ThreadFacts DEF IInv
<1>. USE DEF Onward, Stays, Others, SpinStep, Spins, Fits, Shape, EmptyFor, At, Stopper, InSyscall,
             HasP, HasG, InCall, Handing, world, queues
<1>1. CASE Wakep(t)
  <2>0. th[t].hand = NoP /\ th[t].ret = "run" /\ th[t].pc = "wakep" /\ th[t].p # NoP
    BY <1>0, <1>1 DEF Wakep
  <2>1. CASE nmspinning = 0 /\ nmspinning' = 1 /\ Goto(t, "startspin")
    <3>1. /\ Others(t) /\ th'[t].pc = "startspin"
          /\ th'[t].spinning = th[t].spinning /\ th'[t].ret = th[t].ret
      BY <1>0, <2>1, GoesTo DEF Labels
    <3>. QED BY <1>0, <1>1, <2>0, <2>1, <3>1 DEF Wakep, TypeOK
  <2>2. CASE Return(t) /\ UNCHANGED nmspinning
    <3>1. /\ Others(t) /\ th'[t].pc = "run"
          /\ th'[t].spinning = th[t].spinning /\ th'[t].ret = "run"
      BY <1>0, <2>0, <2>2, ReturnsTo
    <3>. QED BY <1>0, <1>1, <2>0, <2>2, <3>1 DEF Wakep, TypeOK
  <2>. QED BY <1>1, <2>1, <2>2 DEF Wakep
<1>2. CASE StartmNoP(t)
  <2>1. CASE At(t, "startspin")
    <3>1. Goto(t, "undo")
      BY <1>2, <2>1 DEF StartmNoP
    <3>2. /\ Others(t) /\ th'[t].pc = "undo"
          /\ th'[t].spinning = th[t].spinning /\ th'[t].ret = th[t].ret
      BY <1>0, <3>1, GoesTo DEF Labels
    <3>. QED BY <1>0, <1>2, <2>1, <3>2 DEF StartmNoP, TypeOK
  <2>2. CASE At(t, "startm")
    <3>1. Return(t) /\ th[t].hand = NoP
      BY <1>2, <2>2 DEF StartmNoP
    <3>2. /\ Others(t) /\ th'[t].pc = th[t].ret
          /\ th'[t].spinning = th[t].spinning
          /\ th'[t].ret = IF th[t].ret = "stopm" THEN "find" ELSE "run"
      BY <1>0, <3>1, ReturnsTo
    <3>. QED BY <1>0, <1>2, <2>2, <3>2 DEF StartmNoP, TypeOK
  <2>. QED BY <1>2, <2>1, <2>2 DEF StartmNoP
<1>3. CASE Undo(t)
  <2>0. th[t].hand = NoP /\ th[t].ret = "run" /\ th[t].pc = "undo" /\ th[t].p # NoP
    BY <1>0, <1>3 DEF Undo
  <2>1. /\ Others(t) /\ th'[t].pc = "run"
        /\ th'[t].spinning = th[t].spinning /\ th'[t].ret = "run"
    BY <1>0, <1>3, <2>0, ReturnsTo DEF Undo
  <2>. QED BY <1>0, <1>3, <2>0, <2>1 DEF Undo, TypeOK
<1>4. CASE Inject(t)
  <2>0. th[t].hand = NoP /\ th[t].pc = "inject" /\ th[t].ret \in {"stopm", "sysmon"}
    BY <1>0, <1>4 DEF Inject
  <2>1. CASE pidle # {}
    <3>1. /\ Others(t) /\ th'[t].pc = "startm"
          /\ th'[t].spinning = th[t].spinning /\ th'[t].ret = th[t].ret
      BY <1>0, <1>4, <2>1, GoesTo DEF Labels, Inject
    <3>. QED BY <1>0, <1>4, <2>0, <2>1, <3>1 DEF Inject, TypeOK
  <2>2. CASE pidle = {}
    <3>1. /\ Others(t) /\ th'[t].pc = th[t].ret
          /\ th'[t].spinning = th[t].spinning
          /\ th'[t].ret = IF th[t].ret = "stopm" THEN "find" ELSE "run"
      BY <1>0, <1>4, <2>0, <2>2, ReturnsTo DEF Inject
    <3>. QED BY <1>0, <1>4, <2>0, <2>2, <3>1 DEF Inject, TypeOK
  <2>. QED BY <2>1, <2>2
<1>5. CASE HandoffWork(t)
  <2>0. th[t].pc = "handoff" /\ th[t].hand # NoP
    BY <1>0, <1>5 DEF HandoffWork
  <2>1. PICK l \in {"startm", "handoff2"} :
          Goto(t, l) /\ (l = "handoff2" => runq[th[t].hand] = {})
    <3>1. CASE runq[th[t].hand] # {} \/ globrunq # {}
      BY <1>5, <3>1 DEF HandoffWork
    <3>2. CASE ~(runq[th[t].hand] # {} \/ globrunq # {})
      BY <1>5, <3>2 DEF HandoffWork
    <3>. QED BY <3>1, <3>2
  <2>2. /\ Others(t) /\ th'[t].pc = l
        /\ th'[t].spinning = th[t].spinning /\ th'[t].ret = th[t].ret
    BY <1>0, <2>1, GoesTo DEF Labels
  <2>. QED BY <1>0, <1>5, <2>0, <2>1, <2>2 DEF HandoffWork, TypeOK
<1>6. CASE HandoffSpin(t) \/ HandoffIdle(t)
  <2>0. th[t].pc \in {"handoff2", "handoffidle"} /\ th[t].hand # NoP
    BY <1>0, <1>6 DEF HandoffSpin, HandoffIdle
  <2>1. PICK l \in {"handoffidle", "handoffspin", "handoff3"} : Goto(t, l)
    <3>1. CASE HandoffSpin(t)
      BY <3>1 DEF HandoffSpin
    <3>2. CASE HandoffIdle(t)
      BY <3>2 DEF HandoffIdle
    <3>. QED BY <1>6, <3>1, <3>2
  <2>2. /\ Others(t) /\ th'[t].pc = l
        /\ th'[t].spinning = th[t].spinning /\ th'[t].ret = th[t].ret
    BY <1>0, <2>1, GoesTo DEF Labels
  <2>. QED BY <1>0, <1>6, <2>0, <2>1, <2>2 DEF HandoffSpin, HandoffIdle, TypeOK
<1>7. CASE HandoffCas(t)
  <2>0. th[t].pc = "handoffspin" /\ th[t].hand # NoP
    BY <1>0, <1>7 DEF HandoffCas
  <2>1. CASE nmspinning = 0 /\ nmspinning' = 1 /\ Goto(t, "startspin")
    <3>1. /\ Others(t) /\ th'[t].pc = "startspin"
          /\ th'[t].spinning = th[t].spinning /\ th'[t].ret = th[t].ret
      BY <1>0, <2>1, GoesTo DEF Labels
    <3>. QED BY <1>0, <1>7, <2>0, <2>1, <3>1 DEF HandoffCas, TypeOK
  <2>2. CASE Goto(t, "handoff3") /\ UNCHANGED nmspinning
    <3>1. /\ Others(t) /\ th'[t].pc = "handoff3"
          /\ th'[t].spinning = th[t].spinning /\ th'[t].ret = th[t].ret
      BY <1>0, <2>2, GoesTo DEF Labels
    <3>. QED BY <1>0, <1>7, <2>0, <2>2, <3>1 DEF HandoffCas, TypeOK
  <2>. QED BY <1>7, <2>1, <2>2 DEF HandoffCas
<1>. QED BY <1>1, <1>2, <1>3, <1>4, <1>5, <1>6, <1>7

\* A thread whose state becomes r; the other threads keep theirs.
LEMMA BecomesOther ==
  ASSUME NEW m \in Thread, th \in [Thread -> State], NEW r \in State, th' = [th EXCEPT ![m] = r]
  PROVE  /\ th' \in [Thread -> State] /\ \A t \in Thread \ {m} : th'[t] = th[t]
         /\ th'[m] = r
OBVIOUS

\* The state of a spinner that has looked into every queue again.
LEMMA NothingLeftState ==
  ASSUME NEW s \in State
  PROVE  LET r == NothingLeft(s) IN
         /\ r \in State /\ r.pc = "poll" /\ r.p = s.p /\ r.next = s.next /\ r.hand = s.hand
         /\ r.g = s.g /\ r.spinning = s.spinning /\ r.ret = s.ret
BY DEF NothingLeft, State, Labels

\* The steps of findrunnable and gcstopm that only go on, spinning or no longer.
LEMMA MoreOnward ==
  ASSUME IInv, NEW m \in M,
         \/ GcWaiting(m) \/ DropGc(m) \/ SpinUp(m) \/ Drop(m) \/ Recheck(m) \/ Respin(m) \/ Poll(m)
         \/ ResetSpinning(m)
  PROVE  Onward(m)
<1>0. m \in Thread /\ m # Sysmon /\ Fits(m) /\ th[m] \in State /\ TypeOK
  BY ThreadFacts DEF IInv
<1>t. m \in Thread /\ th \in [Thread -> State]
  BY <1>0 DEF TypeOK
<1>. USE DEF Onward, Stays, Others, SpinStep, Spins, Fits, Shape, EmptyFor, At, Stopper, InSyscall,
             HasP, HasG, InCall, Handing, world, queues
<1>1. CASE GcWaiting(m)
  <2>1. PICK l \in {"dropgc", "gcstop"} :
          /\ th' = [th EXCEPT ![m].pc = l, ![m].spinning = FALSE, ![m].ret = th[m].pc]
          /\ l = "dropgc" <=> th[m].spinning
    <3>1. CASE th[m].spinning
      BY <1>1, <3>1 DEF GcWaiting
    <3>2. CASE ~th[m].spinning
      BY <1>1, <3>2 DEF GcWaiting
    <3>. QED BY <3>1, <3>2
  <2>2. /\ Others(m) /\ th'[m].pc = l /\ th'[m].spinning = FALSE /\ th'[m].ret = th[m].pc
    <3>1. PICK r : r = [th[m] EXCEPT !.pc = l, !.spinning = FALSE, !.ret = th[m].pc]
      OBVIOUS
    <3>2. r \in State /\ r.pc = l /\ r.spinning = FALSE /\ r.ret = th[m].pc
          /\ r.p = th[m].p /\ r.next = th[m].next /\ r.hand = th[m].hand /\ r.g = th[m].g
      <4>1. l \in Labels /\ th[m].pc \in Labels
        BY <1>t DEF State, Labels
      <4>. QED BY <1>t, <3>1, <4>1 DEF State
    <3>3. th' = [th EXCEPT ![m] = r]
      BY <2>1, <3>1, Zenon
    <3>. QED BY <1>t, <3>2, <3>3, BecomesOther DEF Others
  <2>. QED BY <1>0, <1>1, <2>1, <2>2 DEF GcWaiting, TypeOK
<1>2. CASE DropGc(m)
  <2>2. /\ Others(m) /\ th'[m].pc = "gcstop"
        /\ th'[m].spinning = th[m].spinning /\ th'[m].ret = th[m].ret
    BY <1>0, <1>2, GoesTo DEF Labels, DropGc
  <2>. QED BY <1>0, <1>2, <2>2 DEF DropGc, TypeOK
<1>3. CASE SpinUp(m)
  <2>2. /\ Others(m) /\ th'[m].pc = "steal" /\ th'[m].spinning = TRUE /\ th'[m].ret = th[m].ret
    BY <1>0, <1>3 DEF TypeOK, State, Labels, SpinUp
  <2>. QED BY <1>0, <1>3, <2>2 DEF SpinUp, TypeOK
<1>4. CASE Drop(m)
  <2>2. /\ Others(m) /\ th'[m].pc = "recheck" /\ th'[m].spinning = FALSE /\ th'[m].ret = th[m].ret
    BY <1>0, <1>4 DEF TypeOK, State, Labels, Drop
  <2>. QED BY <1>0, <1>4, <2>2 DEF Drop, TypeOK
<1>5. CASE Recheck(m)
  <2>1. PICK l \in {"recheck", "getp", "poll"} :
          Others(m) /\ th'[m].pc = l /\ th'[m].spinning = th[m].spinning /\ th'[m].ret = th[m].ret
    <3>1. CASE \E p \in th[m].left \cap procs : th' = [th EXCEPT ![m].left = @ \ {p}]
      <4>1. Others(m) /\ th'[m].pc = "recheck" /\ th'[m].spinning = th[m].spinning
              /\ th'[m].ret = th[m].ret
        BY <1>0, <1>5, <3>1 DEF TypeOK, State, Recheck
      <4>. QED BY <4>1
    <3>2. CASE th' = [th EXCEPT ![m].left = {}, ![m].pc = "getp"]
      <4>1. Others(m) /\ th'[m].pc = "getp" /\ th'[m].spinning = th[m].spinning
              /\ th'[m].ret = th[m].ret
        <5>1. PICK r : r = [th[m] EXCEPT !.left = {}, !.pc = "getp"]
          OBVIOUS
        <5>2. r \in State /\ r.pc = "getp" /\ r.spinning = th[m].spinning /\ r.ret = th[m].ret
              /\ r.p = th[m].p /\ r.next = th[m].next /\ r.hand = th[m].hand /\ r.g = th[m].g
          <6>1. "getp" \in Labels
            BY DEF Labels
          <6>. QED BY <1>t, <5>1, <6>1 DEF State
        <5>3. th' = [th EXCEPT ![m] = r]
          BY <3>2, <5>1, Zenon
        <5>. QED BY <1>t, <5>2, <5>3, BecomesOther DEF Others
      <4>. QED BY <4>1
    <3>3. CASE th' = [th EXCEPT ![m] = NothingLeft(@)]
      <4>1. Others(m) /\ th'[m].pc = "poll" /\ th'[m].spinning = th[m].spinning
              /\ th'[m].ret = th[m].ret
        BY <1>t, <3>3, NothingLeftState, BecomesOther DEF Others
      <4>. QED BY <4>1
    <3>. QED BY <1>5, <3>1, <3>2, <3>3 DEF Recheck
  <2>. QED BY <1>0, <1>5, <2>1 DEF Recheck, TypeOK
<1>6. CASE Respin(m)
  <2>2. /\ Others(m) /\ th'[m].pc = "find" /\ th'[m].spinning = TRUE /\ th'[m].ret = th[m].ret
    BY <1>0, <1>6 DEF TypeOK, State, Labels, Respin
  <2>. QED BY <1>0, <1>6, <2>2 DEF Respin, TypeOK
<1>7. CASE Poll(m)
  <2>1. CASE polling' = TRUE /\ Goto(m, "polling")
    <3>1. /\ Others(m) /\ th'[m].pc = "polling"
          /\ th'[m].spinning = th[m].spinning /\ th'[m].ret = th[m].ret
      BY <1>0, <2>1, GoesTo DEF Labels
    <3>. QED BY <1>0, <1>7, <2>1, <3>1 DEF Poll, TypeOK
  <2>2. CASE th' = [th EXCEPT ![m].pc = "stopm", ![m].ret = "find"] /\ UNCHANGED polling
    <3>1. /\ Others(m) /\ th'[m].pc = "stopm"
          /\ th'[m].spinning = th[m].spinning /\ th'[m].ret = "find"
      <4>1. PICK r : r = [th[m] EXCEPT !.pc = "stopm", !.ret = "find"]
        OBVIOUS
      <4>2. r \in State /\ r.pc = "stopm" /\ r.spinning = th[m].spinning /\ r.ret = "find"
            /\ r.p = th[m].p /\ r.next = th[m].next /\ r.hand = th[m].hand /\ r.g = th[m].g
        <5>1. {"stopm", "find"} \subseteq Labels
          BY DEF Labels
        <5>. QED BY <1>t, <4>1, <5>1 DEF State
      <4>3. th' = [th EXCEPT ![m] = r]
        BY <2>2, <4>1, Zenon
      <4>. QED BY <1>t, <4>2, <4>3, BecomesOther DEF Others
    <3>. QED BY <1>0, <1>7, <2>2, <3>1 DEF Poll, TypeOK
  <2>. QED BY <1>7, <2>1, <2>2 DEF Poll
<1>8. CASE ResetSpinning(m)
  <2>1. PICK l \in {"ready", "run"} :
          th' = [th EXCEPT ![m].spinning = FALSE, ![m].pc = l]
    <3>1. CASE nmspinning' = 0
      BY <1>8, <3>1 DEF ResetSpinning
    <3>2. CASE nmspinning' # 0
      BY <1>8, <3>2 DEF ResetSpinning
    <3>. QED BY <3>1, <3>2
  <2>2. /\ Others(m) /\ th'[m].pc = l /\ th'[m].spinning = FALSE /\ th'[m].ret = th[m].ret
    <3>1. PICK r : r = [th[m] EXCEPT !.spinning = FALSE, !.pc = l]
      OBVIOUS
    <3>2. r \in State /\ r.pc = l /\ r.spinning = FALSE /\ r.ret = th[m].ret
          /\ r.p = th[m].p /\ r.next = th[m].next /\ r.hand = th[m].hand /\ r.g = th[m].g
      <4>1. l \in Labels
        BY DEF Labels
      <4>. QED BY <1>t, <3>1, <4>1 DEF State
    <3>3. th' = [th EXCEPT ![m] = r]
      BY <2>1, <3>1, Zenon
    <3>. QED BY <1>t, <3>2, <3>3, BecomesOther DEF Others
  <2>. QED BY <1>0, <1>8, <2>1, <2>2 DEF ResetSpinning, TypeOK
<1>. QED BY <1>1, <1>2, <1>3, <1>4, <1>5, <1>6, <1>7, <1>8
-----------------------------------------------------------------------------
\* The steps that move goroutines: from a queue to the thread, or from the thread to a queue.
LEMMA MovesKeep ==
  ASSUME IInv, NEW m \in Thread, Stays(m), Fits(m)', SpinStep(m), polling' \in BOOLEAN,
         runq' \in [P -> SUBSET G], globrunq' \subseteq G, Places',
         \A p \in P : runq[p] = {} /\ ~HasIt(m, p) => runq'[p] = {},
         \/ globrunq # {} /\ ~At(m, "inject") /\ ~At(m, "startm")
         \/ globrunq' = {} \/ pidle # procs \/ th'[m].pc = "inject"
  PROVE  IInv'
<1>. USE DEF IInv
<1>1. Owners' /\ World'
  BY StaysKeeps
<1>2. Fit' /\ Idle'
  BY OthersFit
<1>3. SpinningCounted' /\ nmspinning' \in Nat
  BY SpinStepCounts DEF Stays
<1>4. TypeOK'
  BY <1>3 DEF TypeOK, Stays
<1>5. Attended'
  BY DEF Attended, Stays, TypeOK, At
<1>. QED BY <1>1, <1>2, <1>3, <1>4, <1>5

\* A thread takes a goroutine from a queue, and perhaps others to the queue of its P.
LEMMA TakenOnce ==
  ASSUME Places, runq \in [P -> SUBSET G], globrunq \subseteq G, NEW m \in Thread, NEW q \in P,
         NEW batch, NEW g \in batch,
         \A t \in Thread \ {m} : th'[t] = th[t], th'[m].g = g, NoG \notin G,
         \/ /\ batch \subseteq globrunq /\ globrunq' = globrunq \ batch
            /\ runq' = [runq EXCEPT ![q] = @ \cup (batch \ {g})]
         \/ /\ globrunq' = globrunq /\ batch = {g} /\ g \in runq[q]
            /\ runq' = [runq EXCEPT ![q] = @ \ {g}]
  PROVE  Places' /\ runq' \in [P -> SUBSET G] /\ globrunq' \subseteq G
         /\ \A p \in P \ {q} : runq'[p] \subseteq runq[p]
<1>1. \A t \in Thread \ {m} : th'[t].g \notin batch
  BY DEF Places
<1>2. CASE /\ batch \subseteq globrunq /\ globrunq' = globrunq \ batch
           /\ runq' = [runq EXCEPT ![q] = @ \cup (batch \ {g})]
  <2>1. /\ runq' \in [P -> SUBSET G] /\ runq'[q] = runq[q] \cup (batch \ {g})
        /\ \A p \in P \ {q} : runq'[p] = runq[p]
    BY <1>2
  <2>. QED BY <1>1, <1>2, <2>1 DEF Places
<1>4. CASE /\ globrunq' = globrunq /\ batch = {g} /\ g \in runq[q]
           /\ runq' = [runq EXCEPT ![q] = @ \ {g}]
  <2>1. /\ runq' \in [P -> SUBSET G] /\ runq'[q] = runq[q] \ {g}
        /\ \A p \in P \ {q} : runq'[p] = runq[p]
    BY <1>4
  <2>. QED BY <1>1, <1>4, <2>1 DEF Places
<1>. QED BY <1>2, <1>4

\* A goroutine that waits is nowhere.
LEMMA WaitingNowhere ==
  ASSUME NEW g \in Waiting
  PROVE  /\ g \in G /\ g \notin globrunq /\ \A p \in P : g \notin runq[p]
         /\ \A t \in Thread : th[t].g # g
BY DEF Waiting, Queued

\* The P that a thread runs goroutines with is not idle.
LEMMA BusyP ==
  ASSUME IInv, NEW t \in Thread, th[t].pc \in HasP
  PROVE  /\ th[t].p \in procs \ pidle /\ HasIt(t, th[t].p) /\ th[t].next = NoP /\ th[t].hand = NoP
         /\ th[t].p \in P /\ th[t].ret \in {"run", "schedule", "find"}
         /\ ~Stopper(t) => status[th[t].p] = "running"
<1>1. Fits(t) /\ th[t] \in State /\ TypeOK /\ Owners /\ Idle
  BY ThreadFacts DEF IInv
<1>2. th[t].p \in P /\ HasIt(t, th[t].p)
  BY <1>1 DEF Fits, Shape, State, HasP, HasIt, InSyscall
<1>3. /\ status[th[t].p] = IF Stopper(t) THEN "gcstop" ELSE "running"
      /\ status[th[t].p] = "dead" <=> th[t].p \notin procs
  BY <1>1, <1>2 DEF Owners
<1>4. th[t].p \in procs \ pidle
  BY <1>1, <1>2, <1>3 DEF Idle
<1>5. th[t].next = NoP /\ th[t].hand = NoP /\ th[t].ret \in {"run", "schedule", "find"}
  BY <1>1, <1>2, NamesAssumption DEF Fits, Shape, HasP
<1>. QED BY <1>2, <1>3, <1>4, <1>5

\* What a thread that got a goroutine looks like.
LEMMA GotState ==
  ASSUME TypeOK, NEW m \in Thread, NEW g \in G, Got(m, g)
  PROVE  /\ th' \in [Thread -> State] /\ \A t \in Thread \ {m} : th'[t] = th[t]
         /\ th'[m].p = th[m].p /\ th'[m].next = th[m].next /\ th'[m].hand = th[m].hand
         /\ th'[m].g = g /\ th'[m].pc = "got" /\ th'[m].spinning = th[m].spinning
         /\ th'[m].ret = th[m].ret
<1>1. PICK r : r = [th[m] EXCEPT !.g = g, !.pc = "got"]
  OBVIOUS
<1>2. "got" \in Labels /\ th[m] \in State /\ th \in [Thread -> State]
  BY DEF Labels, TypeOK
<1>3. /\ r \in State /\ r.p = th[m].p /\ r.next = th[m].next /\ r.hand = th[m].hand
      /\ r.g = g /\ r.pc = "got" /\ r.spinning = th[m].spinning /\ r.ret = th[m].ret
  BY <1>1, <1>2 DEF State
<1>4. th' = [th EXCEPT ![m] = r]
  BY <1>1, Zenon DEF Got
<1>. QED BY <1>2, <1>3, <1>4, BecomesOther

\* A thread that finds a goroutine, wherever it was, preserves the invariant;
LEMMA GotKeeps ==
  ASSUME IInv, NEW m \in M, NEW g \in G, Got(m, g),
         th[m].pc \in {"schedule", "look", "steal", "stop"},
         runq' \in [P -> SUBSET G], globrunq' \subseteq globrunq, Places',
         \A p \in P \ {th[m].p} : runq'[p] \subseteq runq[p],
         UNCHANGED <<world, status, pidle, midle, nmspinning, polling>>
  PROVE  IInv'
<1>0. m \in Thread /\ m # Sysmon /\ Fits(m) /\ th[m] \in State /\ TypeOK
  BY ThreadFacts DEF IInv
<1>1. /\ th' \in [Thread -> State] /\ \A t \in Thread \ {m} : th'[t] = th[t]
      /\ th'[m].p = th[m].p /\ th'[m].next = th[m].next /\ th'[m].hand = th[m].hand
      /\ th'[m].g = g /\ th'[m].pc = "got" /\ th'[m].spinning = th[m].spinning
      /\ th'[m].ret = th[m].ret
  BY <1>0, GotState
<1>2. /\ HasIt(m, th[m].p) /\ th[m].next = NoP /\ th[m].hand = NoP /\ th[m].p \in procs \ pidle
      /\ th[m].p \in P
  BY <1>0, BusyP DEF HasP
<1>3. Stays(m) /\ SpinStep(m) /\ polling' \in BOOLEAN /\ ~At(m, "inject") /\ ~At(m, "startm")
  BY <1>0, <1>1 DEF Stays, SpinStep, Spins, At, InSyscall, Stopper, world, TypeOK
<1>4. g # NoG
  BY NamesAssumption
<1>5. Fits(m)'
  BY <1>0, <1>1, <1>2, <1>4 DEF Fits, Shape, EmptyFor, At, HasP, HasG, InCall, Handing
<1>6. \A p \in P : runq[p] = {} /\ ~HasIt(m, p) => runq'[p] = {}
  BY <1>2
<1>7. globrunq' \subseteq G /\ pidle # procs
  BY <1>0, <1>2 DEF TypeOK
<1>. QED BY <1>0, <1>3, <1>5, <1>6, <1>7, MovesKeep

\* that is so in the global queue, its own, and one it steals from.
LEMMA RunsNext ==
  ASSUME IInv, NEW m \in M,
         ScheduleGlobal(m) \/ RunqGet(m) \/ LookGlobal(m) \/ Steal(m) \/ StopGlobal(m)
  PROVE  IInv'
<1>0. m \in Thread /\ Places /\ TypeOK /\ NoG \notin G
  BY ThreadFacts, NamesAssumption DEF IInv
<1>t. runq \in [P -> SUBSET G] /\ globrunq \subseteq G /\ procs \subseteq P
  BY <1>0 DEF TypeOK
<1>1. th[m].pc \in {"schedule", "look", "steal", "stop"}
  BY DEF ScheduleGlobal, RunqGet, LookGlobal, Steal, StopGlobal, At
<1>2. UNCHANGED <<world, status, pidle, midle, nmspinning, polling>>
  BY DEF ScheduleGlobal, RunqGet, LookGlobal, Steal, StopGlobal
<1>3. th[m].p \in P
  BY <1>0, <1>1, BusyP DEF HasP
<1>4. ASSUME NEW g \in globrunq, NEW limit \in {0, 1}, Globrunqget(th[m].p, g, limit), Got(m, g)
      PROVE  IInv'
  <2>1. PICK batch : /\ batch \subseteq globrunq /\ g \in batch
                     /\ globrunq' = globrunq \ batch
                     /\ runq' = [runq EXCEPT ![th[m].p] = @ \cup (batch \ {g})]
    <3>1. PICK n : \E batch \in kSubset(n, globrunq) :
                      /\ g \in batch
                      /\ globrunq' = globrunq \ batch
                      /\ runq' = [runq EXCEPT ![th[m].p] = @ \cup (batch \ {g})]
      BY <1>4 DEF Globrunqget
    <3>. QED BY <3>1 DEF kSubset
  <2>2. g \in G
    BY <1>t
  <2>3. \A t \in Thread \ {m} : th'[t] = th[t]
    BY <1>0, <1>4, <2>2, GotState
  <2>4. th'[m].g = g
    BY <1>0, <1>4, <2>2, GotState
  <2>5. Places' /\ runq' \in [P -> SUBSET G] /\ \A p \in P \ {th[m].p} : runq'[p] \subseteq runq[p]
    BY <1>0, <1>t, <1>3, <2>1, <2>3, <2>4, TakenOnce
  <2>. QED BY <1>1, <1>2, <1>4, <2>1, <2>2, <2>5, GotKeeps
<1>5. CASE ScheduleGlobal(m)
  BY <1>4, <1>5 DEF ScheduleGlobal
<1>6. CASE LookGlobal(m) \/ StopGlobal(m)
  BY <1>4, <1>6 DEF LookGlobal, StopGlobal
<1>7. CASE RunqGet(m)
  <2>1. PICK g \in runq[th[m].p] : runq' = [runq EXCEPT ![th[m].p] = @ \ {g}] /\ Got(m, g)
    BY <1>7 DEF RunqGet
  <2>2. g \in G /\ globrunq' = globrunq
    BY <1>t, <1>3, <1>7 DEF RunqGet
  <2>3. \A t \in Thread \ {m} : th'[t] = th[t]
    BY <1>0, <2>1, <2>2, GotState
  <2>4. th'[m].g = g
    BY <1>0, <2>1, <2>2, GotState
  <2>5. Places' /\ runq' \in [P -> SUBSET G] /\ \A p \in P \ {th[m].p} : runq'[p] \subseteq runq[p]
    BY <1>0, <1>t, <1>3, <2>1, <2>2, <2>3, <2>4, TakenOnce
  <2>. QED BY <1>1, <1>2, <2>1, <2>2, <2>5, GotKeeps
<1>8. CASE Steal(m)
  <2>1. PICK p, batch, g :
          /\ p \in procs /\ p # th[m].p /\ batch \subseteq runq[p] /\ g \in batch
          /\ runq' = [runq EXCEPT ![p] = @ \ batch, ![th[m].p] = @ \cup (batch \ {g})]
          /\ Got(m, g)
    <3>1. PICK p, n : /\ p \in procs /\ p # th[m].p
               /\ \E batch \in kSubset(n, runq[p]), g \in runq[p] :
                    /\ g \in batch
                    /\ runq' = [runq EXCEPT ![p] = @ \ batch, ![th[m].p] = @ \cup (batch \ {g})]
                    /\ Got(m, g)
      BY <1>8 DEF Steal
    <3>. QED BY <3>1 DEF kSubset
  <2>2. g \in G /\ globrunq' = globrunq /\ p \in P
    BY <1>t, <1>3, <1>8, <2>1 DEF Steal
  <2>3. \A t \in Thread \ {m} : th'[t] = th[t]
    BY <1>0, <2>1, <2>2, GotState
  <2>4. th'[m].g = g
    BY <1>0, <2>1, <2>2, GotState
  <2>5. g \in batch /\ p # th[m].p /\ batch \subseteq runq[p]
    BY <2>1
  <2>6. /\ runq' \in [P -> SUBSET G] /\ runq'[th[m].p] = runq[th[m].p] \cup (batch \ {g})
        /\ runq'[p] = runq[p] \ batch /\ \A r \in P \ {p, th[m].p} : runq'[r] = runq[r]
    BY <1>t, <1>3, <2>1, <2>2
  <2>7. Places' /\ runq' \in [P -> SUBSET G] /\ \A r \in P \ {th[m].p} : runq'[r] \subseteq runq[r]
    <3>1. PICK q \in P : q = th[m].p
      BY <1>3
    <3>2. Places /\ NoG \notin G /\ runq \in [P -> SUBSET G]
      BY <1>0, <1>t
    <3>3. \A t \in Thread \ {m} : th'[t].g \notin batch
      BY <1>t, <2>2, <2>3, <2>5, <3>2 DEF Places
    <3>4. /\ runq'[q] = runq[q] \cup (batch \ {g})
          /\ runq'[p] = runq[p] \ batch /\ \A r \in P \ {p, q} : runq'[r] = runq[r]
      BY <2>6, <3>1
    <3>5. Places'
      BY <2>2, <2>3, <2>4, <2>5, <3>1, <3>2, <3>3, <3>4 DEF Places
    <3>. QED BY <2>6, <3>1, <3>4, <3>5
  <2>. QED BY <1>1, <1>2, <2>1, <2>2, <2>7, GotKeeps
<1>. QED BY <1>5, <1>6, <1>7, <1>8

\* The thread gets a goroutine, puts one away, or leaves it to the others.
LEMMA Rearranged ==
  ASSUME Places, runq \in [P -> SUBSET G], globrunq \subseteq G, NEW m \in Thread, NoG \notin G,
         \A t \in Thread \ {m} : th'[t] = th[t],
         \/ \E g \in Waiting, q \in P :
              /\ th'[m].g = th[m].g /\ globrunq' = globrunq
              /\ runq' = [runq EXCEPT ![q] = @ \cup {g}]
         \/ \E g \in Waiting :
              /\ th'[m].g = th[m].g /\ globrunq' = globrunq \cup {g} /\ runq' = runq
         \/ \E g \in Waiting : th'[m].g = g /\ UNCHANGED <<runq, globrunq>>
         \/ /\ th[m].g \in G /\ th'[m].g = NoG
            /\ globrunq' = globrunq \cup {th[m].g} /\ runq' = runq
         \/ th'[m].g = NoG /\ UNCHANGED <<runq, globrunq>>
  PROVE  Places' /\ runq' \in [P -> SUBSET G] /\ globrunq' \subseteq G
<1>1. ASSUME NEW g \in Waiting, NEW q \in P, th'[m].g = th[m].g, globrunq' = globrunq,
             runq' = [runq EXCEPT ![q] = @ \cup {g}]
      PROVE  Places' /\ runq' \in [P -> SUBSET G] /\ globrunq' \subseteq G
  <2>1. /\ g \in G /\ g \notin globrunq /\ \A p \in P : g \notin runq[p]
        /\ \A t \in Thread : th[t].g # g
    BY WaitingNowhere
  <2>2. /\ runq' \in [P -> SUBSET G] /\ runq'[q] = runq[q] \cup {g}
        /\ \A p \in P \ {q} : runq'[p] = runq[p]
    BY <1>1, <2>1
  <2>3. \A t \in Thread : th'[t].g = th[t].g
    BY <1>1
  <2>. QED BY <1>1, <2>1, <2>2, <2>3 DEF Places
<1>2. ASSUME NEW g \in Waiting, th'[m].g = th[m].g, globrunq' = globrunq \cup {g}, runq' = runq
      PROVE  Places' /\ runq' \in [P -> SUBSET G] /\ globrunq' \subseteq G
  <2>1. /\ g \in G /\ g \notin globrunq /\ \A p \in P : g \notin runq[p]
        /\ \A t \in Thread : th[t].g # g
    BY WaitingNowhere
  <2>3. \A t \in Thread : th'[t].g = th[t].g
    BY <1>2
  <2>. QED BY <1>2, <2>1, <2>3 DEF Places
<1>3. ASSUME NEW g \in Waiting, th'[m].g = g, UNCHANGED <<runq, globrunq>>
      PROVE  Places' /\ runq' \in [P -> SUBSET G] /\ globrunq' \subseteq G
  <2>1. /\ g \in G /\ g \notin globrunq /\ \A p \in P : g \notin runq[p]
        /\ \A t \in Thread : th[t].g # g
    BY WaitingNowhere
  <2>. QED BY <1>3, <2>1 DEF Places
<1>4. CASE /\ th[m].g \in G /\ th'[m].g = NoG
           /\ globrunq' = globrunq \cup {th[m].g} /\ runq' = runq
  <2>1. \A t \in Thread \ {m} : th'[t].g # th[m].g
    BY <1>4 DEF Places
  <2>. QED BY <1>4, <2>1 DEF Places
<1>5. CASE th'[m].g = NoG /\ UNCHANGED <<runq, globrunq>>
  BY <1>5 DEF Places
<1>. QED BY <1>1, <1>2, <1>3, <1>4, <1>5

\* ready puts a waiting goroutine in the queue of the caller's P.
LEMMA ReadyKeeps ==
  ASSUME IInv, NEW m \in M, Ready(m)
  PROVE  IInv'
<1>0. m \in Thread /\ m # Sysmon /\ Fits(m) /\ th[m] \in State /\ TypeOK /\ NoG \notin G
  BY ThreadFacts, NamesAssumption DEF IInv
<1>1. /\ Others(m) /\ th'[m].pc = "ready"
      /\ th'[m].spinning = th[m].spinning /\ th'[m].ret = th[m].ret
  BY <1>0, GoesTo DEF Labels, Ready
<1>2. /\ HasIt(m, th[m].p) /\ th[m].next = NoP /\ th[m].hand = NoP /\ th[m].p \in procs \ pidle
      /\ th[m].p \in P
  BY <1>0, BusyP DEF HasP, Ready, At
<1>3. PICK g \in Waiting : runq' = [runq EXCEPT ![th[m].p] = @ \cup {g}]
  BY DEF Ready
<1>4. Stays(m) /\ SpinStep(m) /\ polling' \in BOOLEAN /\ th[m].pc = "run"
  BY <1>0, <1>1 DEF Ready, Others, Stays, SpinStep, Spins, At, InSyscall, Stopper, world, TypeOK
<1>5. Fits(m)'
  BY <1>0, <1>1, <1>2, <1>4
     DEF Others, Fits, Shape, EmptyFor, At, HasP, HasG, InCall, Handing
<1>6. globrunq' = globrunq /\ runq \in [P -> SUBSET G] /\ globrunq \subseteq G
  BY <1>0 DEF Ready, TypeOK
<1>7. Places' /\ runq' \in [P -> SUBSET G]
  BY <1>0, <1>1, <1>2, <1>3, <1>6, Rearranged DEF IInv, Others
<1>8. \A p \in P : runq[p] = {} /\ ~HasIt(m, p) => runq'[p] = {}
  BY <1>2, <1>3, <1>6
<1>. QED BY <1>0, <1>2, <1>4, <1>5, <1>6, <1>7, <1>8, MovesKeep

\* A goroutine blocks, or yields to the global queue.
LEMMA ParkKeeps ==
  ASSUME IInv, NEW m \in M, Park(m)
  PROVE  IInv'
<1>0. m \in Thread /\ m # Sysmon /\ Fits(m) /\ th[m] \in State /\ TypeOK /\ NoG \notin G
  BY ThreadFacts, NamesAssumption DEF IInv
<1>t. th \in [Thread -> State]
  BY <1>0 DEF TypeOK
<1>1. /\ th' \in [Thread -> State] /\ \A t \in Thread \ {m} : th'[t] = th[t]
      /\ th'[m].p = th[m].p /\ th'[m].next = th[m].next /\ th'[m].hand = th[m].hand
      /\ th'[m].g = NoG /\ th'[m].pc = "schedule" /\ th'[m].spinning = th[m].spinning
      /\ th'[m].ret = th[m].ret
  <2>1. PICK r : r = [th[m] EXCEPT !.g = NoG, !.pc = "schedule"]
    OBVIOUS
  <2>2. "schedule" \in Labels
    BY DEF Labels
  <2>3. /\ r \in State /\ r.p = th[m].p /\ r.next = th[m].next /\ r.hand = th[m].hand
        /\ r.g = NoG /\ r.pc = "schedule" /\ r.spinning = th[m].spinning /\ r.ret = th[m].ret
    BY <1>0, <2>1, <2>2 DEF State
  <2>4. th' = [th EXCEPT ![m] = r]
    BY <2>1, Zenon DEF Park
  <2>. QED BY <1>0, <1>t, <2>3, <2>4, BecomesOther
<1>2. /\ HasIt(m, th[m].p) /\ th[m].next = NoP /\ th[m].hand = NoP /\ th[m].p \in procs \ pidle
      /\ th[m].p \in P
  BY <1>0, BusyP DEF HasP, Park, At
<1>4. Stays(m) /\ SpinStep(m) /\ polling' \in BOOLEAN /\ th[m].pc = "run"
  BY <1>0, <1>1 DEF Park, Others, Stays, SpinStep, Spins, At, InSyscall, Stopper, world, TypeOK
<1>6. runq' = runq /\ runq \in [P -> SUBSET G] /\ globrunq \subseteq G /\ th[m].g \in G
  BY <1>0, <1>4 DEF Park, TypeOK, Fits, Shape, HasG, State
<1>5. Fits(m)'
  BY <1>0, <1>1, <1>2, <1>4, <1>6
     DEF Others, Fits, Shape, EmptyFor, At, HasP, HasG, InCall, Handing
<1>7. Places' /\ runq' \in [P -> SUBSET G] /\ globrunq' \subseteq G
  <2>1. CASE globrunq' = globrunq
    BY <1>0, <1>1, <1>6, <2>1, Rearranged DEF IInv
  <2>2. CASE globrunq' = globrunq \cup {th[m].g}
    BY <1>0, <1>1, <1>6, <2>2, Rearranged DEF IInv
  <2>. QED BY <2>1, <2>2 DEF Park
<1>. QED BY <1>0, <1>2, <1>4, <1>5, <1>6, <1>7, MovesKeep

\* Goroutines come from the network: one for a thread, or one for the global queue.
LEMMA PollKeeps ==
  ASSUME IInv, NEW m \in M, PollReturns(m) \/ (Polled(m) /\ pidle = {})
  PROVE  IInv'
<1>0. m \in Thread /\ m # Sysmon /\ Fits(m) /\ th[m] \in State /\ TypeOK /\ NoG \notin G
  BY ThreadFacts, NamesAssumption DEF IInv
<1>t. th \in [Thread -> State]
  BY <1>0 DEF TypeOK
<1>6. runq \in [P -> SUBSET G] /\ globrunq \subseteq G /\ procs # {}
  BY <1>0 DEF TypeOK
<1>1. CASE PollReturns(m)
  <2>1. PICK g \in Waiting : th' = [th EXCEPT ![m].g = g, ![m].pc = "polled"]
    BY <1>1 DEF PollReturns
  <2>2. g \in G /\ g # NoG
    BY <1>0, WaitingNowhere
  <2>3. /\ th' \in [Thread -> State] /\ \A t \in Thread \ {m} : th'[t] = th[t]
        /\ th'[m].p = th[m].p /\ th'[m].next = th[m].next /\ th'[m].hand = th[m].hand
        /\ th'[m].g = g /\ th'[m].pc = "polled" /\ th'[m].spinning = th[m].spinning
        /\ th'[m].ret = th[m].ret
    <3>1. PICK r : r = [th[m] EXCEPT !.g = g, !.pc = "polled"]
      OBVIOUS
    <3>2. "polled" \in Labels
      BY DEF Labels
    <3>3. /\ r \in State /\ r.p = th[m].p /\ r.next = th[m].next /\ r.hand = th[m].hand
          /\ r.g = g /\ r.pc = "polled" /\ r.spinning = th[m].spinning /\ r.ret = th[m].ret
      BY <1>0, <2>2, <3>1, <3>2 DEF State
    <3>4. th' = [th EXCEPT ![m] = r]
      BY <2>1, <3>1, Zenon
    <3>. QED BY <1>0, <1>t, <3>3, <3>4, BecomesOther
  <2>4. Stays(m) /\ SpinStep(m) /\ polling' \in BOOLEAN /\ th[m].pc = "polling"
    BY <1>0, <1>1, <2>3 DEF PollReturns, Stays, SpinStep, Spins, At, InSyscall, Stopper, world, TypeOK
  <2>5. runq' = runq /\ globrunq' = globrunq
    BY <1>1 DEF PollReturns, queues
  <2>6. Fits(m)'
    BY <1>0, <2>2, <2>3, <2>4 DEF Fits, Shape, EmptyFor, At, HasP, HasG, InCall, Handing
  <2>7. Places'
    BY <1>0, <1>6, <2>3, <2>5, Rearranged DEF IInv
  <2>8. \A p \in P : runq[p] = {} => runq'[p] = {}
    BY <2>5
  <2>. QED BY <1>0, <1>6, <2>4, <2>5, <2>6, <2>7, <2>8, MovesKeep DEF At
<1>2. CASE Polled(m) /\ pidle = {}
  <2>1. /\ th' = [th EXCEPT ![m].g = NoG, ![m].pc = "inject", ![m].ret = "stopm"]
        /\ globrunq' = globrunq \cup {th[m].g} /\ th[m].pc = "polled"
        /\ UNCHANGED <<pidle, status, world, runq, midle, nmspinning, polling>>
    BY <1>2 DEF Polled, At
  <2>3. /\ th' \in [Thread -> State] /\ \A t \in Thread \ {m} : th'[t] = th[t]
        /\ th'[m].p = th[m].p /\ th'[m].next = th[m].next /\ th'[m].hand = th[m].hand
        /\ th'[m].g = NoG /\ th'[m].pc = "inject" /\ th'[m].spinning = th[m].spinning
        /\ th'[m].ret = "stopm"
    <3>1. PICK r : r = [th[m] EXCEPT !.g = NoG, !.pc = "inject", !.ret = "stopm"]
      OBVIOUS
    <3>2. {"inject", "stopm"} \subseteq Labels
      BY DEF Labels
    <3>3. /\ r \in State /\ r.p = th[m].p /\ r.next = th[m].next /\ r.hand = th[m].hand
          /\ r.g = NoG /\ r.pc = "inject" /\ r.spinning = th[m].spinning /\ r.ret = "stopm"
      BY <1>0, <3>1, <3>2 DEF State
    <3>4. th' = [th EXCEPT ![m] = r]
      BY <2>1, <3>1, Zenon
    <3>. QED BY <1>0, <1>t, <3>3, <3>4, BecomesOther
  <2>4. Stays(m) /\ SpinStep(m) /\ polling' \in BOOLEAN
    BY <1>0, <2>1, <2>3 DEF Stays, SpinStep, Spins, At, InSyscall, Stopper, world, TypeOK
  <2>5. th[m].g \in G
    BY <1>0, <2>1 DEF Fits, Shape, HasG, State
  <2>6. Fits(m)'
    BY <1>0, <2>1, <2>3 DEF Fits, Shape, EmptyFor, At, HasP, HasG, InCall, Handing
  <2>7. Places' /\ runq' \in [P -> SUBSET G] /\ globrunq' \subseteq G
    BY <1>0, <1>6, <2>1, <2>3, <2>5, Rearranged DEF IInv
  <2>8. \A p \in P : runq[p] = {} => runq'[p] = {}
    BY <2>1
  <2>. QED BY <1>0, <1>2, <1>6, <2>3, <2>4, <2>6, <2>7, <2>8, MovesKeep
<1>. QED BY <1>1, <1>2

\* sysmon polls, and injects what is ready.
LEMMA SysmonPollKeeps ==
  ASSUME IInv, SysmonPoll
  PROVE  IInv'
<1>. DEFINE m == Sysmon
<1>0. m \in Thread /\ Fits(m) /\ th[m] \in State /\ TypeOK /\ NoG \notin G
  BY ThreadFacts, NamesAssumption DEF IInv
<1>6. th \in [Thread -> State] /\ runq \in [P -> SUBSET G] /\ globrunq \subseteq G
  BY <1>0 DEF TypeOK
<1>1. PICK g \in Waiting : globrunq' = globrunq \cup {g}
  BY DEF SysmonPoll
<1>3. /\ th' \in [Thread -> State] /\ \A t \in Thread \ {m} : th'[t] = th[t]
      /\ th'[m].p = th[m].p /\ th'[m].next = th[m].next /\ th'[m].hand = th[m].hand
      /\ th'[m].g = th[m].g /\ th'[m].pc = "inject" /\ th'[m].spinning = th[m].spinning
      /\ th'[m].ret = "sysmon"
  <3>1. PICK r : r = [th[m] EXCEPT !.pc = "inject", !.ret = "sysmon"]
    OBVIOUS
  <3>2. {"inject", "sysmon"} \subseteq Labels
    BY DEF Labels
  <3>3. /\ r \in State /\ r.p = th[m].p /\ r.next = th[m].next /\ r.hand = th[m].hand
        /\ r.g = th[m].g /\ r.pc = "inject" /\ r.spinning = th[m].spinning /\ r.ret = "sysmon"
    BY <1>0, <3>1, <3>2 DEF State
  <3>4. th' = [th EXCEPT ![m] = r]
    BY <3>1, Zenon DEF SysmonPoll
  <3>. QED BY <1>0, <1>6, <3>3, <3>4, BecomesOther
<1>4. Stays(m) /\ SpinStep(m) /\ polling' \in BOOLEAN /\ th[m].pc = "sysmon" /\ runq' = runq
  BY <1>0, <1>3 DEF SysmonPoll, Stays, SpinStep, Spins, At, InSyscall, Stopper, world, TypeOK
<1>5. Fits(m)'
  BY <1>0, <1>3, <1>4 DEF Fits, Shape, EmptyFor, At, HasP, HasG, InCall, Handing
<1>7. Places' /\ runq' \in [P -> SUBSET G] /\ globrunq' \subseteq G
  BY <1>0, <1>1, <1>3, <1>4, <1>6, Rearranged DEF IInv
<1>8. \A p \in P : runq[p] = {} => runq'[p] = {}
  BY <1>4
<1>. QED BY <1>0, <1>3, <1>4, <1>5, <1>7, <1>8, MovesKeep

\* A thread back from a system call finds no P and leaves its goroutine to the others.
LEMMA ExitSyscall0Keeps ==
  ASSUME IInv, NEW m \in M, ExitSyscall0(m)
  PROVE  IInv'
<1>0. m \in Thread /\ m # Sysmon /\ Fits(m) /\ th[m] \in State /\ TypeOK /\ NoG \notin G
  BY ThreadFacts, NamesAssumption DEF IInv
<1>t. th \in [Thread -> State]
  BY <1>0 DEF TypeOK
<1>6. runq \in [P -> SUBSET G] /\ globrunq \subseteq G /\ procs # {} /\ pidle = {}
  BY <1>0 DEF TypeOK, ExitSyscall0
<1>1. CASE At(m, "exitfast") /\ Goto(m, "exitsyscall") /\ UNCHANGED globrunq
  <2>1. /\ Others(m) /\ th'[m].pc = "exitsyscall"
        /\ th'[m].spinning = th[m].spinning /\ th'[m].ret = th[m].ret
    BY <1>0, <1>1, GoesTo DEF Labels
  <2>2. UNCHANGED <<world, status, runq, globrunq, pidle, midle, nmspinning, polling>>
    BY <1>1 DEF ExitSyscall0
  <2>3. Onward(m)
    BY <1>0, <1>1, <2>1, <2>2
       DEF Onward, Stays, Others, SpinStep, Spins, Fits, Shape, EmptyFor, At, Stopper, InSyscall,
           HasP, HasG, InCall, Handing, world, queues, TypeOK
  <2>. QED BY <1>0, <2>3, OnwardKeeps
<1>2. CASE /\ At(m, "exitsyscall") /\ globrunq' = globrunq \cup {th[m].g}
           /\ th' = [th EXCEPT ![m].g = NoG, ![m].pc = "stopm", ![m].ret = "schedule"]
  <2>1. /\ th[m].pc = "exitsyscall"
        /\ UNCHANGED <<pidle, status, world, runq, midle, nmspinning, polling>>
    BY <1>2 DEF ExitSyscall0, At
  <2>3. /\ th' \in [Thread -> State] /\ \A t \in Thread \ {m} : th'[t] = th[t]
        /\ th'[m].p = th[m].p /\ th'[m].next = th[m].next /\ th'[m].hand = th[m].hand
        /\ th'[m].g = NoG /\ th'[m].pc = "stopm" /\ th'[m].spinning = th[m].spinning
        /\ th'[m].ret = "schedule"
    <3>1. PICK r : r = [th[m] EXCEPT !.g = NoG, !.pc = "stopm", !.ret = "schedule"]
      OBVIOUS
    <3>2. {"stopm", "schedule"} \subseteq Labels
      BY DEF Labels
    <3>3. /\ r \in State /\ r.p = th[m].p /\ r.next = th[m].next /\ r.hand = th[m].hand
          /\ r.g = NoG /\ r.pc = "stopm" /\ r.spinning = th[m].spinning /\ r.ret = "schedule"
      BY <1>0, <3>1, <3>2 DEF State
    <3>4. th' = [th EXCEPT ![m] = r]
      BY <1>2, <3>1, Zenon
    <3>. QED BY <1>0, <1>t, <3>3, <3>4, BecomesOther
  <2>4. Stays(m) /\ SpinStep(m) /\ polling' \in BOOLEAN
    BY <1>0, <2>1, <2>3 DEF Stays, SpinStep, Spins, At, InSyscall, Stopper, world, TypeOK
  <2>5. th[m].g \in G
    BY <1>0, <2>1 DEF Fits, Shape, HasG, State
  <2>6. Fits(m)'
    BY <1>0, <2>1, <2>3 DEF Fits, Shape, EmptyFor, At, HasP, HasG, InCall, Handing
  <2>7. Places' /\ runq' \in [P -> SUBSET G] /\ globrunq' \subseteq G
    BY <1>0, <1>2, <1>6, <2>1, <2>3, <2>5, Rearranged DEF IInv
  <2>8. \A p \in P : runq[p] = {} => runq'[p] = {}
    BY <2>1
  <2>. QED BY <1>0, <1>6, <2>3, <2>4, <2>6, <2>7, <2>8, MovesKeep
<1>. QED BY <1>1, <1>2 DEF ExitSyscall0

\* The other outcomes of steps that may take or give away a P.
LEMMA BranchOnward ==
  ASSUME IInv, NEW t \in Thread,
         \/ HandoffLocked(t) /\ ~gcwaiting /\ Goto(t, "startm") /\ UNCHANGED <<status, stopwait, pidle>>
         \/ t \in M /\ Stop(t) /\ gcwaiting
         \/ t \in M /\ GetP(t) /\ pidle = {}
         \/ t \in M /\ GcWait(t) /\ UNCHANGED <<status, stopwait>>
         \/ t \in M /\ ExitSyscallFast(t) /\ UNCHANGED status
            /\ th' = [th EXCEPT ![t].p = NoP, ![t].pc = "exitfast"]
  PROVE  Onward(t)
<1>0. Fits(t) /\ th[t] \in State /\ TypeOK /\ (t \in M => t # Sysmon)
  BY ThreadFacts DEF IInv
<1>t. th \in [Thread -> State]
  BY <1>0 DEF TypeOK
<1>. USE DEF Onward, Stays, Others, SpinStep, Spins, Fits, Shape, EmptyFor, At, Stopper, InSyscall,
             HasP, HasG, InCall, Handing, world, queues
<1>1. CASE HandoffLocked(t) /\ Goto(t, "startm") /\ UNCHANGED <<status, stopwait, pidle>>
  <2>1. /\ Others(t) /\ th'[t].pc = "startm"
        /\ th'[t].spinning = th[t].spinning /\ th'[t].ret = th[t].ret
    BY <1>0, <1>1, GoesTo DEF Labels
  <2>2. th[t].pc = "handoff3" /\ th[t].hand # NoP
    BY <1>0, <1>1 DEF HandoffLocked
  <2>3. UNCHANGED <<procs, gcwaiting, runq, globrunq, midle, nmspinning, polling>>
    BY <1>1 DEF HandoffLocked
  <2>. QED BY <1>0, <1>1, <2>1, <2>2, <2>3 DEF TypeOK
<1>2. CASE t \in M /\ Stop(t) /\ gcwaiting
  <2>0. Goto(t, "find") /\ UNCHANGED <<status, pidle>>
    BY <1>2 DEF Stop
  <2>1. /\ Others(t) /\ th'[t].pc = "find"
        /\ th'[t].spinning = th[t].spinning /\ th'[t].ret = th[t].ret
    BY <1>0, <2>0, GoesTo DEF Labels
  <2>. QED BY <1>0, <1>2, <2>0, <2>1 DEF Stop, TypeOK
<1>3. CASE t \in M /\ GetP(t) /\ pidle = {}
  <2>0. th' = [th EXCEPT ![t] = NothingLeft(@)] /\ UNCHANGED <<status, pidle>>
    BY <1>3 DEF GetP
  <2>1. Others(t) /\ th'[t].pc = "poll" /\ th'[t].spinning = th[t].spinning
          /\ th'[t].ret = th[t].ret
    BY <1>0, <1>t, <2>0, NothingLeftState, BecomesOther
  <2>. QED BY <1>0, <1>3, <2>0, <2>1 DEF GetP, TypeOK
<1>4. CASE t \in M /\ GcWait(t) /\ UNCHANGED <<status, stopwait>>
  <2>1. /\ Others(t) /\ th'[t].pc = "syscall"
        /\ th'[t].spinning = th[t].spinning /\ th'[t].ret = th[t].ret
    BY <1>0, <1>4, GoesTo DEF Labels, GcWait
  <2>. QED BY <1>0, <1>4, <2>1 DEF GcWait, TypeOK
<1>5. CASE t \in M /\ ExitSyscallFast(t) /\ UNCHANGED status
            /\ th' = [th EXCEPT ![t].p = NoP, ![t].pc = "exitfast"]
  <2>1. /\ th' \in [Thread -> State] /\ \A u \in Thread \ {t} : th'[u] = th[u]
        /\ th'[t].p = NoP /\ th'[t].next = th[t].next /\ th'[t].hand = th[t].hand
        /\ th'[t].g = th[t].g /\ th'[t].pc = "exitfast" /\ th'[t].spinning = th[t].spinning
        /\ th'[t].ret = th[t].ret
    <3>1. PICK r : r = [th[t] EXCEPT !.p = NoP, !.pc = "exitfast"]
      OBVIOUS
    <3>2. "exitfast" \in Labels
      BY DEF Labels
    <3>3. /\ r \in State /\ r.p = NoP /\ r.next = th[t].next /\ r.hand = th[t].hand
          /\ r.g = th[t].g /\ r.pc = "exitfast" /\ r.spinning = th[t].spinning /\ r.ret = th[t].ret
      BY <1>0, <3>1, <3>2 DEF State
    <3>4. th' = [th EXCEPT ![t] = r]
      BY <1>5, <3>1, Zenon
    <3>. QED BY <1>t, <3>3, <3>4, BecomesOther
  <2>2. th[t].pc = "syscall" /\ UNCHANGED <<world, runq, globrunq, pidle, midle, nmspinning, polling>>
    BY <1>5 DEF ExitSyscallFast
  <2>. QED BY <1>0, <1>5, <2>1, <2>2 DEF TypeOK
<1>. QED BY <1>1, <1>2, <1>3, <1>4, <1>5
-----------------------------------------------------------------------------
\* The steps that give a P away or take one: thread m and the P p, and the status of p.
Passes(m, p) ==
  /\ th' \in [Thread -> State] /\ \A t \in Thread \ {m} : th'[t] = th[t]
  /\ th'[m].g = th[m].g /\ SpinStep(m) /\ Fits(m)'
  /\ ~Stopper(m) /\ ~Stopper(m)' /\ m \notin midle
  /\ \A q \in P \ {p} : /\ HasIt(m, q)' <=> HasIt(m, q)
                        /\ PassesIt(m, q)' <=> PassesIt(m, q)
                        /\ q \in pidle' <=> q \in pidle
                        /\ status'[q] = status[q]
  /\ \A t \in Thread \ {m} : ~HasIt(t, p) /\ ~PassesIt(t, p)
  /\ status' \in [P -> {"idle", "running", "syscall", "gcstop", "dead"}]
  /\ status'[p] # "dead" /\ pidle' \subseteq procs
  /\ HasIt(m, p)' <=> status'[p] = "running"
  /\ PassesIt(m, p)' <=> status'[p] = "idle" /\ p \notin pidle'
  /\ p \in pidle' => status'[p] = "idle" /\ runq[p] = {} /\ globrunq = {}
  /\ UNCHANGED <<procs, gcwaiting, runq, globrunq, midle, polling>>
  /\ status[p] # "gcstop"
  /\ \/ status'[p] = "gcstop" /\ gcwaiting /\ stopwait' = stopwait - 1
     \/ status'[p] # "gcstop" /\ stopwait' = stopwait

\* Who has a P, has it alone; and an idle one, or one left in a system call, nobody has.
LEMMA Alone ==
  ASSUME IInv, NEW p \in P
  PROVE  /\ \A m \in Thread : HasIt(m, p) \/ PassesIt(m, p) =>
              \A t \in Thread \ {m} : ~HasIt(t, p) /\ ~PassesIt(t, p)
         /\ p \in pidle \/ status[p] = "syscall" =>
              \A t \in Thread : ~HasIt(t, p) /\ ~PassesIt(t, p)
BY DEF IInv, Owners, Idle

\* A step of this form preserves the invariant.
LEMMA PassesKeeps ==
  ASSUME IInv, NEW m \in Thread, NEW p \in procs, Passes(m, p)
  PROVE  IInv'
<1>0. p \in P /\ procs \subseteq P /\ IsFiniteSet(procs)
  BY FiniteAssumption, FS_Subset DEF IInv, TypeOK
<1>1. \A t \in Thread \ {m}, q \in P :
        /\ HasIt(t, q)' <=> HasIt(t, q)
        /\ PassesIt(t, q)' <=> PassesIt(t, q)
  BY DEF Passes, HasIt, PassesIt, InSyscall
<1>2. \A t \in Thread : Stopper(t)' <=> Stopper(t)
  BY DEF Passes, Stopper, At
<1>3. Owners'
  <2>1. \A q \in P \ {p}, t \in Thread :
          /\ HasIt(t, q)' <=> HasIt(t, q)
          /\ PassesIt(t, q)' <=> PassesIt(t, q)
    BY <1>1 DEF Passes
  <2>2. \A t \in Thread \ {m} : ~HasIt(t, p)' /\ ~PassesIt(t, p)'
    BY <1>0, <1>1 DEF Passes
  <2>3. \A q \in P, t, u \in Thread :
          (HasIt(t, q)' \/ PassesIt(t, q)') /\ (HasIt(u, q)' \/ PassesIt(u, q)') => t = u
    BY <2>1, <2>2 DEF IInv, Owners
  <2>4. \A q \in P : status'[q] = "running" => \E t \in Thread : HasIt(t, q)'
    BY <2>1, <2>2 DEF IInv, Owners, Passes
  <2>5. \A q \in P : status'[q] = "idle" => q \in pidle' \/ \E t \in Thread : PassesIt(t, q)'
    BY <2>1, <2>2 DEF IInv, Owners, Passes
  <2>6. \A q \in P, t \in Thread :
          HasIt(t, q)' => status'[q] = IF Stopper(t)' THEN "gcstop" ELSE "running"
    <3>1. ASSUME NEW q \in P \ {p}, NEW t \in Thread, HasIt(t, q)'
          PROVE  status'[q] = IF Stopper(t)' THEN "gcstop" ELSE "running"
      <4>1. HasIt(t, q) /\ status'[q] = status[q]
        BY <2>1, <3>1 DEF Passes
      <4>. QED BY <1>2, <4>1 DEF IInv, Owners
    <3>2. ASSUME NEW t \in Thread, HasIt(t, p)'
          PROVE  status'[p] = IF Stopper(t)' THEN "gcstop" ELSE "running"
      BY <2>2, <3>2 DEF Passes
    <3>. QED BY <3>1, <3>2
  <2>7. \A q \in P, t \in Thread : PassesIt(t, q)' => status'[q] = "idle" /\ q \notin pidle'
    BY <2>1, <2>2 DEF IInv, Owners, Passes
  <2>8. \A q \in P : status'[q] = "dead" <=> q \notin procs'
    BY DEF IInv, Owners, Passes
  <2>. QED BY <2>3, <2>4, <2>5, <2>6, <2>7, <2>8 DEF Owners
<1>4. World'
  <2>. DEFINE S == {q \in procs : status[q] # "gcstop"}
              T == {q \in procs : status'[q] # "gcstop"}
  <2>0. IsFiniteSet(S)
    BY <1>0, FS_Subset
  <2>1. gcwaiting => stopwait' = Cardinality(T)
    <3>1. CASE status'[p] = "gcstop" /\ gcwaiting /\ stopwait' = stopwait - 1
      <4>1. T = S \ {p} /\ p \in S
        BY <1>0, <3>1 DEF Passes
      <4>2. Cardinality(S \ {p}) = Cardinality(S) - 1
        BY <2>0, <4>1, FS_RemoveElement
      <4>. QED BY <3>1, <4>1, <4>2 DEF IInv, World
    <3>2. CASE status'[p] # "gcstop" /\ stopwait' = stopwait
      <4>1. T = S
        BY <1>0, <3>2 DEF Passes
      <4>. QED BY <3>2, <4>1 DEF IInv, World
    <3>. QED BY <3>1, <3>2 DEF Passes
  <2>2. ~gcwaiting => stopwait' = 0 /\ \A q \in P : status'[q] # "gcstop"
    BY DEF IInv, World, Passes
  <2>3. gcwaiting' = gcwaiting /\ procs' = procs
    BY DEF Passes
  <2>. QED BY <1>2, <2>1, <2>2, <2>3 DEF IInv, World
<1>5. stopwait' \in Nat /\ (stopwait # 0 \/ ~gcwaiting)
  <2>. DEFINE S == {q \in procs : status[q] # "gcstop"}
  <2>1. CASE gcwaiting
    <3>1. IsFiniteSet(S) /\ p \in S
      BY <1>0, FS_Subset DEF Passes
    <3>2. Cardinality(S) # 0 /\ Cardinality(S) \in Nat
      BY <3>1, FS_EmptySet, FS_CardinalityType
    <3>3. stopwait = Cardinality(S)
      BY <2>1 DEF IInv, World
    <3>4. stopwait' = stopwait - 1 \/ stopwait' = stopwait
      BY DEF Passes
    <3>5. stopwait \in Nat /\ stopwait # 0
      BY <3>2, <3>3
    <3>6. stopwait' \in Nat
      BY <3>4, <3>5
    <3>. QED BY <3>5, <3>6
  <2>2. CASE ~gcwaiting
    BY <2>2 DEF IInv, World, Passes
  <2>. QED BY <2>1, <2>2
<1>6. Fit'
  <2>1. ASSUME NEW t \in Thread \ {m} PROVE Fits(t)'
    <3>1. Fits(t) /\ th'[t] = th[t] /\ UNCHANGED <<gcwaiting, runq>>
      BY ThreadFacts DEF Passes
    <3>2. ~At(t, "stopped")
      BY <1>5, <3>1 DEF IInv, World, Stopper, Fits
    <3>3. Shape(t)' /\ EmptyFor(t)'
      BY <3>1 DEF Fits, Shape, EmptyFor, At
    <3>. QED BY <3>1, <3>2, <3>3 DEF Fits, At
  <2>. QED BY <2>1 DEF Fit, Passes
<1>7. Idle'
  <2>1. \A q \in pidle' : status'[q] = "idle" /\ runq'[q] = {}
    BY <1>0 DEF IInv, Idle, Passes
  <2>2. \A n \in midle' : Sleeping(n)'
    <3>1. ASSUME NEW n \in midle PROVE Sleeping(n)'
      <4>1. n \in Thread \ {m} /\ Sleeping(n)
        BY DEF IInv, TypeOK, Idle, Passes, Thread
      <4>. QED BY <4>1 DEF Passes, Sleeping, At
    <3>. QED BY <3>1 DEF Passes
  <2>. QED BY <2>1, <2>2 DEF Idle
<1>8. SpinningCounted' /\ nmspinning' \in Nat
  BY SpinStepCounts DEF IInv, Passes
<1>9. TypeOK'
  BY <1>5, <1>8 DEF IInv, TypeOK, Passes
<1>10. Places'
  <2>1. \A t \in Thread : th'[t].g = th[t].g
    BY DEF Passes
  <2>. QED BY <2>1 DEF IInv, Places, Passes
<1>11. Attended'
  BY DEF Attended, Passes
<1>. QED BY <1>3, <1>4, <1>6, <1>7, <1>8, <1>9, <1>10, <1>11 DEF IInv

\* The same, from the invariant.
LEMMA Becomes ==
  ASSUME IInv, NEW m \in Thread, NEW r \in State, th' = [th EXCEPT ![m] = r]
  PROVE  /\ th' \in [Thread -> State] /\ \A t \in Thread \ {m} : th'[t] = th[t]
         /\ th'[m] = r
BY BecomesOther DEF IInv, TypeOK

\* The part of handoffp under sched.lock: the P stops, stays in hand, or becomes idle.
LEMMA HandoffLockedKeeps ==
  ASSUME IInv, NEW t \in Thread, HandoffLocked(t)
  PROVE  IInv'
<1>0. Fits(t) /\ th[t] \in State /\ TypeOK
  BY ThreadFacts DEF IInv
<1>1. /\ th[t].pc = "handoff3" /\ th[t].hand # NoP
      /\ UNCHANGED <<procs, gcwaiting, runq, globrunq, midle, nmspinning, polling>>
  BY <1>0 DEF HandoffLocked, At, queues, Fits, Shape, Handing
<1>2. PICK p : p = th[t].hand
  OBVIOUS
<1>3. p \in P /\ PassesIt(t, p) /\ th[t].p = NoP /\ th[t].next = NoP
  BY <1>0, <1>1, <1>2 DEF State, PassesIt, Fits, Shape
<1>4. p \in procs /\ status[p] = "idle" /\ p \notin pidle
      /\ \A u \in Thread \ {t} : ~HasIt(u, p) /\ ~PassesIt(u, p)
  BY <1>3, Alone DEF IInv, Owners
<1>5. CASE ~gcwaiting /\ Goto(t, "startm") /\ UNCHANGED <<status, stopwait, pidle>>
  BY <1>5, BranchOnward, OnwardKeeps
<1>6. ASSUME Return(t),
             \/ /\ gcwaiting /\ SetStatus(p, "gcstop") /\ stopwait' = stopwait - 1
                /\ UNCHANGED pidle
             \/ /\ ~gcwaiting /\ globrunq = {} /\ pidle' = pidle \cup {p}
                /\ UNCHANGED <<status, stopwait>>
      PROVE  IInv'
  <2>1. PICK r : r = Returned(th[t])
    OBVIOUS
  <2>2. /\ r \in State /\ r.pc = th[t].ret /\ r.p = NoP /\ r.next = NoP /\ r.hand = NoP
        /\ r.g = th[t].g /\ r.spinning = th[t].spinning
        /\ r.ret = IF th[t].ret = "stopm" THEN "find" ELSE "run"
    BY <1>0, <1>3, <2>1, ReturnedState
  <2>3. th' = [th EXCEPT ![t] = r]
    BY <1>6, <2>1 DEF Return
  <2>4. /\ th' \in [Thread -> State] /\ \A u \in Thread \ {t} : th'[u] = th[u]
        /\ th'[t] = r
    BY <2>2, <2>3, Becomes
  <2>5. th[t].ret \in {"syscall", "sysmon"} /\ runq[p] = {} /\ t \notin midle
    BY <1>0, <1>1, <1>2 DEF Fits, Shape, EmptyFor, At, IInv, Idle, Sleeping
  <2>6. Fits(t)' /\ SpinStep(t) /\ ~Stopper(t) /\ ~Stopper(t)' /\ th'[t].g = th[t].g
    BY <1>0, <1>1, <2>2, <2>4, <2>5
       DEF Fits, Shape, EmptyFor, At, HasP, HasG, InCall, Handing, SpinStep, Spins, Stopper
  <2>7. \A q \in P : ~HasIt(t, q) /\ ~HasIt(t, q)' /\ ~PassesIt(t, q)' /\ (PassesIt(t, q) => q = p)
    BY <1>2, <1>3, <2>2, <2>4, NamesAssumption DEF HasIt, PassesIt
  <2>8. /\ status' \in [P -> {"idle", "running", "syscall", "gcstop", "dead"}]
        /\ \A q \in P \ {p} : status'[q] = status[q] /\ (q \in pidle' <=> q \in pidle)
        /\ pidle' \subseteq procs
        /\ \/ status'[p] = "gcstop" /\ gcwaiting /\ stopwait' = stopwait - 1 /\ p \notin pidle'
           \/ status'[p] = "idle" /\ stopwait' = stopwait /\ p \in pidle' /\ globrunq = {}
    BY <1>0, <1>3, <1>4, <1>6 DEF TypeOK, SetStatus
  <2>9. Passes(t, p)
    BY <1>1, <1>3, <1>4, <2>4, <2>5, <2>6, <2>7, <2>8 DEF Passes
  <2>. QED BY <1>4, <2>9, PassesKeeps
<1>. QED BY <1>2, <1>5, <1>6 DEF HandoffLocked

\* What acquirep changes.
LEMMA AcquirepState ==
  ASSUME TypeOK, NEW m \in Thread, NEW p \in P, NEW l \in Labels, Acquirep(m, p, l)
  PROVE  /\ th' \in [Thread -> State] /\ \A t \in Thread \ {m} : th'[t] = th[t]
         /\ th'[m].p = p /\ th'[m].next = NoP /\ th'[m].hand = th[m].hand
         /\ th'[m].g = th[m].g /\ th'[m].pc = l /\ th'[m].spinning = th[m].spinning
         /\ th'[m].ret = "run"
         /\ status' = [status EXCEPT ![p] = "running"]
<1>1. PICK r : r = [th[m] EXCEPT !.p = p, !.next = NoP, !.pc = l, !.ret = "run", !.left = {}]
  OBVIOUS
<1>2. "run" \in Labels /\ th[m] \in State /\ th \in [Thread -> State]
  BY DEF Labels, TypeOK
<1>3. /\ r \in State /\ r.p = p /\ r.next = NoP /\ r.hand = th[m].hand
      /\ r.g = th[m].g /\ r.pc = l /\ r.spinning = th[m].spinning /\ r.ret = "run"
  BY <1>1, <1>2 DEF State
<1>4. th' = [th EXCEPT ![m] = r]
  BY <1>1, Zenon DEF Acquirep
<1>. QED BY <1>2, <1>3, <1>4, BecomesOther DEF Acquirep, SetStatus

\* A thread that had none takes an idle P, or the one it was given.
LEMMA AcquiresP ==
  ASSUME IInv, NEW m \in M, NEW p \in P, NEW l \in HasP, Acquirep(m, p, l), Fits(m)',
         th[m].p = NoP, th[m].hand = NoP, ~Stopper(m), ~Sleeping(m), l \notin {"stopping", "stopped"},
         \/ th[m].next = NoP /\ p \in pidle /\ pidle' = pidle \ {p}
         \/ th[m].next = p /\ pidle' = pidle,
         Spins(m)' <=> Spins(m),
         UNCHANGED <<world, runq, globrunq, midle, nmspinning, polling>>
  PROVE  IInv'
<1>0. m \in Thread /\ Fits(m) /\ th[m] \in State /\ TypeOK /\ NoP \notin P
  BY ThreadFacts, NamesAssumption DEF IInv
<1>1. /\ th' \in [Thread -> State] /\ \A t \in Thread \ {m} : th'[t] = th[t]
      /\ th'[m].p = p /\ th'[m].next = NoP /\ th'[m].hand = NoP
      /\ th'[m].g = th[m].g /\ th'[m].pc = l /\ th'[m].spinning = th[m].spinning
      /\ th'[m].ret = "run"
      /\ status' = [status EXCEPT ![p] = "running"]
  <2>1. l \in Labels
    BY DEF HasP, Labels
  <2>. QED BY <1>0, <2>1, AcquirepState
<1>2. /\ \A q \in P : ~HasIt(m, q) /\ ~PassesIt(m, q)' /\ (PassesIt(m, q) => q = p)
      /\ \A q \in P : HasIt(m, q)' <=> q = p
  BY <1>0, <1>1 DEF HasIt, PassesIt, InSyscall, HasP
<1>3. \A t \in Thread \ {m} : ~HasIt(t, p) /\ ~PassesIt(t, p)
  <2>1. CASE p \in pidle
    BY <2>1, Alone
  <2>2. CASE th[m].next = p
    BY <1>0, <2>2, Alone DEF PassesIt
  <2>. QED BY <2>1, <2>2
<1>4. p \in procs /\ status[p] = "idle" /\ pidle' \subseteq procs
  <2>1. CASE p \in pidle
    BY <1>0, <2>1 DEF IInv, Idle, TypeOK
  <2>2. CASE th[m].next = p
    BY <1>0, <2>2 DEF IInv, Owners, PassesIt, TypeOK
  <2>. QED BY <1>0, <2>1, <2>2 DEF TypeOK
<1>5. m \notin midle
  BY DEF IInv, Idle
<1>6. /\ status' \in [P -> {"idle", "running", "syscall", "gcstop", "dead"}]
      /\ \A q \in P \ {p} : status'[q] = status[q] /\ (q \in pidle' <=> q \in pidle)
      /\ status'[p] = "running" /\ p \notin pidle'
  BY <1>0, <1>1, <1>2, <1>3, <1>4 DEF TypeOK, IInv, Owners, PassesIt
<1>7. ~Stopper(m)' /\ SpinStep(m)
  BY <1>1 DEF Stopper, At, SpinStep
<1>8. Passes(m, p)
  BY <1>0, <1>1, <1>2, <1>3, <1>4, <1>5, <1>6, <1>7 DEF Passes, world
<1>. QED BY <1>0, <1>4, <1>8, PassesKeeps

\* A thread that was woken takes the P it was given.
LEMMA UnparkKeeps ==
  ASSUME IInv, NEW m \in M, Unpark(m)
  PROVE  IInv'
<1>0. m \in Thread /\ m # Sysmon /\ Fits(m) /\ th[m] \in State /\ TypeOK /\ NoP \notin P
  BY ThreadFacts, NamesAssumption DEF IInv
<1>1. /\ th[m].pc = "parked" /\ th[m].next # NoP /\ Acquirep(m, th[m].next, th[m].ret)
      /\ UNCHANGED <<world, runq, globrunq, pidle, midle, nmspinning, polling>>
  BY DEF Unpark, At, queues
<1>2. PICK p \in P, l \in {"schedule", "find"} : p = th[m].next /\ l = th[m].ret
  BY <1>0, <1>1 DEF State, Fits, Shape
<1>3. l \in Labels /\ l \in HasP /\ l \notin {"stopping", "stopped"}
  BY DEF Labels, HasP
<1>4. th[m].p = NoP /\ th[m].hand = NoP /\ ~Stopper(m) /\ ~Sleeping(m)
  BY <1>0, <1>1 DEF Fits, Shape, Stopper, At, Sleeping
<1>5. /\ th'[m].p = p /\ th'[m].next = NoP /\ th'[m].hand = NoP
      /\ th'[m].g = th[m].g /\ th'[m].pc = l /\ th'[m].spinning = th[m].spinning
      /\ th'[m].ret = "run"
  BY <1>0, <1>1, <1>2, <1>3, <1>4, AcquirepState
<1>6. Fits(m)' /\ (Spins(m)' <=> Spins(m))
  BY <1>0, <1>1, <1>2, <1>5
     DEF Fits, Shape, EmptyFor, At, HasP, HasG, InCall, Handing, Spins
<1>. QED BY <1>1, <1>2, <1>3, <1>4, <1>6, AcquiresP

\* The three places where a thread takes an idle P for itself.
LEMMA FindsIdleP ==
  ASSUME IInv, NEW m \in M,
         (GetP(m) /\ pidle # {}) \/ (Polled(m) /\ pidle # {}) \/ ExitSyscallIdle(m)
  PROVE  IInv'
<1>0. m \in Thread /\ m # Sysmon /\ Fits(m) /\ th[m] \in State /\ TypeOK /\ NoP \notin P
  BY ThreadFacts, NamesAssumption DEF IInv
<1>1. PICK p \in pidle, l \in {"respin", "find", "got", "run"} :
        /\ pidle' = pidle \ {p} /\ Acquirep(m, p, l)
        /\ \/ th[m].pc = "getp" /\ l \in {"respin", "find"}
           \/ th[m].pc = "polled" /\ l = "got"
           \/ th[m].pc \in {"exitfast", "exitsyscall"} /\ l = "run"
        /\ UNCHANGED <<world, runq, globrunq, midle, nmspinning, polling>>
  <2>1. CASE GetP(m) /\ pidle # {}
    <3>1. CASE th[m].was
      BY <2>1, <3>1 DEF GetP, At, queues
    <3>2. CASE ~th[m].was
      BY <2>1, <3>2 DEF GetP, At, queues
    <3>. QED BY <3>1, <3>2
  <2>2. CASE Polled(m) /\ pidle # {}
    BY <2>2 DEF Polled, At, queues
  <2>3. CASE ExitSyscallIdle(m)
    BY <2>3 DEF ExitSyscallIdle, At, queues
  <2>. QED BY <2>1, <2>2, <2>3
<1>2. p \in P /\ l \in Labels /\ l \in HasP /\ l \notin {"stopping", "stopped"}
  BY <1>0, <1>1 DEF Labels, HasP, TypeOK
<1>4. th[m].p = NoP /\ th[m].hand = NoP /\ th[m].next = NoP /\ ~Stopper(m) /\ ~Sleeping(m)
  BY <1>0, <1>1 DEF Fits, Shape, Stopper, At, Sleeping, HasP, Handing
<1>5. /\ th'[m].p = p /\ th'[m].next = NoP /\ th'[m].hand = NoP
      /\ th'[m].g = th[m].g /\ th'[m].pc = l /\ th'[m].spinning = th[m].spinning
      /\ th'[m].ret = "run"
  BY <1>0, <1>1, <1>2, <1>4, AcquirepState
<1>7. p # NoP
  BY <1>0, <1>2
<1>6. Fits(m)' /\ (Spins(m)' <=> Spins(m))
  BY <1>0, <1>1, <1>4, <1>5, <1>7
     DEF Fits, Shape, EmptyFor, At, HasP, HasG, InCall, Handing, Spins
<1>. QED BY <1>1, <1>2, <1>4, <1>6, AcquiresP

\* What becomes of a P that its thread had, m going on in state r.
LEMMA LeavesP ==
  ASSUME IInv, NEW m \in Thread, th[m].pc \in HasP, ~Stopper(m), NEW r \in State,
         th' = [th EXCEPT ![m] = r], r.g = th[m].g, r.next = NoP, r.hand \in {NoP, th[m].p},
         r.pc \notin {"stopping", "stopped"},
         r.p = NoP \/ r.pc \in {"entersyscall", "gcwait", "syscall"},
         Fits(m)', SpinStep(m), NEW s \in {"idle", "syscall", "gcstop"},
         status' = [status EXCEPT ![th[m].p] = s],
         pidle' = IF s = "idle" /\ r.hand = NoP THEN pidle \cup {th[m].p} ELSE pidle,
         r.hand = NoP \/ s = "idle",
         s = "idle" /\ r.hand = NoP => runq[th[m].p] = {} /\ globrunq = {},
         \/ s = "gcstop" /\ gcwaiting /\ stopwait' = stopwait - 1
         \/ s # "gcstop" /\ stopwait' = stopwait,
         UNCHANGED <<procs, gcwaiting, runq, globrunq, midle, polling>>
  PROVE  IInv'
<1>0. Fits(m) /\ th[m] \in State /\ TypeOK /\ NoP \notin P
  BY ThreadFacts, NamesAssumption DEF IInv
<1>1. PICK p : p = th[m].p
  OBVIOUS
<1>2. /\ p \in procs /\ p \in P /\ p \notin pidle /\ HasIt(m, p) /\ status[p] = "running"
      /\ th[m].next = NoP /\ th[m].hand = NoP
  BY <1>1, BusyP
<1>3. /\ th' \in [Thread -> State] /\ \A t \in Thread \ {m} : th'[t] = th[t]
      /\ th'[m] = r
  BY Becomes
<1>4. \A t \in Thread \ {m} : ~HasIt(t, p) /\ ~PassesIt(t, p)
  BY <1>2, Alone
<1>5. /\ \A q \in P : ~PassesIt(m, q) /\ (HasIt(m, q) => q = p)
      /\ \A q \in P : ~HasIt(m, q)' /\ (PassesIt(m, q)' <=> q = p /\ r.hand = p)
  BY <1>0, <1>1, <1>2, <1>3 DEF HasIt, PassesIt, InSyscall
<1>6. /\ status' \in [P -> {"idle", "running", "syscall", "gcstop", "dead"}]
      /\ \A q \in P \ {p} : status'[q] = status[q] /\ (q \in pidle' <=> q \in pidle)
      /\ status'[p] = s /\ pidle' \subseteq procs /\ (p \in pidle' <=> s = "idle" /\ r.hand = NoP)
  BY <1>0, <1>1, <1>2 DEF TypeOK
<1>7. ~Stopper(m)' /\ m \notin midle
  BY <1>3 DEF Stopper, At, IInv, Idle, Sleeping, HasP
<1>8. p # NoP
  BY <1>0, <1>2
<1>9. Passes(m, p)
  BY <1>1, <1>2, <1>3, <1>4, <1>5, <1>6, <1>7, <1>8 DEF Passes
<1>. QED BY <1>2, <1>9, PassesKeeps

\* The four places where a thread leaves its P: to the collector, as idle, and in a system call.
LEMMA LeavesKeep ==
  ASSUME IInv, NEW m \in M,
         Gcstopm(m) \/ (Stop(m) /\ ~gcwaiting) \/ EnterSyscall(m) \/ EnterSyscallBlock(m)
  PROVE  IInv'
<1>0. m \in Thread /\ m # Sysmon /\ Fits(m) /\ th[m] \in State /\ TypeOK /\ NoP \notin P
  BY ThreadFacts, NamesAssumption DEF IInv
<1>1. th[m].pc \in {"gcstop", "stop", "run"}
  BY DEF Gcstopm, Stop, EnterSyscall, EnterSyscallBlock, At
<1>2. /\ th[m].p \in P /\ th[m].p \in procs \ pidle /\ th[m].next = NoP /\ th[m].hand = NoP
      /\ th[m].p # NoP
  BY <1>0, <1>1, BusyP DEF HasP
<1>3. th[m].pc \in HasP /\ ~Stopper(m)
  BY <1>1 DEF HasP, Stopper, At
<1>4. /\ runq' = runq /\ globrunq' = globrunq /\ midle' = midle /\ polling' = polling
      /\ nmspinning' = nmspinning /\ procs' = procs /\ gcwaiting' = gcwaiting
  BY DEF Gcstopm, Stop, EnterSyscall, EnterSyscallBlock, queues, world
<1>5. CASE Gcstopm(m)
  <2>1. /\ th[m].pc = "gcstop" /\ status' = [status EXCEPT ![th[m].p] = "gcstop"]
        /\ stopwait' = stopwait - 1 /\ pidle' = pidle
    BY <1>5 DEF Gcstopm, SetStatus, At
  <2>2. PICK r : r = [th[m] EXCEPT !.p = NoP, !.pc = "stopm"]
    OBVIOUS
  <2>3. "stopm" \in Labels
    BY DEF Labels
  <2>4. /\ r \in State /\ r.p = NoP /\ r.next = NoP /\ r.hand = NoP
        /\ r.g = th[m].g /\ r.pc = "stopm" /\ r.spinning = th[m].spinning /\ r.ret = th[m].ret
    BY <1>0, <1>2, <2>2, <2>3 DEF State
  <2>5. th' = [th EXCEPT ![m] = r]
    BY <1>5, <2>2, Zenon DEF Gcstopm
  <2>6. gcwaiting /\ th'[m] = r /\ \A t \in Thread \ {m} : th'[t] = th[t]
    BY <1>0, <2>1, <2>4, <2>5, Becomes DEF Fits, At
  <2>7. Fits(m)' /\ SpinStep(m)
    BY <1>0, <1>4, <2>1, <2>4, <2>6
       DEF Fits, Shape, EmptyFor, At, HasP, HasG, InCall, Handing, SpinStep, Spins
  <2>. QED BY <1>0, <1>3, <1>4, <2>1, <2>4, <2>5, <2>6, <2>7, LeavesP
<1>6. CASE Stop(m) /\ ~gcwaiting
  <2>1. /\ th[m].pc = "stop" /\ status' = [status EXCEPT ![th[m].p] = "idle"]
        /\ stopwait' = stopwait /\ pidle' = pidle \cup {th[m].p} /\ globrunq = {}
    BY <1>6 DEF Stop, SetStatus, At, world
  <2>2. PICK l : l = IF th[m].spinning THEN "drop" ELSE "recheck"
    OBVIOUS
  <2>3. PICK r : r = [th[m] EXCEPT !.p = NoP, !.was = th[m].spinning, !.left = P, !.pc = l]
    OBVIOUS
  <2>4. l \in Labels /\ l \in {"drop", "recheck"} /\ (l = "drop" <=> th[m].spinning)
    BY <2>2 DEF Labels
  <2>5. P \in SUBSET P /\ th[m].spinning \in BOOLEAN
    BY <1>0 DEF State
  <2>6. /\ r \in State /\ r.p = NoP /\ r.next = NoP /\ r.hand = NoP
        /\ r.g = th[m].g /\ r.pc = l /\ r.spinning = th[m].spinning /\ r.ret = th[m].ret
    BY <1>0, <1>2, <2>3, <2>4, <2>5 DEF State
  <2>7. th' = [th EXCEPT ![m] = r]
    BY <1>6, <2>2, <2>3, Zenon DEF Stop
  <2>8. th'[m] = r /\ \A t \in Thread \ {m} : th'[t] = th[t]
    BY <1>0, <2>6, <2>7, Becomes
  <2>9. Fits(m)' /\ SpinStep(m)
    BY <1>0, <1>4, <2>1, <2>4, <2>6, <2>8
       DEF Fits, Shape, EmptyFor, At, HasP, HasG, InCall, Handing, SpinStep, Spins
  <2>10. runq[th[m].p] = {}
    BY <1>0, <2>1 DEF Fits, EmptyFor
  <2>. QED BY <1>0, <1>3, <1>4, <2>1, <2>4, <2>6, <2>7, <2>9, <2>10, LeavesP
<1>7. CASE EnterSyscall(m)
  <2>1. /\ th[m].pc = "run" /\ status' = [status EXCEPT ![th[m].p] = "syscall"]
        /\ stopwait' = stopwait /\ pidle' = pidle
    BY <1>7 DEF EnterSyscall, SetStatus, At, world
  <2>2. PICK r : r = [th[m] EXCEPT !.pc = "entersyscall"]
    OBVIOUS
  <2>3. "entersyscall" \in Labels
    BY DEF Labels
  <2>4. /\ r \in State /\ r.p = th[m].p /\ r.next = NoP /\ r.hand = NoP
        /\ r.g = th[m].g /\ r.pc = "entersyscall" /\ r.spinning = th[m].spinning
        /\ r.ret = th[m].ret
    BY <1>0, <1>2, <2>2, <2>3 DEF State
  <2>5. th' = [th EXCEPT ![m] = r]
    BY <1>7, <2>2, Zenon DEF EnterSyscall, Goto
  <2>6. th'[m] = r /\ \A t \in Thread \ {m} : th'[t] = th[t]
    BY <1>0, <2>4, <2>5, Becomes
  <2>7. Fits(m)' /\ SpinStep(m)
    BY <1>0, <1>2, <1>4, <2>1, <2>4, <2>6
       DEF Fits, Shape, EmptyFor, At, HasP, HasG, InCall, Handing, SpinStep, Spins
  <2>. QED BY <1>0, <1>3, <1>4, <2>1, <2>4, <2>5, <2>7, LeavesP
<1>8. CASE EnterSyscallBlock(m)
  <2>1. /\ th[m].pc = "run" /\ status' = [status EXCEPT ![th[m].p] = "idle"]
        /\ stopwait' = stopwait /\ pidle' = pidle
    BY <1>8 DEF EnterSyscallBlock, SetStatus, At, world
  <2>2. PICK r : r = [th[m] EXCEPT !.p = NoP, !.hand = th[m].p, !.pc = "handoff", !.ret = "syscall"]
    OBVIOUS
  <2>3. {"handoff", "syscall"} \subseteq Labels
    BY DEF Labels
  <2>4. /\ r \in State /\ r.p = NoP /\ r.next = NoP /\ r.hand = th[m].p
        /\ r.g = th[m].g /\ r.pc = "handoff" /\ r.spinning = th[m].spinning
        /\ r.ret = "syscall"
    BY <1>0, <1>2, <2>2, <2>3 DEF State
  <2>5. th' = [th EXCEPT ![m] = r]
    BY <1>8, <2>2, Zenon DEF EnterSyscallBlock
  <2>6. th'[m] = r /\ \A t \in Thread \ {m} : th'[t] = th[t]
    BY <1>0, <2>4, <2>5, Becomes
  <2>7. Fits(m)' /\ SpinStep(m)
    BY <1>0, <1>2, <1>4, <2>1, <2>4, <2>6
       DEF Fits, Shape, EmptyFor, At, HasP, HasG, InCall, Handing, SpinStep, Spins
  <2>. QED BY <1>0, <1>2, <1>3, <1>4, <2>1, <2>4, <2>5, <2>7, LeavesP
<1>. QED BY <1>5, <1>6, <1>7, <1>8

\* A P in a system call is stopped by its thread, or taken back by it.
LEMMA SyscallKeeps ==
  ASSUME IInv, NEW m \in M,
         \/ GcWait(m) /\ stopwait > 0 /\ status[th[m].p] = "syscall"
         \/ ExitSyscallFast(m) /\ th[m].p # NoP /\ status[th[m].p] = "syscall" /\ Goto(m, "run")
            /\ SetStatus(th[m].p, "running")
  PROVE  IInv'
<1>0. m \in Thread /\ m # Sysmon /\ Fits(m) /\ th[m] \in State /\ TypeOK /\ NoP \notin P
  BY ThreadFacts, NamesAssumption DEF IInv
<1>1. PICK p, l, s :
        /\ p = th[m].p /\ status[p] = "syscall" /\ Goto(m, l)
        /\ status' = [status EXCEPT ![p] = s]
        /\ \/ /\ th[m].pc = "gcwait" /\ l = "syscall" /\ s = "gcstop"
              /\ stopwait > 0 /\ stopwait' = stopwait - 1
           \/ th[m].pc = "syscall" /\ l = "run" /\ s = "running" /\ stopwait' = stopwait
        /\ th[m].p # NoP
        /\ UNCHANGED <<procs, gcwaiting, runq, globrunq, pidle, midle, nmspinning, polling>>
  <2>1. CASE GcWait(m) /\ stopwait > 0 /\ status[th[m].p] = "syscall"
    <3>1. th[m].pc = "gcwait" /\ th[m].p # NoP
      BY <1>0, <2>1 DEF GcWait, At, Fits, Shape
    <3>2. PICK p, l, s : p = th[m].p /\ l = "syscall" /\ s = "gcstop"
      OBVIOUS
    <3>. QED BY <2>1, <3>1, <3>2 DEF GcWait, SetStatus, queues
  <2>2. CASE ExitSyscallFast(m) /\ th[m].p # NoP /\ status[th[m].p] = "syscall" /\ Goto(m, "run")
             /\ SetStatus(th[m].p, "running")
    <3>2. PICK p, l, s : p = th[m].p /\ l = "run" /\ s = "running"
      OBVIOUS
    <3>. QED BY <2>2, <3>2 DEF ExitSyscallFast, SetStatus, queues, world, At
  <2>. QED BY <2>1, <2>2
<1>2. p \in P /\ p # NoP
  BY <1>0, <1>1 DEF State
<1>3. p \in procs /\ p \notin pidle /\ \A t \in Thread : ~HasIt(t, p) /\ ~PassesIt(t, p)
  BY <1>1, <1>2, Alone DEF IInv, Owners, Idle
<1>4. l \in Labels
  BY <1>1 DEF Labels
<1>5. /\ Others(m) /\ th'[m].pc = l
      /\ th'[m].spinning = th[m].spinning /\ th'[m].ret = th[m].ret
  BY <1>0, <1>1, <1>4, GoesTo
<1>6. Fits(m)' /\ SpinStep(m) /\ ~Stopper(m) /\ ~Stopper(m)' /\ m \notin midle
  BY <1>0, <1>1, <1>2, <1>5
     DEF Fits, Shape, EmptyFor, At, HasP, HasG, InCall, Handing, SpinStep, Spins, Stopper, Others,
         IInv, Idle, Sleeping
<1>7. /\ status' \in [P -> {"idle", "running", "syscall", "gcstop", "dead"}]
      /\ \A q \in P \ {p} : status'[q] = status[q]
      /\ status'[p] = s
  BY <1>0, <1>1, <1>2 DEF TypeOK
<1>8. /\ \A q \in P : ~HasIt(m, q) /\ (PassesIt(m, q)' <=> PassesIt(m, q))
      /\ \A q \in P : HasIt(m, q)' <=> q = p /\ s = "running"
  BY <1>1, <1>2, <1>5 DEF HasIt, PassesIt, InSyscall, Others
<1>9. s = "gcstop" => gcwaiting
  BY <1>0, <1>1 DEF IInv, World, TypeOK
<1>10. pidle \subseteq procs
  BY <1>0 DEF TypeOK
<1>11. UNCHANGED <<procs, gcwaiting, runq, globrunq, pidle, midle, polling>>
  BY <1>1
<1>12. \/ s = "gcstop" /\ gcwaiting /\ stopwait' = stopwait - 1
       \/ s = "running" /\ stopwait' = stopwait
  BY <1>1, <1>9
<1>13. Passes(m, p)
  <2>1. HasIt(m, p)' <=> status'[p] = "running"
    BY <1>2, <1>7, <1>8
  <2>2. PassesIt(m, p)' <=> status'[p] = "idle" /\ p \notin pidle'
    BY <1>0, <1>2, <1>3, <1>7, <1>8, <1>12
  <2>3. status'[p] \in {"gcstop", "running"} /\ status[p] = "syscall"
    BY <1>1, <1>7
  <2>4. \/ status'[p] = "gcstop" /\ gcwaiting /\ stopwait' = stopwait - 1
        \/ status'[p] # "gcstop" /\ stopwait' = stopwait
    BY <1>7, <1>12
  <2>5. \A q \in P \ {p} : /\ HasIt(m, q)' <=> HasIt(m, q)
                           /\ PassesIt(m, q)' <=> PassesIt(m, q)
    BY <1>8
  <2>. QED BY <1>3, <1>5, <1>6, <1>7, <1>10, <1>11, <2>1, <2>2, <2>3, <2>4, <2>5 DEF Passes, Others
<1>. QED BY <1>0, <1>3, <1>13, PassesKeeps

\* sysmon takes a P from a system call.
LEMMA RetakeKeeps ==
  ASSUME IInv, Retake
  PROVE  IInv'
<1>. DEFINE m == Sysmon
<1>0. m \in Thread /\ Fits(m) /\ th[m] \in State /\ TypeOK /\ NoP \notin P
  BY ThreadFacts, NamesAssumption DEF IInv
<1>1. PICK p \in procs :
        /\ status[p] = "syscall" /\ SetStatus(p, "idle")
        /\ th' = [th EXCEPT ![Sysmon].pc = "handoff", ![Sysmon].hand = p, ![Sysmon].ret = "sysmon"]
  BY DEF Retake
<1>2. /\ th[m].pc = "sysmon"
      /\ UNCHANGED <<world, runq, globrunq, pidle, midle, nmspinning, polling>>
  BY DEF Retake, At, queues
<1>3. p \in P /\ p # NoP /\ p \notin pidle /\ \A t \in Thread : ~HasIt(t, p) /\ ~PassesIt(t, p)
  BY <1>0, <1>1, Alone DEF IInv, TypeOK, Owners, Idle
<1>4. th[m].p = NoP /\ th[m].next = NoP /\ th[m].hand = NoP
  BY <1>0, <1>2 DEF Fits, Shape, HasP, Handing
<1>5. PICK r : r = [th[m] EXCEPT !.pc = "handoff", !.hand = p, !.ret = "sysmon"]
  OBVIOUS
<1>6. {"handoff", "sysmon"} \subseteq Labels
  BY DEF Labels
<1>7. /\ r \in State /\ r.p = NoP /\ r.next = NoP /\ r.hand = p
      /\ r.g = th[m].g /\ r.pc = "handoff" /\ r.spinning = th[m].spinning /\ r.ret = "sysmon"
  BY <1>0, <1>3, <1>4, <1>5, <1>6 DEF State
<1>8. th' = [th EXCEPT ![m] = r]
  BY <1>1, <1>5, Zenon
<1>9. /\ th' \in [Thread -> State] /\ \A t \in Thread \ {m} : th'[t] = th[t]
      /\ th'[m] = r
  BY <1>0, <1>7, <1>8, Becomes
<1>10. Fits(m)' /\ SpinStep(m) /\ ~Stopper(m) /\ ~Stopper(m)' /\ m \notin midle
  BY <1>0, <1>2, <1>3, <1>7, <1>9
     DEF Fits, Shape, EmptyFor, At, HasP, HasG, InCall, Handing, SpinStep, Spins, Stopper,
         IInv, Idle, Sleeping
<1>11. /\ status' \in [P -> {"idle", "running", "syscall", "gcstop", "dead"}]
       /\ \A q \in P \ {p} : status'[q] = status[q]
       /\ status'[p] = "idle"
  BY <1>0, <1>1, <1>3 DEF TypeOK, SetStatus
<1>12. \A q \in P : ~HasIt(m, q) /\ ~HasIt(m, q)' /\ ~PassesIt(m, q) /\ (PassesIt(m, q)' <=> q = p)
  BY <1>0, <1>3, <1>4, <1>7, <1>9 DEF HasIt, PassesIt
<1>13. pidle \subseteq procs
  BY <1>0 DEF TypeOK
<1>14. Passes(m, p)
  BY <1>1, <1>2, <1>3, <1>7, <1>9, <1>10, <1>11, <1>12, <1>13 DEF Passes, world
<1>. QED BY <1>0, <1>14, PassesKeeps

\* A thread without a P goes to sleep.
LEMMA StopmKeeps ==
  ASSUME IInv, NEW m \in M, Stopm(m)
  PROVE  IInv'
<1>0. m \in Thread /\ m # Sysmon /\ Fits(m) /\ th[m] \in State /\ TypeOK /\ NoP \notin P
  BY ThreadFacts, NamesAssumption DEF IInv
<1>1. /\ th[m].pc = "stopm" /\ Goto(m, "parked") /\ midle' = midle \cup {m}
      /\ UNCHANGED <<world, status, runq, globrunq, pidle, nmspinning, polling>>
  BY DEF Stopm, At, queues
<1>2. /\ Others(m) /\ th'[m].pc = "parked"
      /\ th'[m].spinning = th[m].spinning /\ th'[m].ret = th[m].ret
  BY <1>0, <1>1, GoesTo DEF Labels
<1>3. th[m].p = NoP /\ th[m].next = NoP /\ th[m].hand = NoP /\ ~th[m].spinning
  BY <1>0, <1>1 DEF Fits, Shape, HasP, Handing, State
<1>4. \A t \in Thread, p \in P : /\ HasIt(t, p)' <=> HasIt(t, p)
                                 /\ PassesIt(t, p)' <=> PassesIt(t, p)
  BY <1>0, <1>2, <1>3 DEF Others, HasIt, PassesIt, InSyscall
<1>5. \A t \in Thread : Stopper(t)' <=> Stopper(t)
  BY <1>1, <1>2 DEF Others, Stopper, At
<1>6. UNCHANGED <<procs, gcwaiting, stopwait, status, runq, globrunq, pidle>>
  BY <1>1 DEF world
<1>7. Owners'
  BY <1>4, <1>5, <1>6 DEF IInv, Owners
<1>8. World'
  BY <1>5, <1>6 DEF IInv, World
<1>9. Fit'
  <2>1. Fits(m)'
    BY <1>0, <1>1, <1>2, <1>3 DEF Others, Fits, Shape, EmptyFor, At, HasP, HasG, InCall, Handing
  <2>2. ASSUME NEW t \in Thread \ {m} PROVE Fits(t)'
    <3>1. Fits(t) /\ th'[t] = th[t]
      BY <1>2, ThreadFacts DEF Others
    <3>. QED BY <1>6, <3>1 DEF Fits, Shape, EmptyFor, At
  <2>. QED BY <2>1, <2>2 DEF Fit
<1>10. Idle'
  <2>1. \A n \in midle' : Sleeping(n)'
    <3>1. Sleeping(m)'
      BY <1>2, <1>3 DEF Sleeping, At, Others
    <3>2. ASSUME NEW n \in midle \ {m} PROVE Sleeping(n)'
      <4>1. Sleeping(n) /\ n \in Thread \ {m}
        BY <1>0 DEF IInv, Idle, TypeOK, Thread
      <4>. QED BY <1>2, <4>1 DEF Sleeping, At, Others
    <3>. QED BY <1>1, <3>1, <3>2
  <2>. QED BY <1>6, <2>1 DEF IInv, Idle
<1>11. SpinningCounted' /\ nmspinning' \in Nat
  <2>1. SpinStep(m)
    BY <1>1, <1>2 DEF SpinStep, Spins, At
  <2>. QED BY <1>0, <1>2, <2>1, SpinStepCounts DEF IInv, Others
<1>12. TypeOK'
  BY <1>0, <1>1, <1>2, <1>11 DEF TypeOK, world, Others
<1>13. Places'
  <2>1. \A t \in Thread : th'[t].g = th[t].g
    BY <1>2 DEF Others
  <2>. QED BY <1>6, <2>1 DEF IInv, Places
<1>14. Attended'
  BY <1>1, <1>2, <1>6 DEF IInv, Attended, Others, At
<1>. QED BY <1>7, <1>8, <1>9, <1>10, <1>11, <1>12, <1>13, <1>14 DEF IInv

\* The spinning that t began for another thread passes to that thread.
LEMMA SpinningPassed ==
  ASSUME SpinningCounted, nmspinning' = nmspinning, NEW t \in Thread, NEW n \in Thread, t # n,
         Spins(t), ~Spins(t)', ~Spins(n), Spins(n)',
         \A u \in Thread \ {t, n} : Spins(u)' <=> Spins(u)
  PROVE  SpinningCounted'
<1>. DEFINE S == {u \in Thread : Spins(u)}  T == {u \in Thread : Spins(u)'}
<1>1. T = (S \ {t}) \cup {n} /\ t \in S /\ n \notin S
  OBVIOUS
<1>2. IsFiniteSet(S)
  BY ThreadFinite, FS_Subset
<1>. HIDE DEF S, T
<1>3. Cardinality(S \ {t}) = Cardinality(S) - 1 /\ IsFiniteSet(S \ {t})
  BY <1>1, <1>2, FS_RemoveElement
<1>4. Cardinality(T) = Cardinality(S \ {t}) + 1
  BY <1>1, <1>3, FS_AddElement
<1>5. Cardinality(S) \in Nat
  BY <1>2, FS_CardinalityType
<1>6. Cardinality(T) = Cardinality(S)
  BY <1>3, <1>4, <1>5
<1>. QED BY <1>6 DEF SpinningCounted, Spins, S, T

\* startm with a P: a thread is woken with it, or there is none and the P becomes idle again.
LEMMA StartmKeeps ==
  ASSUME IInv, NEW t \in Thread, Startm(t)
  PROVE  IInv'
<1>0. Fits(t) /\ th[t] \in State /\ TypeOK /\ NoP \notin P /\ th \in [Thread -> State]
  BY ThreadFacts, NamesAssumption DEF IInv, TypeOK
<1>1. PICK p, n :
        /\ p \in IF th[t].hand = NoP THEN pidle ELSE {th[t].hand}
        /\ n \in Startable
        /\ pidle' = pidle \ {p} /\ midle' = midle \ {n}
        /\ th' = [th EXCEPT ![t] = Returned(@), ![n] = Told(n, p, At(t, "startspin"))]
  BY DEF Startm
<1>2. /\ th[t].pc \in {"startm", "startspin"}
      /\ UNCHANGED <<procs, gcwaiting, stopwait, status, runq, globrunq, nmspinning, polling>>
  BY DEF Startm, At, world, queues
<1>3. /\ n \in M /\ n \in Thread /\ n # Sysmon /\ Fits(n) /\ th[n] \in State
      /\ th[n].pc \in {"parked", "unborn"} /\ th[n].next = NoP
  <2>1. n \in M /\ (Sleeping(n) \/ At(n, "unborn"))
    BY <1>0, <1>1 DEF IInv, Idle, Startable, TypeOK
  <2>2. n \in Thread /\ n # Sysmon /\ Fits(n) /\ th[n] \in State
    BY <2>1, ThreadFacts
  <2>3. th[n].pc \in {"parked", "unborn"}
    BY <2>1 DEF Sleeping, At
  <2>4. th[n].next = NoP
    BY <2>1, <2>2 DEF Sleeping, At, Fits, Shape
  <2>. QED BY <2>1, <2>2, <2>3, <2>4
<1>4. n # t /\ th[n].p = NoP /\ th[n].hand = NoP /\ ~th[n].spinning
  BY <1>2, <1>3 DEF Fits, Shape, HasP, Handing, State
<1>5. /\ p \in P /\ p \in procs /\ p # NoP /\ status[p] = "idle"
      /\ pidle' \subseteq procs /\ p \notin pidle'
  <2>1. CASE th[t].hand = NoP
    BY <1>0, <1>1, <2>1 DEF IInv, TypeOK, Idle
  <2>2. CASE th[t].hand # NoP
    <3>1. p = th[t].hand /\ p \in P /\ PassesIt(t, p)
      BY <1>0, <1>1, <2>2 DEF PassesIt, State
    <3>. QED BY <1>0, <1>1, <3>1 DEF IInv, Owners, TypeOK
  <2>. QED BY <2>1, <2>2
<1>6. runq[p] = {} \/ ~At(t, "startspin")
  <2>1. CASE th[t].hand = NoP
    BY <1>0, <1>1, <2>1 DEF IInv, Idle
  <2>2. CASE th[t].hand # NoP
    BY <1>0, <1>1, <2>2 DEF Fits, EmptyFor, At
  <2>. QED BY <2>1, <2>2
<1>7. PICK r : r = Returned(th[t])
  OBVIOUS
<1>8. PICK b \in BOOLEAN : b = At(t, "startspin")
  BY DEF At
<1>9. PICK k : k = IF At(n, "unborn") THEN "schedule" ELSE th[n].ret
  OBVIOUS
<1>10. PICK s : s = [th[n] EXCEPT !.next = p, !.spinning = b, !.pc = "parked", !.ret = k]
  OBVIOUS
<1>11. /\ r \in State /\ r.pc = th[t].ret /\ r.p = th[t].p /\ r.next = th[t].next /\ r.hand = NoP
       /\ r.g = th[t].g /\ r.spinning = th[t].spinning
       /\ r.ret = IF th[t].ret = "stopm" THEN "find" ELSE "run"
  BY <1>0, <1>7, ReturnedState
<1>12. k \in {"schedule", "find"}
  BY <1>3, <1>9 DEF Fits, Shape, At
<1>13. k \in Labels /\ "parked" \in Labels
  BY <1>12 DEF Labels
<1>14. /\ s \in State /\ s.pc = "parked" /\ s.p = NoP /\ s.next = p /\ s.hand = NoP
       /\ s.g = th[n].g /\ s.spinning = b /\ s.ret = k
  BY <1>3, <1>4, <1>5, <1>10, <1>13 DEF State
<1>15. s = Told(n, p, At(t, "startspin"))
  BY <1>8, <1>9, <1>10 DEF Told
<1>16. th' = [th EXCEPT ![t] = r, ![n] = s]
  BY <1>1, <1>7, <1>15
<1>17. /\ th' \in [Thread -> State] /\ \A u \in Thread \ {t, n} : th'[u] = th[u]
       /\ th'[t] = r /\ th'[n] = s
  BY <1>0, <1>3, <1>4, <1>11, <1>14, <1>16
<1>18. /\ th[t].ret \in {"run", "syscall", "stopm", "sysmon"} /\ th[t].next = NoP
       /\ ~th[t].spinning /\ (th[t].ret = "run" <=> th[t].p # NoP)
       /\ (th[t].ret \in {"run", "syscall"} => th[t].g # NoG) /\ (th[t].ret = "sysmon" <=> t = Sysmon)
       /\ (th[t].hand # NoP => th[t].p = NoP)
  BY <1>0, <1>2 DEF Fits, Shape, HasP, InCall, Handing, State
<1>19. Fits(t)'
  BY <1>2, <1>11, <1>17, <1>18
     DEF Fits, Shape, EmptyFor, At, HasP, HasG, InCall, Handing
<1>20. Fits(n)'
  <2>1. b => runq'[p] = {}
    BY <1>2, <1>6, <1>8
  <2>. QED BY <1>3, <1>5, <1>12, <1>14, <1>17, <2>1
     DEF Fits, Shape, EmptyFor, At, HasP, HasG, InCall, Handing
<1>21. Fit'
  <2>1. ASSUME NEW u \in Thread \ {t, n} PROVE Fits(u)'
    <3>1. Fits(u) /\ th'[u] = th[u]
      BY <1>17, ThreadFacts
    <3>. QED BY <1>2, <3>1 DEF Fits, Shape, EmptyFor, At
  <2>. QED BY <1>19, <1>20, <2>1 DEF Fit
<1>22. \A u \in Thread : Stopper(u)' <=> Stopper(u)
  BY <1>2, <1>3, <1>11, <1>14, <1>17, <1>18 DEF Stopper, At
<1>23. World'
  BY <1>2, <1>22 DEF IInv, World
<1>24. \A u \in Thread, q \in P : HasIt(u, q)' <=> HasIt(u, q)
  BY <1>0, <1>2, <1>4, <1>11, <1>14, <1>17, <1>18 DEF HasIt, InSyscall
<1>25. /\ \A u \in Thread \ {n}, q \in P : PassesIt(u, q)' <=> PassesIt(u, q) /\ q # p
       /\ \A q \in P : ~PassesIt(n, q) /\ (PassesIt(n, q)' <=> q = p)
       /\ \A u \in Thread : ~HasIt(u, p)
  <2>1. \A u \in Thread : ~HasIt(u, p)
    BY <1>5 DEF IInv, Owners
  <2>2. \A u \in Thread \ {t} : ~PassesIt(u, p)
    <3>1. CASE th[t].hand = NoP
      BY <1>1, <1>5, <3>1, Alone
    <3>2. CASE th[t].hand # NoP
      BY <1>1, <1>5, <3>2, Alone DEF PassesIt
    <3>. QED BY <3>1, <3>2
  <2>3. \A q \in P : ~PassesIt(n, q) /\ (PassesIt(n, q)' <=> q = p)
    BY <1>0, <1>3, <1>4, <1>14, <1>17 DEF PassesIt
  <2>4. \A q \in P : ~PassesIt(t, q)' /\ (PassesIt(t, q) => q = p)
    BY <1>0, <1>1, <1>11, <1>17, <1>18 DEF PassesIt
  <2>5. \A u \in Thread \ {t, n}, q \in P : PassesIt(u, q)' <=> PassesIt(u, q)
    BY <1>17 DEF PassesIt
  <2>. QED BY <2>1, <2>2, <2>3, <2>4, <2>5
<1>26. Owners'
  <2>1. \A q \in P, u, v \in Thread :
          (HasIt(u, q) \/ PassesIt(u, q)) /\ (HasIt(v, q) \/ PassesIt(v, q)) => u = v
    BY DEF IInv, Owners
  <2>2. \A q \in P, u, v \in Thread :
          (HasIt(u, q)' \/ PassesIt(u, q)') /\ (HasIt(v, q)' \/ PassesIt(v, q)') => u = v
    BY <1>24, <1>25, <2>1
  <2>3. \A q \in P : status[q] = "running" => \E u \in Thread : HasIt(u, q)'
    BY <1>24 DEF IInv, Owners
  <2>4. \A q \in P : status[q] = "idle" => q \in pidle' \/ \E u \in Thread : PassesIt(u, q)'
    BY <1>1, <1>3, <1>25 DEF IInv, Owners
  <2>5. \A q \in P, u \in Thread :
          HasIt(u, q)' => status[q] = IF Stopper(u)' THEN "gcstop" ELSE "running"
    BY <1>22, <1>24 DEF IInv, Owners
  <2>6. \A q \in P, u \in Thread : PassesIt(u, q)' => status[q] = "idle" /\ q \notin pidle'
    BY <1>1, <1>5, <1>25 DEF IInv, Owners
  <2>7. \A q \in P : status[q] = "dead" <=> q \notin procs
    BY DEF IInv, Owners
  <2>8. status' = status /\ procs' = procs
    BY <1>2
  <2>. QED BY <2>2, <2>3, <2>4, <2>5, <2>6, <2>7, <2>8 DEF Owners
<1>27. Idle'
  <2>1. \A q \in pidle' : status'[q] = "idle" /\ runq'[q] = {}
    BY <1>1, <1>2 DEF IInv, Idle
  <2>2. ASSUME NEW u \in midle' PROVE Sleeping(u)'
    <3>1. Sleeping(u) /\ u \in Thread \ {n} /\ u # t
      BY <1>0, <1>1, <1>2 DEF IInv, Idle, TypeOK, Thread, Sleeping, At
    <3>. QED BY <1>17, <3>1 DEF Sleeping, At
  <2>. QED BY <2>1, <2>2 DEF Idle
<1>28. SpinningCounted'
  <2>1. \A u \in Thread \ {t, n} : Spins(u)' <=> Spins(u)
    BY <1>17 DEF Spins, At
  <2>2. ~Spins(n) /\ ~Spins(t)' /\ (Spins(t) <=> b) /\ (Spins(n)' <=> b)
    BY <1>2, <1>3, <1>4, <1>8, <1>11, <1>14, <1>17, <1>18 DEF Spins, At
  <2>3. CASE b
    BY <1>2, <1>3, <1>4, <2>1, <2>2, <2>3, SpinningPassed DEF IInv
  <2>4. CASE ~b
    BY <1>2, <1>3, <2>1, <2>2, <2>4, SpinningSame DEF IInv
  <2>. QED BY <2>3, <2>4
<1>29. TypeOK'
  BY <1>0, <1>1, <1>2, <1>5, <1>17 DEF TypeOK
<1>30. Places'
  <2>1. \A u \in Thread : th'[u].g = th[u].g
    BY <1>3, <1>11, <1>14, <1>17
  <2>. QED BY <1>2, <2>1 DEF IInv, Places
<1>31. Attended'
  BY <1>2, <1>5 DEF Attended
<1>. QED BY <1>21, <1>23, <1>26, <1>27, <1>28, <1>29, <1>30, <1>31 DEF IInv

\* stopTheWorld: its own P, those in system calls and the idle ones stop at once, the others count.
LEMMA StopTheWorldKeeps ==
  ASSUME IInv, NEW m \in M, StopTheWorld(m)
  PROVE  IInv'
<1>0. /\ m \in Thread /\ m # Sysmon /\ Fits(m) /\ th[m] \in State /\ TypeOK /\ NoP \notin P
      /\ procs \subseteq P /\ IsFiniteSet(procs) /\ pidle \subseteq procs
  BY ThreadFacts, NamesAssumption, FiniteAssumption, FS_Subset DEF IInv, TypeOK
<1>1. PICK taken : taken = {th[m].p} \cup pidle \cup {p \in procs : status[p] = "syscall"}
  OBVIOUS
<1>2. /\ th[m].pc = "run" /\ Goto(m, "stopping")
      /\ stopwait' = Cardinality(procs) - Cardinality(taken)
      /\ status' = [p \in P |-> IF p \in taken THEN "gcstop" ELSE status[p]]
      /\ gcwaiting' = TRUE /\ pidle' = {}
      /\ UNCHANGED <<procs, runq, globrunq, midle, nmspinning, polling>>
  BY <1>1 DEF StopTheWorld, At, queues
<1>3. \A t \in Thread : ~Stopper(t)
  <2>1. \A t \in M : ~Stopper(t)
    BY DEF StopTheWorld, Stopper
  <2>2. ~Stopper(Sysmon)
    <3>1. Fits(Sysmon) /\ Sysmon \in Thread
      BY ThreadFacts
    <3>. QED BY <3>1 DEF Fits, Shape, Stopper, At, InCall, Handing
  <2>. QED BY <2>1, <2>2 DEF Thread
<1>4. ~gcwaiting /\ \A p \in P : status[p] # "gcstop"
  BY <1>3 DEF IInv, World
<1>5. /\ Others(m) /\ th'[m].pc = "stopping"
      /\ th'[m].spinning = th[m].spinning /\ th'[m].ret = th[m].ret
  BY <1>0, <1>2, GoesTo DEF Labels
<1>6. \A t \in Thread : Stopper(t)' <=> t = m
  BY <1>3, <1>5 DEF Others, Stopper, At
<1>7. th[m].p \in procs /\ th[m].p \in P /\ HasIt(m, th[m].p)
  BY <1>0, <1>2, BusyP DEF HasP
<1>8. taken \subseteq procs
  BY <1>0, <1>1, <1>7
<1>9. \A p \in P : status'[p] = IF p \in taken THEN "gcstop" ELSE status[p]
  BY <1>2
<1>10. \A t \in Thread, p \in P : /\ HasIt(t, p)' <=> HasIt(t, p)
                                  /\ PassesIt(t, p)' <=> PassesIt(t, p)
  BY <1>2, <1>5 DEF Others, HasIt, PassesIt, InSyscall
<1>11. stopwait' = Cardinality({p \in procs : status'[p] # "gcstop"}) /\ stopwait' \in Nat
  <2>1. {p \in procs : status'[p] # "gcstop"} = procs \ taken
    BY <1>0, <1>4, <1>9
  <2>2. IsFiniteSet(taken) /\ IsFiniteSet(procs \ taken)
    BY <1>0, <1>8, FS_Subset
  <2>3. Cardinality(procs \ taken) = Cardinality(procs) - Cardinality(procs \cap taken)
    BY <1>0, <2>2, FS_Difference
  <2>4. procs \cap taken = taken
    BY <1>8
  <2>5. Cardinality(procs \ taken) \in Nat
    BY <2>2, FS_CardinalityType
  <2>. QED BY <1>2, <2>1, <2>3, <2>4, <2>5
<1>12. World'
  BY <1>0, <1>2, <1>6, <1>11 DEF World
<1>13. Owners'
  <2>1. \A p \in P, t, u \in Thread :
          (HasIt(t, p)' \/ PassesIt(t, p)') /\ (HasIt(u, p)' \/ PassesIt(u, p)') => t = u
    BY <1>10 DEF IInv, Owners
  <2>2. \A p \in P : status'[p] = "running" => \E t \in Thread : HasIt(t, p)'
    BY <1>9, <1>10 DEF IInv, Owners
  <2>3. \A p \in P : status'[p] = "idle" => \E t \in Thread : PassesIt(t, p)'
    BY <1>1, <1>9, <1>10 DEF IInv, Owners
  <2>4. ASSUME NEW p \in P, NEW t \in Thread, HasIt(t, p)'
        PROVE  status'[p] = IF Stopper(t)' THEN "gcstop" ELSE "running"
    <3>1. HasIt(t, p) /\ status[p] = "running"
      BY <1>3, <1>10, <2>4 DEF IInv, Owners
    <3>2. CASE t = m
      <4>1. p = th[m].p
        BY <3>1, <3>2 DEF HasIt
      <4>. QED BY <1>1, <1>6, <1>9, <3>2, <4>1
    <3>3. CASE t # m
      <4>1. p # th[m].p
        BY <1>0, <1>7, <3>1, <3>3 DEF IInv, Owners
      <4>2. p \notin pidle
        BY <3>1 DEF IInv, Idle
      <4>3. p \notin taken
        BY <1>1, <3>1, <4>1, <4>2
      <4>. QED BY <1>0, <1>6, <1>9, <3>1, <3>3, <4>3
    <3>. QED BY <3>2, <3>3
  <2>5. ASSUME NEW p \in P, NEW t \in Thread, PassesIt(t, p)'
        PROVE  status'[p] = "idle"
    <3>1. PassesIt(t, p) /\ status[p] = "idle" /\ p \notin pidle
      BY <1>10, <2>5 DEF IInv, Owners
    <3>2. p # th[m].p
      BY <1>0, <1>3, <1>7, <3>1 DEF IInv, Owners
    <3>3. p \notin taken
      BY <1>1, <3>1, <3>2
    <3>. QED BY <1>9, <3>1, <3>3
  <2>6. \A p \in P : status'[p] = "dead" <=> p \notin procs
    BY <1>8, <1>9 DEF IInv, Owners
  <2>. QED BY <1>2, <2>1, <2>2, <2>3, <2>4, <2>5, <2>6 DEF Owners
<1>14. Fit'
  <2>1. Fits(m)'
    BY <1>0, <1>2, <1>5 DEF Others, Fits, Shape, EmptyFor, At, HasP, HasG, InCall, Handing
  <2>2. ASSUME NEW t \in Thread \ {m} PROVE Fits(t)'
    <3>1. Fits(t) /\ th'[t] = th[t] /\ ~At(t, "stopped")
      BY <1>3, <1>5, ThreadFacts DEF Others, Stopper
    <3>. QED BY <1>2, <3>1 DEF Fits, Shape, EmptyFor, At
  <2>. QED BY <2>1, <2>2 DEF Fit
<1>15. Idle'
  <2>1. ASSUME NEW n \in midle' PROVE Sleeping(n)'
    <3>1. Sleeping(n) /\ n \in Thread \ {m}
      BY <1>0, <1>2 DEF IInv, Idle, TypeOK, Thread, Sleeping, At
    <3>. QED BY <1>5, <3>1 DEF Sleeping, At, Others
  <2>. QED BY <1>2, <2>1 DEF Idle
<1>16. SpinningCounted' /\ nmspinning' \in Nat
  <2>1. SpinStep(m)
    BY <1>2, <1>5 DEF SpinStep, Spins, At
  <2>. QED BY <1>0, <1>5, <2>1, SpinStepCounts DEF IInv, Others
<1>17. status' \in [P -> {"idle", "running", "syscall", "gcstop", "dead"}]
  BY <1>0, <1>2 DEF TypeOK
<1>18. TypeOK'
  BY <1>0, <1>2, <1>5, <1>11, <1>16, <1>17 DEF TypeOK, Others
<1>19. Places'
  <2>1. \A t \in Thread : th'[t].g = th[t].g
    BY <1>5 DEF Others
  <2>. QED BY <1>2, <2>1 DEF IInv, Places
<1>20. Attended'
  BY <1>2 DEF Attended
<1>. QED BY <1>12, <1>13, <1>14, <1>15, <1>16, <1>18, <1>19, <1>20 DEF IInv

\* Once the world is stopped, all Ps are, and the stopper alone has one.
LEMMA StoppedAlone ==
  ASSUME IInv, NEW m \in M, At(m, "stopped")
  PROVE  /\ gcwaiting /\ stopwait = 0 /\ pidle = {}
         /\ \A p \in procs : status[p] = "gcstop"
         /\ \A t \in Thread : Stopper(t) <=> t = m
         /\ \A t \in Thread, p \in P : ~PassesIt(t, p) /\ (HasIt(t, p) => t = m)
<1>0. m \in Thread /\ Fits(m) /\ TypeOK
  BY ThreadFacts DEF IInv
<1>1. \A t \in Thread : Stopper(t) <=> t = m
  BY <1>0 DEF IInv, World, Stopper
<1>2. gcwaiting /\ stopwait = 0
  BY <1>0, <1>1 DEF IInv, World, Fits
<1>3. \A p \in procs : status[p] = "gcstop"
  <2>. DEFINE S == {p \in procs : status[p] # "gcstop"}
  <2>1. IsFiniteSet(procs)
    BY <1>0, FiniteAssumption, FS_Subset DEF TypeOK
  <2>2. IsFiniteSet(S) /\ Cardinality(S) = 0
    BY <1>2, <2>1, FS_Subset DEF IInv, World
  <2>3. S = {}
    BY <2>2, FS_EmptySet
  <2>. QED BY <2>3
<1>4. pidle = {}
  BY <1>0, <1>3 DEF TypeOK, IInv, Idle
<1>5. \A t \in Thread, p \in P : HasIt(t, p) \/ PassesIt(t, p) => p \in procs
  <2>1. \A t \in Thread, p \in P : HasIt(t, p) \/ PassesIt(t, p) => status[p] # "dead"
    BY DEF IInv, Owners
  <2>. QED BY <2>1 DEF IInv, Owners
<1>6. \A t \in Thread, p \in P : ~PassesIt(t, p)
  BY <1>3, <1>5 DEF IInv, Owners
<1>7. \A t \in Thread, p \in P : HasIt(t, p) => Stopper(t)
  BY <1>3, <1>5 DEF IInv, Owners
<1>. QED BY <1>1, <1>2, <1>3, <1>4, <1>6, <1>7

\* startTheWorld: procresize hands out the Ps, those with work to sleeping threads.
LEMMA StartTheWorldKeeps ==
  ASSUME IInv, NEW m \in M, StartTheWorld(m)
  PROVE  IInv'
<1>0. /\ m \in Thread /\ m # Sysmon /\ Fits(m) /\ th[m] \in State /\ TypeOK /\ NoP \notin P
      /\ th \in [Thread -> State] /\ th[m].pc = "stopped"
  BY ThreadFacts, NamesAssumption DEF IInv, TypeOK, StartTheWorld, At
<1>1. /\ gcwaiting /\ stopwait = 0 /\ pidle = {}
      /\ \A t \in Thread : Stopper(t) <=> t = m
      /\ \A t \in Thread, p \in P : ~PassesIt(t, p) /\ (HasIt(t, p) => t = m)
  BY <1>0, StoppedAlone DEF At
<1>. DEFINE Starts(new, own, busy, starts, of) ==
        /\ starts \subseteq midle \/ midle \subseteq starts
        /\ procs' = new
        /\ status' = [p \in P |-> IF p \notin new THEN "dead"
                                  ELSE IF p = own THEN "running" ELSE "idle"]
        /\ globrunq' = globrunq \cup UNION {runq[p] : p \in P \ new}
        /\ runq' = [p \in P |-> IF p \in new THEN runq[p] ELSE {}]
        /\ pidle' = new \ ({own} \cup busy)
        /\ midle' = midle \ starts
        /\ th' = [n \in Thread |->
                    IF n \in starts THEN Told(n, of[n], FALSE)
                    ELSE IF n = m THEN [th[m] EXCEPT !.p = own, !.pc = "ready"]
                    ELSE th[n]]
<1>b. PICK new \in NewProcs : \E own \in IF th[m].p \in new THEN {th[m].p} ELSE new :
        LET busy == {p \in new \ {own} : runq[p] # {}}
            free == midle \cup {n \in M : At(n, "unborn")}
        IN \E starts \in kSubset(Cardinality(busy), free) :
           \E of \in Bijection(starts, busy) : Starts(new, own, busy, starts, of)
  BY DEF StartTheWorld
<1>c. PICK own \in IF th[m].p \in new THEN {th[m].p} ELSE new :
        LET busy == {p \in new \ {own} : runq[p] # {}}
            free == midle \cup {n \in M : At(n, "unborn")}
        IN \E starts \in kSubset(Cardinality(busy), free) :
           \E of \in Bijection(starts, busy) : Starts(new, own, busy, starts, of)
  BY <1>b
<1>d. PICK busy : busy = {p \in new \ {own} : runq[p] # {}}
  OBVIOUS
<1>. HIDE DEF Starts
<1>e. PICK starts \in kSubset(Cardinality(busy), midle \cup {n \in M : At(n, "unborn")}) :
        \E of \in Bijection(starts, busy) : Starts(new, own, busy, starts, of)
  BY <1>c, <1>d
<1>f. PICK of \in Bijection(starts, busy) : Starts(new, own, busy, starts, of)
  BY <1>e
<1>g. starts \subseteq midle \cup {n \in M : At(n, "unborn")}
  BY <1>e DEF kSubset
<1>h. PICK r : r = [th[m] EXCEPT !.p = own, !.pc = "ready"]
  OBVIOUS
<1>. USE DEF Starts
<1>i. th' = [n \in Thread |-> IF n \in starts THEN Told(n, of[n], FALSE)
                            ELSE IF n = m THEN r ELSE th[n]]
  BY <1>f, <1>h
<1>j. /\ procs' = new
      /\ status' = [p \in P |-> IF p \notin new THEN "dead"
                                ELSE IF p = own THEN "running" ELSE "idle"]
      /\ globrunq' = globrunq \cup UNION {runq[p] : p \in P \ new}
      /\ runq' = [p \in P |-> IF p \in new THEN runq[p] ELSE {}]
      /\ pidle' = new \ ({own} \cup busy)
      /\ midle' = midle \ starts
  BY <1>f
<1>. HIDE DEF Starts
<1>2. /\ new \in NewProcs /\ own \in IF th[m].p \in new THEN {th[m].p} ELSE new
      /\ busy = {p \in new \ {own} : runq[p] # {}}
      /\ starts \subseteq midle \cup {n \in M : At(n, "unborn")}
      /\ of \in Bijection(starts, busy)
      /\ r = [th[m] EXCEPT !.p = own, !.pc = "ready"]
      /\ procs' = new
      /\ status' = [p \in P |-> IF p \notin new THEN "dead"
                                ELSE IF p = own THEN "running" ELSE "idle"]
      /\ globrunq' = globrunq \cup UNION {runq[p] : p \in P \ new}
      /\ runq' = [p \in P |-> IF p \in new THEN runq[p] ELSE {}]
      /\ pidle' = new \ ({own} \cup busy)
      /\ midle' = midle \ starts
      /\ th' = [n \in Thread |-> IF n \in starts THEN Told(n, of[n], FALSE)
                                 ELSE IF n = m THEN r ELSE th[n]]
  BY <1>b, <1>c, <1>d, <1>f, <1>g, <1>h, <1>i, <1>j
<1>3. gcwaiting' = FALSE /\ UNCHANGED <<stopwait, nmspinning, polling>>
  BY DEF StartTheWorld
<1>4. new \subseteq P /\ own \in new /\ own \in P /\ own # NoP /\ busy \subseteq new \ {own}
  BY <1>0, <1>2 DEF NewProcs, TypeOK
<1>5. /\ of \in [starts -> busy] /\ \A n \in starts, k \in starts : of[n] = of[k] => n = k
      /\ \A p \in busy : \E n \in starts : of[n] = p
  BY <1>2 DEF Bijection, Injection, Surjection, IsInjective
<1>6. ASSUME NEW n \in starts
      PROVE  /\ n \in M /\ n \in Thread /\ n # m /\ n # Sysmon /\ Fits(n) /\ th[n] \in State
             /\ th[n].pc \in {"parked", "unborn"} /\ th[n].next = NoP
             /\ th[n].p = NoP /\ th[n].hand = NoP /\ ~th[n].spinning
             /\ of[n] \in P /\ of[n] \in busy /\ of[n] # NoP
  <2>1. n \in M /\ (Sleeping(n) \/ At(n, "unborn"))
    BY <1>0, <1>2, <1>6 DEF IInv, Idle, TypeOK
  <2>2. n \in Thread /\ n # Sysmon /\ Fits(n) /\ th[n] \in State
    BY <2>1, ThreadFacts
  <2>3. th[n].pc \in {"parked", "unborn"}
    BY <2>1 DEF Sleeping, At
  <2>4. th[n].next = NoP
    BY <2>1, <2>2 DEF Sleeping, At, Fits, Shape
  <2>5. th[n].p = NoP /\ th[n].hand = NoP /\ ~th[n].spinning
    BY <2>2, <2>3, <2>4 DEF Fits, Shape, HasP, Handing, State
  <2>6. of[n] \in busy /\ of[n] \in P /\ of[n] # NoP
    BY <1>0, <1>4, <1>5, <1>6
  <2>. QED BY <1>0, <2>1, <2>2, <2>3, <2>4, <2>5, <2>6
<1>7. ASSUME NEW n \in starts
      PROVE  /\ th'[n] \in State /\ th'[n].pc = "parked" /\ th'[n].p = NoP
             /\ th'[n].next = of[n] /\ th'[n].hand = NoP /\ th'[n].g = th[n].g
             /\ th'[n].spinning = FALSE /\ th'[n].ret \in {"schedule", "find"}
  <2>1. PICK k : k = IF At(n, "unborn") THEN "schedule" ELSE th[n].ret
    OBVIOUS
  <2>2. PICK s : s = [th[n] EXCEPT !.next = of[n], !.spinning = FALSE, !.pc = "parked", !.ret = k]
    OBVIOUS
  <2>3. k \in {"schedule", "find"}
    BY <1>6, <1>7, <2>1 DEF Fits, Shape, At
  <2>4. k \in Labels /\ "parked" \in Labels
    BY <2>3 DEF Labels
  <2>5. /\ s \in State /\ s.pc = "parked" /\ s.p = NoP /\ s.next = of[n] /\ s.hand = NoP
        /\ s.g = th[n].g /\ s.spinning = FALSE /\ s.ret = k
    BY <1>6, <1>7, <2>2, <2>4 DEF State
  <2>6. th'[n] = s
    BY <1>2, <1>6, <1>7, <2>1, <2>2 DEF Told
  <2>. QED BY <2>3, <2>5, <2>6
<1>8. /\ th[m].next = NoP /\ th[m].hand = NoP /\ th[m].ret = "run" /\ th[m].g # NoG
      /\ ~th[m].spinning
  BY <1>0 DEF Fits, Shape, HasP, HasG, State
<1>9. /\ r \in State /\ r.p = own /\ r.next = NoP /\ r.hand = NoP /\ r.ret = "run"
      /\ r.g = th[m].g /\ ~r.spinning /\ r.pc = "ready"
  <2>1. "ready" \in Labels
    BY DEF Labels
  <2>. QED BY <1>0, <1>2, <1>4, <1>8, <2>1 DEF State
<1>10. th'[m] = r
  BY <1>0, <1>2, <1>6
<1>11. \A t \in Thread \ (starts \cup {m}) : th'[t] = th[t]
  BY <1>2
<1>12. th' \in [Thread -> State]
  <2>1. \A t \in Thread : th'[t] \in State
    BY <1>0, <1>7, <1>9, <1>10, <1>11
  <2>. QED BY <1>2, <2>1
<1>13. \A t \in Thread : th'[t].g = th[t].g
  BY <1>7, <1>9, <1>10, <1>11
<1>14. ASSUME NEW t \in Thread \ {m} PROVE th[t].pc \notin HasP /\ th[t].next = NoP /\ th[t].hand = NoP
  <2>1. Fits(t) /\ th[t] \in State
    BY ThreadFacts
  <2>2. th[t].next = NoP /\ th[t].hand = NoP
    BY <1>1, <2>1 DEF State, PassesIt
  <2>. QED BY <1>1, <2>1, <2>2, BusyP
<1>15. \A t \in Thread, p \in P : /\ HasIt(t, p)' <=> t = m /\ p = own
                                  /\ PassesIt(t, p)' <=> t \in starts /\ of[t] = p
  <2>1. ASSUME NEW t \in starts, NEW p \in P
        PROVE  ~HasIt(t, p)' /\ (PassesIt(t, p)' <=> of[t] = p)
    BY <1>0, <1>7, <2>1 DEF HasIt, PassesIt
  <2>2. ASSUME NEW p \in P PROVE (HasIt(m, p)' <=> p = own) /\ ~PassesIt(m, p)'
    BY <1>0, <1>9, <1>10, <2>2 DEF HasIt, PassesIt, InSyscall
  <2>3. ASSUME NEW t \in Thread \ (starts \cup {m}), NEW p \in P
        PROVE  ~HasIt(t, p)' /\ ~PassesIt(t, p)'
    BY <1>1, <1>11, <2>3 DEF HasIt, PassesIt, InSyscall
  <2>4. m \notin starts
    BY <1>6
  <2>. QED BY <2>1, <2>2, <2>3, <2>4
<1>16. \A t \in Thread : ~Stopper(t)'
  BY <1>1, <1>7, <1>9, <1>10, <1>11 DEF Stopper, At
<1>17. \A p \in P : status'[p] = IF p \notin new THEN "dead"
                                 ELSE IF p = own THEN "running" ELSE "idle"
  BY <1>2
<1>18. World'
  BY <1>1, <1>3, <1>16, <1>17 DEF World
<1>19. Owners'
  <2>1. \A p \in P, t, u \in Thread :
          (HasIt(t, p)' \/ PassesIt(t, p)') /\ (HasIt(u, p)' \/ PassesIt(u, p)') => t = u
    BY <1>4, <1>5, <1>6, <1>15
  <2>2. \A p \in P : status'[p] = "running" => \E t \in Thread : HasIt(t, p)'
    BY <1>0, <1>15, <1>17
  <2>3. ASSUME NEW p \in P, status'[p] = "idle"
        PROVE  p \in pidle' \/ \E t \in Thread : PassesIt(t, p)'
    <3>1. p \in new \ {own}
      BY <1>17, <2>3
    <3>2. CASE p \in busy
      BY <1>5, <1>6, <1>15, <3>2
    <3>3. CASE p \notin busy
      BY <1>2, <3>1, <3>3
    <3>. QED BY <3>2, <3>3
  <2>4. \A p \in P, t \in Thread :
          HasIt(t, p)' => status'[p] = IF Stopper(t)' THEN "gcstop" ELSE "running"
    BY <1>4, <1>15, <1>16, <1>17
  <2>5. \A p \in P, t \in Thread : PassesIt(t, p)' => status'[p] = "idle" /\ p \notin pidle'
    BY <1>2, <1>4, <1>6, <1>15, <1>17
  <2>6. \A p \in P : status'[p] = "dead" <=> p \notin procs'
    BY <1>2, <1>17
  <2>. QED BY <2>1, <2>2, <2>3, <2>4, <2>5, <2>6 DEF Owners
<1>20. Fit'
  <2>1. ASSUME NEW t \in starts PROVE Fits(t)'
    BY <1>4, <1>6, <1>7, <2>1 DEF Fits, Shape, EmptyFor, At, HasP, HasG, InCall, Handing
  <2>2. Fits(m)'
    BY <1>0, <1>4, <1>8, <1>9, <1>10 DEF Fits, Shape, EmptyFor, At, HasP, HasG, InCall, Handing
  <2>3. ASSUME NEW t \in Thread \ (starts \cup {m}) PROVE Fits(t)'
    <3>1. Fits(t) /\ th'[t] = th[t]
      BY <1>11, ThreadFacts
    <3>2. th[t].pc \notin HasP /\ th[t].next = NoP /\ th[t].hand = NoP
      BY <1>14
    <3>3. Shape(t)'
      BY <3>1 DEF Fits, Shape
    <3>4. EmptyFor(t)'
      BY <3>1, <3>2 DEF EmptyFor, At, HasP
    <3>. QED BY <3>1, <3>2, <3>3, <3>4 DEF Fits, At, HasP
  <2>. QED BY <2>1, <2>2, <2>3 DEF Fit
<1>21. Idle'
  <2>1. ASSUME NEW p \in pidle' PROVE status'[p] = "idle" /\ runq'[p] = {}
    BY <1>2, <1>4, <1>17, <2>1
  <2>2. ASSUME NEW n \in midle' PROVE Sleeping(n)'
    <3>1. Sleeping(n) /\ n \in Thread \ (starts \cup {m})
      BY <1>0, <1>2 DEF IInv, Idle, TypeOK, Thread, Sleeping, At
    <3>. QED BY <1>11, <3>1 DEF Sleeping, At
  <2>. QED BY <2>1, <2>2 DEF Idle
<1>22. SpinningCounted'
  <2>1. \A t \in Thread : Spins(t)' <=> Spins(t)
    BY <1>0, <1>6, <1>7, <1>8, <1>9, <1>10, <1>11 DEF Spins, At
  <2>. QED BY <1>3, <2>1, SpinningSame DEF IInv
<1>23. /\ runq' \in [P -> SUBSET G] /\ globrunq' \subseteq G
       /\ \A p \in P : runq'[p] = IF p \in new THEN runq[p] ELSE {}
       /\ \A g : g \in globrunq' <=> g \in globrunq \/ \E p \in P \ new : g \in runq[p]
  <2>1. runq \in [P -> SUBSET G] /\ globrunq \subseteq G
    BY <1>0 DEF TypeOK
  <2>. QED BY <1>2, <2>1
<1>24. TypeOK'
  <2>1. procs' \subseteq P /\ procs' # {}
    BY <1>2, <1>4
  <2>2. status' \in [P -> {"idle", "running", "syscall", "gcstop", "dead"}]
    BY <1>2
  <2>3. pidle' \subseteq procs' /\ midle' \subseteq M
    BY <1>0, <1>2 DEF TypeOK
  <2>. QED BY <1>0, <1>3, <1>12, <1>23, <2>1, <2>2, <2>3 DEF TypeOK
<1>25. Places'
  BY <1>13, <1>23 DEF IInv, Places
<1>26. Attended'
  BY <1>2, <1>4 DEF Attended
<1>. QED BY <1>18, <1>19, <1>20, <1>21, <1>22, <1>24, <1>25, <1>26 DEF IInv
-----------------------------------------------------------------------------
\* The invariant holds when schedinit has run,
LEMMA InitHolds == Init => IInv
<1>. SUFFICES ASSUME Init PROVE IInv
  OBVIOUS
<1>1. PICK m \in M, p \in P, g \in G :
        /\ pidle = P \ {p}
        /\ status = [q \in P |-> IF q = p THEN "running" ELSE "idle"]
        /\ th = [t \in Thread |->
                   IF t = m THEN [Asleep("run") EXCEPT !.p = p, !.g = g]
                   ELSE Asleep(IF t = Sysmon THEN "sysmon" ELSE "unborn")]
  BY DEF Init
<1>2. /\ procs = P /\ midle = {} /\ runq = [q \in P |-> {}] /\ globrunq = {}
      /\ nmspinning = 0 /\ polling = FALSE /\ gcwaiting = FALSE /\ stopwait = 0
  BY DEF Init
<1>3. m \in Thread /\ m # Sysmon /\ Sysmon \in Thread /\ p # NoP /\ g # NoG
  BY NamesAssumption DEF Thread
<1>4. {"run", "sysmon", "unborn"} \subseteq Labels
  BY DEF Labels
<1>5. /\ th[m] \in State /\ th[m].pc = "run" /\ th[m].p = p /\ th[m].next = NoP
      /\ th[m].hand = NoP /\ th[m].g = g /\ th[m].spinning = FALSE /\ th[m].ret = "run"
  BY <1>1, <1>3, <1>4 DEF Asleep, State
<1>6. ASSUME NEW t \in Thread \ {m}
      PROVE  /\ th[t] \in State /\ th[t].pc = IF t = Sysmon THEN "sysmon" ELSE "unborn"
             /\ th[t].p = NoP /\ th[t].next = NoP
             /\ th[t].hand = NoP /\ th[t].g = NoG /\ th[t].spinning = FALSE /\ th[t].ret = "run"
  <2>1. PICK l : l = IF t = Sysmon THEN "sysmon" ELSE "unborn"
    OBVIOUS
  <2>2. th[t] = Asleep(l) /\ l \in Labels
    BY <1>1, <1>4, <2>1
  <2>3. /\ Asleep(l) \in State /\ Asleep(l).pc = l /\ Asleep(l).p = NoP /\ Asleep(l).next = NoP
        /\ Asleep(l).hand = NoP /\ Asleep(l).g = NoG /\ Asleep(l).spinning = FALSE
        /\ Asleep(l).ret = "run"
    BY <1>4, <2>2 DEF Asleep, State
  <2>. QED BY <2>1, <2>2, <2>3
<1>7. TypeOK
  <2>1. th \in [Thread -> State]
    <3>1. \A t \in Thread : th[t] \in State
      BY <1>5, <1>6
    <3>. QED BY <1>1, <3>1
  <2>2. status \in [P -> {"idle", "running", "syscall", "gcstop", "dead"}]
    BY <1>1
  <2>3. runq \in [P -> SUBSET G]
    BY <1>2
  <2>. QED BY <1>1, <1>2, <2>1, <2>2, <2>3 DEF TypeOK
<1>8. Fit
  <2>1. Fits(m)
    BY <1>3, <1>5 DEF Fits, Shape, EmptyFor, At, HasP, HasG, InCall, Handing
  <2>2. ASSUME NEW t \in Thread \ {m} PROVE Fits(t)
    BY <1>6, <2>2 DEF Fits, Shape, EmptyFor, At, HasP, HasG, InCall, Handing
  <2>. QED BY <2>1, <2>2 DEF Fit
<1>9. \A t \in Thread, q \in P : (HasIt(t, q) <=> t = m /\ q = p) /\ ~PassesIt(t, q)
  BY <1>3, <1>5, <1>6, NamesAssumption DEF HasIt, PassesIt, InSyscall
<1>10. \A t \in Thread : ~Stopper(t)
  BY <1>5, <1>6 DEF Stopper, At
<1>11. \A q \in P : status[q] = IF q = p THEN "running" ELSE "idle"
  BY <1>1
<1>12. Owners
  BY <1>1, <1>2, <1>3, <1>9, <1>10, <1>11 DEF Owners
<1>13. Idle
  BY <1>1, <1>2, <1>11 DEF Idle
<1>14. World
  BY <1>2, <1>10, <1>11 DEF World
<1>15. Places
  BY <1>2, <1>3, <1>5, <1>6 DEF Places
<1>16. SpinningCounted
  <2>1. \A t \in Thread : ~Spins(t)
    BY <1>5, <1>6 DEF Spins, At
  <2>2. {t \in Thread : Spins(t)} = {}
    BY <2>1
  <2>. QED BY <1>2, <2>2, FS_EmptySet DEF SpinningCounted, Spins
<1>17. Attended
  BY <1>2 DEF Attended
<1>. QED BY <1>7, <1>8, <1>12, <1>13, <1>14, <1>15, <1>16, <1>17 DEF IInv

\* and when nothing happens,
LEMMA StutterKeeps ==
  ASSUME IInv, UNCHANGED vars
  PROVE  IInv'
BY DEF IInv, vars, world, queues, TypeOK, Fit, Fits, Shape, EmptyFor, At, Owners, HasIt, PassesIt,
       InSyscall, Stopper, Idle, Sleeping, World, Places, SpinningCounted, Attended

\* and through the calls that any thread makes,
LEMMA StartKeeps ==
  ASSUME IInv, NEW t \in Thread, Start(t)
  PROVE  IInv'
<1>1. CASE \/ Wakep(t) \/ StartmNoP(t) \/ Undo(t) \/ Inject(t)
           \/ HandoffWork(t) \/ HandoffSpin(t) \/ HandoffIdle(t) \/ HandoffCas(t)
  BY <1>1, CallOnward, OnwardKeeps
<1>2. CASE Startm(t)
  BY <1>2, StartmKeeps
<1>3. CASE HandoffLocked(t)
  BY <1>3, HandoffLockedKeeps
<1>. QED BY <1>1, <1>2, <1>3 DEF Start

\* a thread's scheduling round,
LEMMA RoundKeeps ==
  ASSUME IInv, NEW m \in M, Round(m)
  PROVE  IInv'
<1>0. m \in Thread
  BY ThreadFacts
<1>1. CASE NoLocal(m) \/ LookFurther(m) \/ EnoughSpin(m) \/ StealFails(m) \/ Execute(m)
  BY <1>0, <1>1, RoundOnward, OnwardKeeps
<1>2. CASE \/ GcWaiting(m) \/ DropGc(m) \/ SpinUp(m) \/ Drop(m) \/ Recheck(m) \/ Respin(m)
           \/ Poll(m) \/ ResetSpinning(m)
  BY <1>0, <1>2, MoreOnward, OnwardKeeps
<1>3. CASE ScheduleGlobal(m) \/ RunqGet(m) \/ LookGlobal(m) \/ Steal(m) \/ StopGlobal(m)
  BY <1>3, RunsNext
<1>4. CASE Stopm(m)
  BY <1>4, StopmKeeps
<1>5. CASE Unpark(m)
  BY <1>5, UnparkKeeps
<1>6. CASE Gcstopm(m)
  BY <1>6, LeavesKeep
<1>7. CASE Stop(m)
  <2>1. CASE gcwaiting
    BY <1>0, <1>7, <2>1, BranchOnward, OnwardKeeps
  <2>2. CASE ~gcwaiting
    BY <1>7, <2>2, LeavesKeep
  <2>. QED BY <2>1, <2>2
<1>8. CASE GetP(m)
  <2>1. CASE pidle = {}
    BY <1>0, <1>8, <2>1, BranchOnward, OnwardKeeps
  <2>2. CASE pidle # {}
    BY <1>8, <2>2, FindsIdleP
  <2>. QED BY <2>1, <2>2
<1>9. CASE PollReturns(m)
  BY <1>9, PollKeeps
<1>10. CASE Polled(m)
  <2>1. CASE pidle = {}
    BY <1>10, <2>1, PollKeeps
  <2>2. CASE pidle # {}
    BY <1>10, <2>2, FindsIdleP
  <2>. QED BY <2>1, <2>2
<1>. QED BY <1>1, <1>2, <1>3, <1>4, <1>5, <1>6, <1>7, <1>8, <1>9, <1>10 DEF Round

\* what a goroutine asks of the scheduler,
LEMMA GoroutineKeeps ==
  ASSUME IInv, NEW m \in M, Goroutine(m)
  PROVE  IInv'
<1>0. m \in Thread
  BY ThreadFacts
<1>1. CASE Ready(m)
  BY <1>1, ReadyKeeps
<1>2. CASE ReadyWakes(m) \/ EnterSyscallCheck(m) \/ WorldStops(m)
  BY <1>0, <1>2, RoundOnward, OnwardKeeps
<1>3. CASE Park(m)
  BY <1>3, ParkKeeps
<1>4. CASE EnterSyscall(m) \/ EnterSyscallBlock(m)
  BY <1>4, LeavesKeep
<1>5. CASE GcWait(m)
  <2>1. CASE stopwait > 0 /\ status[th[m].p] = "syscall"
    BY <1>5, <2>1, SyscallKeeps
  <2>2. CASE ~(stopwait > 0 /\ status[th[m].p] = "syscall")
    <3>1. UNCHANGED <<status, stopwait>>
      BY <1>5, <2>2 DEF GcWait
    <3>. QED BY <1>0, <1>5, <3>1, BranchOnward, OnwardKeeps
  <2>. QED BY <2>1, <2>2
<1>6. CASE ExitSyscallFast(m)
  <2>1. CASE /\ th[m].p # NoP /\ status[th[m].p] = "syscall"
             /\ SetStatus(th[m].p, "running") /\ Goto(m, "run")
    BY <1>6, <2>1, SyscallKeeps
  <2>2. CASE UNCHANGED status /\ th' = [th EXCEPT ![m].p = NoP, ![m].pc = "exitfast"]
    BY <1>0, <1>6, <2>2, BranchOnward, OnwardKeeps
  <2>. QED BY <1>6, <2>1, <2>2 DEF ExitSyscallFast
<1>7. CASE ExitSyscallIdle(m)
  BY <1>7, FindsIdleP
<1>8. CASE ExitSyscall0(m)
  BY <1>8, ExitSyscall0Keeps
<1>9. CASE StopTheWorld(m)
  BY <1>9, StopTheWorldKeeps
<1>10. CASE StartTheWorld(m)
  BY <1>10, StartTheWorldKeeps
<1>. QED BY <1>1, <1>2, <1>3, <1>4, <1>5, <1>6, <1>7, <1>8, <1>9, <1>10 DEF Goroutine

\* so through every step.
LEMMA StepKeeps == IInv /\ [Next]_vars => IInv'
<1>. SUFFICES ASSUME IInv, [Next]_vars PROVE IInv'
  OBVIOUS
<1>1. CASE UNCHANGED vars
  BY <1>1, StutterKeeps
<1>2. CASE \E t \in Thread : Start(t)
  BY <1>2, StartKeeps
<1>3. CASE \E m \in M : Round(m) \/ Goroutine(m)
  BY <1>3, RoundKeeps, GoroutineKeeps
<1>4. CASE Retake
  BY <1>4, RetakeKeeps
<1>5. CASE SysmonPoll
  BY <1>5, SysmonPollKeeps
<1>. QED BY <1>1, <1>2, <1>3, <1>4, <1>5 DEF Next

\* The inductive invariant, for any finite sets of threads, Ps and goroutines.
THEOREM IInvHolds == Spec => []IInv
BY InitHolds, StepKeeps, PTL DEF Spec
-----------------------------------------------------------------------------
\* The holders of a P, counted.
LEMMA OneHolder ==
  ASSUME IInv, NEW p \in P
  PROVE  Cardinality(Holders(p)) =
           IF p \in pidle \/ status[p] \in {"syscall", "dead"} \/ StoppedForGood(p) THEN 0 ELSE 1
<1>1. Holders(p) = {t \in Thread : HasIt(t, p) \/ PassesIt(t, p)}
  BY DEF Holders, HasIt, PassesIt
<1>2. CASE p \in pidle \/ status[p] \in {"syscall", "dead"} \/ StoppedForGood(p)
  <2>1. Holders(p) = {}
    <3>1. CASE p \in pidle \/ status[p] = "syscall"
      BY <1>1, <3>1, Alone
    <3>2. CASE status[p] = "dead"
      BY <1>1, <3>2 DEF IInv, Owners
    <3>3. CASE StoppedForGood(p)
      BY <3>3 DEF StoppedForGood
    <3>. QED BY <1>2, <3>1, <3>2, <3>3
  <2>. QED BY <1>2, <2>1, FS_EmptySet
<1>3. CASE ~(p \in pidle \/ status[p] \in {"syscall", "dead"} \/ StoppedForGood(p))
  <2>1. PICK t : t \in Holders(p)
    <3>1. CASE status[p] = "running"
      BY <1>1, <3>1 DEF IInv, Owners
    <3>2. CASE status[p] = "idle"
      BY <1>1, <1>3, <3>2 DEF IInv, Owners
    <3>3. CASE status[p] = "gcstop"
      BY <1>3, <3>3 DEF StoppedForGood
    <3>4. status[p] \in {"idle", "running", "syscall", "gcstop", "dead"}
      BY DEF IInv, TypeOK
    <3>. QED BY <1>3, <3>1, <3>2, <3>3, <3>4
  <2>2. Holders(p) = {t}
    BY <1>1, <2>1 DEF IInv, Owners
  <2>. QED BY <1>3, <2>2, FS_Singleton
<1>. QED BY <1>2, <1>3

\* A set in which all are equal has one element or none.
LEMMA AtMostOne ==
  ASSUME NEW S, \A x, y \in S : x = y
  PROVE  Cardinality(S) = IF S = {} THEN 0 ELSE 1
<1>1. CASE S = {}
  BY <1>1, FS_EmptySet
<1>2. CASE S # {}
  <2>1. PICK x : S = {x}
    BY <1>2
  <2>. QED BY <1>2, <2>1, FS_Singleton
<1>. QED BY <1>1, <1>2

\* The places of a goroutine, counted.
LEMMA OneHome ==
  ASSUME IInv, NEW g \in G
  PROVE  Cardinality({p \in P : g \in runq[p]}) + Cardinality({t \in Thread : th[t].g = g})
           + (IF g \in globrunq THEN 1 ELSE 0) <= 1
<1>. DEFINE Qs == {p \in P : g \in runq[p]}  Ts == {t \in Thread : th[t].g = g}
<1>1. Places /\ g # NoG
  BY NamesAssumption DEF IInv
<1>2. Cardinality(Qs) = IF Qs = {} THEN 0 ELSE 1
  <2>1. \A p, q \in Qs : p = q
    BY <1>1 DEF Places
  <2>. HIDE DEF Qs
  <2>. QED BY <2>1, AtMostOne
<1>3. Cardinality(Ts) = IF Ts = {} THEN 0 ELSE 1
  <2>1. \A t, u \in Ts : t = u
    BY <1>1 DEF Places
  <2>. HIDE DEF Ts
  <2>. QED BY <2>1, AtMostOne
<1>4. /\ Qs # {} => Ts = {} /\ g \notin globrunq
      /\ Ts # {} => Qs = {} /\ g \notin globrunq
  BY <1>1 DEF Places
<1>. HIDE DEF Qs, Ts
<1>5. Cardinality(Qs) + Cardinality(Ts) + (IF g \in globrunq THEN 1 ELSE 0) <= 1
  <2>1. CASE Qs # {}
    BY <1>2, <1>3, <1>4, <2>1
  <2>2. CASE Qs = {} /\ Ts # {}
    BY <1>2, <1>3, <1>4, <2>2
  <2>3. CASE Qs = {} /\ Ts = {}
    BY <1>2, <1>3, <2>3
  <2>. QED BY <2>1, <2>2, <2>3
<1>. QED BY <1>5 DEF Qs, Ts

\* The scheduler's state keeps its type; nmspinning, which findrunnable checks, and stopwait
\* never go below zero.
THEOREM TypeCorrect == Spec => []TypeOK
BY IInvHolds, PTL DEF IInv

\* A P that is not idle, in a system call, dead or stopped for the collector has one holder
\* (acquirep, releasep, retake, procresize), and a goroutine is in one queue or with one thread.
THEOREM PsAndGoroutinesInOnePlace == Spec => []OnePlace
<1>1. IInv => OnePlace
  BY OneHolder, OneHome DEF OnePlace, IInv, Idle
<1>. QED BY <1>1, IInvHolds, PTL

\* stopTheWorld counts each P that has yet to stop once, whoever stops it; when it returns, no
\* thread but its own runs with a P.
THEOREM WorldStopsWhole == Spec => []Stopped
<1>1. IInv => Stopped
  <2>. SUFFICES ASSUME IInv, NEW m \in M, At(m, "stopping") \/ At(m, "stopped")
                PROVE  /\ stopwait = Cardinality({p \in procs : status[p] # "gcstop"})
                       /\ At(m, "stopped") => \A n \in M \ {m} : th[n].p = NoP \/ InSyscall(n)
    BY DEF Stopped
  <2>1. m \in Thread /\ Stopper(m)
    BY ThreadFacts DEF Stopper
  <2>2. stopwait = Cardinality({p \in procs : status[p] # "gcstop"})
    BY <2>1 DEF IInv, World
  <2>3. ASSUME At(m, "stopped"), NEW n \in M \ {m}, th[n].p # NoP PROVE InSyscall(n)
    <3>1. n \in Thread /\ th[n].p \in P
      BY <2>3, ThreadFacts DEF State
    <3>2. ~HasIt(n, th[n].p)
      BY <2>3, <3>1, StoppedAlone
    <3>. QED BY <3>2 DEF HasIt
  <2>. QED BY <2>2, <2>3
<1>. QED BY <1>1, IInvHolds, PTL

\* The throws of schedule, startm, stopm, acquirep and releasep are dead: who spins has no
\* local work, who sleeps does not spin, and a P that is given or handed on is idle.
THEOREM SchedulerNeverThrows == Spec => []NeverThrows
<1>1. IInv => NeverThrows
  <2>. SUFFICES ASSUME IInv, NEW m \in M
                PROVE  /\ At(m, "schedule") /\ th[m].spinning => runq[th[m].p] = {}
                       /\ m \in midle => Sleeping(m) /\ ~th[m].spinning
                       /\ th[m].next # NoP => status[th[m].next] = "idle" /\ At(m, "parked")
                       /\ th[m].spinning /\ th[m].next # NoP => runq[th[m].next] = {}
                       /\ At(m, "stop") \/ At(m, "gcstop") \/ At(m, "run") \/ At(m, "schedule") =>
                            status[th[m].p] = "running"
                       /\ th[m].hand # NoP => status[th[m].hand] = "idle"
    BY DEF NeverThrows
  <2>1. m \in Thread /\ Fits(m) /\ th[m] \in State
    BY ThreadFacts
  <2>2. /\ At(m, "schedule") /\ th[m].spinning => runq[th[m].p] = {}
        /\ th[m].spinning /\ th[m].next # NoP => runq[th[m].next] = {}
    BY <2>1 DEF Fits, EmptyFor
  <2>3. m \in midle => Sleeping(m) /\ ~th[m].spinning
    BY <2>1 DEF IInv, Idle, Sleeping, At, Fits, Shape, State
  <2>4. th[m].next # NoP => status[th[m].next] = "idle" /\ At(m, "parked")
    BY <2>1 DEF IInv, Owners, PassesIt, At, Fits, Shape, State
  <2>5. th[m].hand # NoP => status[th[m].hand] = "idle"
    BY <2>1 DEF IInv, Owners, PassesIt, State
  <2>6. At(m, "stop") \/ At(m, "gcstop") \/ At(m, "run") \/ At(m, "schedule") =>
          status[th[m].p] = "running"
    BY <2>1, BusyP DEF At, HasP, Stopper
  <2>. QED BY <2>2, <2>3, <2>4, <2>5, <2>6
<1>. QED BY <1>1, IInvHolds, PTL

\* As long as the world goes on, there is no work in the global queue with every P idle, unless
\* somebody is about to start a thread.
THEOREM WorkIsAttended == Spec => []WorkAttended
BY IInvHolds, PTL DEF IInv, Attended, WorkAttended

=============================================================================
