----------------------------- MODULE Scheduler -----------------------------
(***************************************************************************)
(* runtime/proc.go: the goroutine scheduler.                               *)
(*                                                                         *)
(* Threads (Ms) run goroutines (Gs); to do so a thread has to hold a       *)
(* processor (a P), which has a queue of runnable goroutines.  A thread    *)
(* without work looks in the global queue, steals from other Ps, and then  *)
(* gives its P up and parks; who makes a goroutine runnable unparks one    *)
(* thread to look for work, unless one already does: these are "spinning". *)
(* A thread in a system call leaves its P to be taken by sysmon or by      *)
(* stopTheWorld, and looks for one when it returns.                        *)
(*                                                                         *)
(* A step is one atomic operation on nmspinning or on the status of a P,   *)
(* one operation on a queue, or one section under sched.lock with what     *)
(* nobody can see happen after it.  The queues are sets: the order in them *)
(* and runnext are left out, and so is their limit of 256 (see RunQueue).  *)
(* Left out are the goroutines of the garbage collector, those locked to a *)
(* thread, cgo, tracing, and netpoll where it does not block.              *)
(***************************************************************************)
EXTENDS Integers, FiniteSetsExt, Functions

CONSTANTS
  M,      \* threads; no more are ever created
  P,      \* the Ps of allp
  G,      \* goroutines; one that is not there yet waits like one that is blocked
  Sysmon, \* the thread that runs sysmon
  NoP, NoG,
  Calls   \* what goroutines do: "yield", "syscall", "syscallblock", "stop", "resize",
          \* and "network" if one of them has used it

ASSUME NamesAssumption == Sysmon \notin M /\ NoP \notin P /\ NoG \notin G
ASSUME FiniteAssumption == IsFiniteSet(M) /\ IsFiniteSet(P) /\ IsFiniteSet(G)

VARIABLES
  procs,      \* the Ps in use, gomaxprocs of them
  status,     \* p.status
  runq,       \* the queue of each P
  globrunq,   \* the global queue
  pidle,      \* idle Ps, npidle of them
  midle,      \* idle Ms
  nmspinning, \* as counted
  polling,    \* a thread blocks in netpoll: lastpoll is 0
  gcwaiting, stopwait,
  th          \* the threads

world == <<procs, gcwaiting, stopwait>>
queues == <<runq, globrunq>>
vars == <<world, status, queues, pidle, midle, nmspinning, polling, th>>

Npidle == Cardinality(pidle)
Thread == M \cup {Sysmon}

\* Where a thread is: "unborn" or "parked"; in a scheduling round, from "schedule" or
\* "find" until it has "got" a goroutine and can "run" it; in a call, "ready" to "undo" or
\* "handoff" to "handoff3"; in a system call, "entersyscall" to "exitsyscall"; or it has
\* the world stopped.
Labels ==
  {"unborn", "parked", "schedule", "find", "look", "spin", "spinup", "steal", "stop",
   "drop", "recheck", "getp", "respin", "poll", "polling", "polled", "inject", "stopm",
   "dropgc", "gcstop", "got", "run", "ready", "wakep", "startm", "startspin", "undo",
   "handoff", "handoff2", "handoffidle", "handoffspin", "handoff3", "entersyscall", "gcwait", "syscall", "exitfast",
   "exitsyscall", "stopping", "stopped", "sysmon"}

State ==
  [pc : Labels,
   p : P \cup {NoP},    \* m.p; in a system call, the P it had
   next : P \cup {NoP}, \* m.nextp
   g : G \cup {NoG},    \* the goroutine it runs or will run
   spinning : BOOLEAN,  \* m.spinning
   was : BOOLEAN,       \* wasSpinning
   hand : P \cup {NoP}, \* the P that its startm or handoffp is about
   ret : Labels,        \* where it goes on after stopm, or after startm
   left : SUBSET P]     \* the Ps it has not checked again since it gave its own up

TypeOK ==
  /\ procs \subseteq P /\ procs # {}
  /\ status \in [P -> {"idle", "running", "syscall", "gcstop", "dead"}]
  /\ runq \in [P -> SUBSET G] /\ globrunq \subseteq G
  /\ pidle \subseteq procs /\ midle \subseteq M
  /\ nmspinning \in Nat /\ stopwait \in Nat
  /\ polling \in BOOLEAN /\ gcwaiting \in BOOLEAN
  /\ th \in [Thread -> State]

Asleep(l) == [pc |-> l, p |-> NoP, next |-> NoP, g |-> NoG, spinning |-> FALSE,
              was |-> FALSE, hand |-> NoP, ret |-> "run", left |-> {}]

\* schedinit has run: one thread runs the main goroutine.
Init ==
  /\ procs = P /\ midle = {}
  /\ \E m \in M, p \in P, g \in G :
       /\ pidle = P \ {p}
       /\ status = [q \in P |-> IF q = p THEN "running" ELSE "idle"]
       /\ th = [t \in Thread |->
                  IF t = m THEN [Asleep("run") EXCEPT !.p = p, !.g = g]
                  ELSE Asleep(IF t = Sysmon THEN "sysmon" ELSE "unborn")]
  /\ runq = [p \in P |-> {}] /\ globrunq = {}
  /\ nmspinning = 0 /\ polling = FALSE
  /\ gcwaiting = FALSE /\ stopwait = 0

Queued == globrunq \cup UNION {runq[p] : p \in P}
Waiting == G \ (Queued \cup {th[t].g : t \in Thread})

-----------------------------------------------------------------------------
\* Parts of the steps.

At(t, l) == th[t].pc = l
Goto(t, l) == th' = [th EXCEPT ![t].pc = l]
SetStatus(p, s) == status' = [status EXCEPT ![p] = s]

\* acquirep and what the thread does next.
Acquirep(m, p, l) ==
  /\ SetStatus(p, "running")
  /\ th' = [th EXCEPT ![m].p = p, ![m].next = NoP, ![m].pc = l, ![m].ret = "run",
                      ![m].left = {}]

Got(m, g) == th' = [th EXCEPT ![m].g = g, ![m].pc = "got"]

\* globrunqget(p, limit) gives g, and a share of the global queue to p; 0 is no limit.
Globrunqget(p, g, limit) ==
  LET size == Cardinality(globrunq)
      share == Min({size, size \div Cardinality(procs) + 1})
      n == IF limit > 0 THEN Min({share, limit}) ELSE share
  IN \E batch \in kSubset(n, globrunq) :
       /\ g \in batch
       /\ globrunq' = globrunq \ batch
       /\ runq' = [runq EXCEPT ![p] = @ \cup (batch \ {g})]

\* The thread from mget, or a new one; and what it is told.
Startable == IF midle # {} THEN midle ELSE {n \in M : At(n, "unborn")}
Told(n, p, spins) ==
  [th[n] EXCEPT !.next = p, !.spinning = spins, !.pc = "parked",
                !.ret = IF At(n, "unborn") THEN "schedule" ELSE @]

\* A call returns, and its P is no longer in the thread's hands.
Returned(s) ==
  [s EXCEPT !.pc = s.ret, !.hand = NoP, !.ret = IF s.ret = "stopm" THEN "find" ELSE "run"]
Return(t) == th' = [th EXCEPT ![t] = Returned(@)]

-----------------------------------------------------------------------------
\* wakep, startm, handoffp

\* wakep: nobody spins, so this thread may wake one that does.
Wakep(t) ==
  /\ At(t, "wakep")
  /\ \/ nmspinning = 0 /\ nmspinning' = 1 /\ Goto(t, "startspin")
     \/ nmspinning > 0 /\ Return(t) /\ UNCHANGED nmspinning
  /\ UNCHANGED <<world, status, queues, pidle, midle, polling>>

\* startm: the P in hand, or an idle one, gets a thread to run it,
Startm(t) ==
  /\ At(t, "startm") \/ At(t, "startspin")
  /\ \E p \in IF th[t].hand = NoP THEN pidle ELSE {th[t].hand}, n \in Startable :
       /\ pidle' = pidle \ {p} /\ midle' = midle \ {n}
       /\ th' = [th EXCEPT ![t] = Returned(@), ![n] = Told(n, p, At(t, "startspin"))]
  /\ UNCHANGED <<world, status, queues, nmspinning, polling>>

\* or there is none: "it's okay to just undo the increment and give up".
StartmNoP(t) ==
  /\ At(t, "startm") \/ At(t, "startspin")
  /\ th[t].hand = NoP /\ pidle = {}
  /\ IF At(t, "startspin") THEN Goto(t, "undo") ELSE Return(t)
  /\ UNCHANGED <<world, status, queues, pidle, midle, nmspinning, polling>>

Undo(t) ==
  /\ At(t, "undo") /\ Return(t)
  /\ nmspinning' = nmspinning - 1
  /\ UNCHANGED <<world, status, queues, pidle, midle, polling>>

\* handoffp: there is work for the P,
HandoffWork(t) ==
  /\ At(t, "handoff")
  /\ Goto(t, IF runq[th[t].hand] # {} \/ globrunq # {} THEN "startm" ELSE "handoff2")
  /\ UNCHANGED <<world, status, queues, pidle, midle, nmspinning, polling>>

\* or nobody else is there to find work that comes: no thread spins,
HandoffSpin(t) ==
  /\ At(t, "handoff2")
  /\ Goto(t, IF nmspinning = 0 THEN "handoffidle" ELSE "handoff3")
  /\ UNCHANGED <<world, status, queues, pidle, midle, nmspinning, polling>>

\* no P is idle,
HandoffIdle(t) ==
  /\ At(t, "handoffidle")
  /\ Goto(t, IF pidle = {} THEN "handoffspin" ELSE "handoff3")
  /\ UNCHANGED <<world, status, queues, pidle, midle, nmspinning, polling>>

\* and the CAS finds that still nobody spins,
HandoffCas(t) ==
  /\ At(t, "handoffspin")
  /\ \/ nmspinning = 0 /\ nmspinning' = 1 /\ Goto(t, "startspin")
     \/ nmspinning > 0 /\ Goto(t, "handoff3") /\ UNCHANGED nmspinning
  /\ UNCHANGED <<world, status, queues, pidle, midle, polling>>

\* or, under sched.lock, the world is being stopped, or work has come, or this is the last
\* P and nobody polls the network; otherwise the P is idle.
HandoffLocked(t) ==
  LET p == th[t].hand
      needed == globrunq # {} \/ (Npidle = Cardinality(procs) - 1 /\ ~polling)
  IN
  /\ At(t, "handoff3")
  /\ \/ /\ gcwaiting
        /\ SetStatus(p, "gcstop") /\ stopwait' = stopwait - 1
        /\ Return(t) /\ UNCHANGED pidle
     \/ /\ ~gcwaiting /\ needed
        /\ Goto(t, "startm") /\ UNCHANGED <<status, stopwait, pidle>>
     \/ /\ ~gcwaiting /\ ~needed
        /\ pidle' = pidle \cup {p}
        /\ Return(t) /\ UNCHANGED <<status, stopwait>>
  /\ UNCHANGED <<procs, gcwaiting, queues, midle, nmspinning, polling>>

-----------------------------------------------------------------------------
\* stopm, gcstopm

Stopm(m) ==
  /\ At(m, "stopm") /\ Goto(m, "parked")
  /\ midle' = midle \cup {m}
  /\ UNCHANGED <<world, status, queues, pidle, nmspinning, polling>>

\* It was given a P, and goes on.
Unpark(m) ==
  /\ At(m, "parked") /\ th[m].next # NoP
  /\ Acquirep(m, th[m].next, th[m].ret)
  /\ UNCHANGED <<world, queues, pidle, midle, nmspinning, polling>>

\* Mutant: m.spinning stays set.
GcWaitingSpins(m) ==
  /\ At(m, "schedule") \/ At(m, "find")
  /\ gcwaiting
  /\ th' = [th EXCEPT ![m].pc = IF th[m].spinning THEN "dropgc" ELSE "gcstop",
                      ![m].ret = th[m].pc]
  /\ UNCHANGED <<world, status, queues, pidle, midle, nmspinning, polling>>

\* gcstopm, called at the top of schedule and of findrunnable.
GcWaiting(m) ==
  /\ At(m, "schedule") \/ At(m, "find")
  /\ gcwaiting
  /\ th' = [th EXCEPT ![m].pc = IF th[m].spinning THEN "dropgc" ELSE "gcstop",
                      ![m].spinning = FALSE, ![m].ret = th[m].pc]
  /\ UNCHANGED <<world, status, queues, pidle, midle, nmspinning, polling>>

DropGc(m) ==
  /\ At(m, "dropgc") /\ Goto(m, "gcstop")
  /\ nmspinning' = nmspinning - 1
  /\ UNCHANGED <<world, status, queues, pidle, midle, polling>>

Gcstopm(m) ==
  /\ At(m, "gcstop")
  /\ SetStatus(th[m].p, "gcstop") /\ stopwait' = stopwait - 1
  /\ th' = [th EXCEPT ![m].p = NoP, ![m].pc = "stopm"]
  /\ UNCHANGED <<procs, gcwaiting, queues, pidle, midle, nmspinning, polling>>

-----------------------------------------------------------------------------
\* schedule and findrunnable

\* Once in a while the global queue comes first.
ScheduleGlobal(m) ==
  /\ At(m, "schedule") /\ ~gcwaiting
  /\ \E g \in globrunq : Globrunqget(th[m].p, g, 1) /\ Got(m, g)
  /\ UNCHANGED <<world, status, pidle, midle, nmspinning, polling>>

RunqGet(m) ==
  /\ (At(m, "schedule") /\ ~gcwaiting) \/ At(m, "look")
  /\ \E g \in runq[th[m].p] :
       runq' = [runq EXCEPT ![th[m].p] = @ \ {g}] /\ Got(m, g)
  /\ UNCHANGED <<world, status, globrunq, pidle, midle, nmspinning, polling>>

NoLocal(m) ==
  /\ \/ At(m, "schedule") /\ ~gcwaiting /\ runq[th[m].p] = {} /\ Goto(m, "find")
     \/ At(m, "find") /\ ~gcwaiting /\ Goto(m, "look")
  /\ UNCHANGED <<world, status, queues, pidle, midle, nmspinning, polling>>

\* After its own queue the global one; and then it looks for others' work only if not
\* too many do so already.
LookGlobal(m) ==
  /\ At(m, "look") /\ runq[th[m].p] = {}
  /\ \E g \in globrunq : Globrunqget(th[m].p, g, 0) /\ Got(m, g)
  /\ UNCHANGED <<world, status, pidle, midle, nmspinning, polling>>

LookFurther(m) ==
  /\ At(m, "look") /\ runq[th[m].p] = {} /\ globrunq = {}
  /\ Goto(m, IF th[m].spinning THEN "steal" ELSE "spin")
  /\ UNCHANGED <<world, status, queues, pidle, midle, nmspinning, polling>>

EnoughSpin(m) ==
  /\ At(m, "spin")
  /\ Goto(m, IF 2 * nmspinning >= Cardinality(procs) - Npidle THEN "stop" ELSE "spinup")
  /\ UNCHANGED <<world, status, queues, pidle, midle, nmspinning, polling>>

SpinUp(m) ==
  /\ At(m, "spinup")
  /\ nmspinning' = nmspinning + 1
  /\ th' = [th EXCEPT ![m].spinning = TRUE, ![m].pc = "steal"]
  /\ UNCHANGED <<world, status, queues, pidle, midle, polling>>

\* runqsteal takes half of a queue, or runnext, which is one goroutine of it; of what
\* it took the thread runs one.
Steal(m) ==
  /\ At(m, "steal")
  /\ \E p \in procs :
       LET size == Cardinality(runq[p]) IN
       /\ p # th[m].p
       /\ \E n \in {1, size \div 2, (size + 1) \div 2} \ {0} :
          \E batch \in kSubset(n, runq[p]), g \in runq[p] :
            /\ g \in batch
            /\ runq' = [runq EXCEPT ![p] = @ \ batch, ![th[m].p] = @ \cup (batch \ {g})]
            /\ Got(m, g)
  /\ UNCHANGED <<world, status, globrunq, pidle, midle, nmspinning, polling>>

\* The victims are random, so it may miss what there is; or the world is being stopped.
StealFails(m) ==
  /\ At(m, "steal")
  /\ Goto(m, "stop") \/ (gcwaiting /\ Goto(m, "find"))
  /\ UNCHANGED <<world, status, queues, pidle, midle, nmspinning, polling>>

\* Mutant of Stop: the global queue is not looked at again.
StopUnchecked(m) ==
  /\ At(m, "stop")
  /\ \/ gcwaiting /\ Goto(m, "find") /\ UNCHANGED <<status, pidle>>
     \/ /\ ~gcwaiting
        /\ SetStatus(th[m].p, "idle")
        /\ pidle' = pidle \cup {th[m].p}
        /\ th' = [th EXCEPT ![m].p = NoP, ![m].was = th[m].spinning, ![m].left = P,
                            ![m].pc = IF th[m].spinning THEN "drop" ELSE "recheck"]
  /\ UNCHANGED <<world, queues, midle, nmspinning, polling>>

\* "return P and block", under sched.lock.
StopGlobal(m) ==
  /\ At(m, "stop") /\ ~gcwaiting
  /\ \E g \in globrunq : Globrunqget(th[m].p, g, 0) /\ Got(m, g)
  /\ UNCHANGED <<world, status, pidle, midle, nmspinning, polling>>

Stop(m) ==
  /\ At(m, "stop")
  /\ \/ gcwaiting /\ Goto(m, "find") /\ UNCHANGED <<status, pidle>>
     \/ /\ ~gcwaiting /\ globrunq = {}
        /\ SetStatus(th[m].p, "idle")
        /\ pidle' = pidle \cup {th[m].p}
        /\ th' = [th EXCEPT ![m].p = NoP, ![m].was = th[m].spinning, ![m].left = P,
                            ![m].pc = IF th[m].spinning THEN "drop" ELSE "recheck"]
  /\ UNCHANGED <<world, queues, midle, nmspinning, polling>>

\* "Delicate dance": nmspinning goes down before the queues are checked again.
Drop(m) ==
  /\ At(m, "drop")
  /\ nmspinning' = nmspinning - 1
  /\ th' = [th EXCEPT ![m].spinning = FALSE, ![m].pc = "recheck"]
  /\ UNCHANGED <<world, status, queues, pidle, midle, polling>>

NothingLeft(s) == [s EXCEPT !.was = FALSE, !.left = {}, !.pc = "poll"]

\* gomaxprocs and allp are read anew each time, as procresize may have changed them.
Recheck(m) ==
  LET left == th[m].left \cap procs IN
  /\ At(m, "recheck")
  /\ \/ \E p \in left :
          th' = IF runq[p] = {} THEN [th EXCEPT ![m].left = @ \ {p}]
                                ELSE [th EXCEPT ![m].left = {}, ![m].pc = "getp"]
     \/ left = {} /\ th' = [th EXCEPT ![m] = NothingLeft(@)]
  /\ UNCHANGED <<world, status, queues, pidle, midle, nmspinning, polling>>

\* There is work, so it goes back to it with an idle P, if there still is one.
GetP(m) ==
  /\ At(m, "getp")
  /\ \/ \E p \in pidle :
          /\ pidle' = pidle \ {p}
          /\ Acquirep(m, p, IF th[m].was THEN "respin" ELSE "find")
     \/ /\ pidle = {} /\ th' = [th EXCEPT ![m] = NothingLeft(@)]
        /\ UNCHANGED <<pidle, status>>
  /\ UNCHANGED <<world, queues, midle, nmspinning, polling>>

Respin(m) ==
  /\ At(m, "respin")
  /\ nmspinning' = nmspinning + 1
  /\ th' = [th EXCEPT ![m].spinning = TRUE, ![m].was = FALSE, ![m].pc = "find"]
  /\ UNCHANGED <<world, status, queues, pidle, midle, polling>>

\* One thread blocks in netpoll, until it gives a goroutine.
Poll(m) ==
  /\ At(m, "poll")
  /\ \/ "network" \in Calls /\ ~polling /\ polling' = TRUE /\ Goto(m, "polling")
     \/ /\ "network" \notin Calls \/ polling
        /\ th' = [th EXCEPT ![m].pc = "stopm", ![m].ret = "find"]
        /\ UNCHANGED polling
  /\ UNCHANGED <<world, status, queues, pidle, midle, nmspinning>>

PollReturns(m) ==
  /\ At(m, "polling") /\ polling' = FALSE
  /\ \E g \in Waiting : th' = [th EXCEPT ![m].g = g, ![m].pc = "polled"]
  /\ UNCHANGED <<world, status, queues, pidle, midle, nmspinning>>

\* With an idle P it runs the goroutine; otherwise it leaves it to the others.
Polled(m) ==
  /\ At(m, "polled")
  /\ \/ \E p \in pidle :
          pidle' = pidle \ {p} /\ Acquirep(m, p, "got") /\ UNCHANGED globrunq
     \/ /\ pidle = {} /\ globrunq' = globrunq \cup {th[m].g}
        /\ th' = [th EXCEPT ![m].g = NoG, ![m].pc = "inject", ![m].ret = "stopm"]
        /\ UNCHANGED <<pidle, status>>
  /\ UNCHANGED <<world, runq, midle, nmspinning, polling>>

\* injectglist, after a goroutine was put into the global queue.
Inject(t) ==
  /\ At(t, "inject")
  /\ IF pidle # {} THEN Goto(t, "startm") ELSE Return(t)
  /\ UNCHANGED <<world, status, queues, pidle, midle, nmspinning, polling>>

\* resetspinning: the last to spin wakes another, if there is a P for it.
ResetSpinning(m) ==
  /\ At(m, "got") /\ th[m].spinning
  /\ nmspinning' = nmspinning - 1
  /\ th' = [th EXCEPT ![m].spinning = FALSE,
                      ![m].pc = IF nmspinning' = 0 THEN "ready" ELSE "run"]
  /\ UNCHANGED <<world, status, queues, pidle, midle, polling>>

Execute(m) ==
  /\ At(m, "got") /\ ~th[m].spinning /\ Goto(m, "run")
  /\ UNCHANGED <<world, status, queues, pidle, midle, nmspinning, polling>>

-----------------------------------------------------------------------------
\* What goroutines do.

\* ready or newproc: the goroutine goes into the queue before nmspinning is read.
Ready(m) ==
  /\ At(m, "run") /\ Goto(m, "ready")
  /\ \E g \in Waiting : runq' = [runq EXCEPT ![th[m].p] = @ \cup {g}]
  /\ UNCHANGED <<world, status, globrunq, pidle, midle, nmspinning, polling>>

\* Is there an idle P?  wakep reads nmspinning.
ReadyWakes(m) ==
  /\ At(m, "ready") /\ Goto(m, IF pidle # {} THEN "wakep" ELSE "run")
  /\ UNCHANGED <<world, status, queues, pidle, midle, nmspinning, polling>>

\* It parks or exits; or gives way to others, or is preempted.
Park(m) ==
  /\ At(m, "run")
  /\ th' = [th EXCEPT ![m].g = NoG, ![m].pc = "schedule"]
  /\ globrunq' = globrunq \/ ("yield" \in Calls /\ globrunq' = globrunq \cup {th[m].g})
  /\ UNCHANGED <<world, status, runq, pidle, midle, nmspinning, polling>>

EnterSyscall(m) ==
  /\ At(m, "run") /\ "syscall" \in Calls
  /\ Goto(m, "entersyscall") /\ SetStatus(th[m].p, "syscall")
  /\ UNCHANGED <<world, queues, pidle, midle, nmspinning, polling>>

EnterSyscallCheck(m) ==
  /\ At(m, "entersyscall") /\ Goto(m, IF gcwaiting THEN "gcwait" ELSE "syscall")
  /\ UNCHANGED <<world, status, queues, pidle, midle, nmspinning, polling>>

\* Mutant: no look at who has the P.
GcWaitBlindly(m) ==
  /\ At(m, "gcwait") /\ Goto(m, "syscall")
  /\ IF stopwait > 0
       THEN SetStatus(th[m].p, "gcstop") /\ stopwait' = stopwait - 1
       ELSE UNCHANGED <<status, stopwait>>
  /\ UNCHANGED <<procs, gcwaiting, queues, pidle, midle, nmspinning, polling>>

\* entersyscall_gcwait: the P is stopped, unless somebody has taken it already.
GcWait(m) ==
  /\ At(m, "gcwait") /\ Goto(m, "syscall")
  /\ IF stopwait > 0 /\ status[th[m].p] = "syscall"
       THEN SetStatus(th[m].p, "gcstop") /\ stopwait' = stopwait - 1
       ELSE UNCHANGED <<status, stopwait>>
  /\ UNCHANGED <<procs, gcwaiting, queues, pidle, midle, nmspinning, polling>>

EnterSyscallBlock(m) ==
  /\ At(m, "run") /\ "syscallblock" \in Calls
  /\ SetStatus(th[m].p, "idle")
  /\ th' = [th EXCEPT ![m].p = NoP, ![m].hand = th[m].p, ![m].pc = "handoff",
                      ![m].ret = "syscall"]
  /\ UNCHANGED <<world, queues, pidle, midle, nmspinning, polling>>

\* Mutant: it keeps the P it had, whoever has it now.
ExitSyscallFastBlindly(m) ==
  /\ At(m, "syscall")
  /\ \/ /\ th[m].p # NoP
        /\ SetStatus(th[m].p, "running") /\ Goto(m, "run")
     \/ /\ th[m].p = NoP
        /\ Goto(m, "exitfast")
        /\ UNCHANGED status
  /\ UNCHANGED <<world, queues, pidle, midle, nmspinning, polling>>

\* exitsyscallfast takes the P it had, if that is in a system call; whosever.
ExitSyscallFast(m) ==
  /\ At(m, "syscall")
  /\ \/ /\ th[m].p # NoP /\ status[th[m].p] = "syscall"
        /\ SetStatus(th[m].p, "running") /\ Goto(m, "run")
     \/ /\ th[m].p # NoP => status[th[m].p] # "syscall"
        /\ th' = [th EXCEPT ![m].p = NoP, ![m].pc = "exitfast"]
        /\ UNCHANGED status
  /\ UNCHANGED <<world, queues, pidle, midle, nmspinning, polling>>

\* Any idle P, first by exitsyscallfast_pidle and then by exitsyscall0, which otherwise
\* leaves the goroutine to the others.
ExitSyscallIdle(m) ==
  /\ At(m, "exitfast") \/ At(m, "exitsyscall")
  /\ \E p \in pidle : pidle' = pidle \ {p} /\ Acquirep(m, p, "run")
  /\ UNCHANGED <<world, queues, midle, nmspinning, polling>>

ExitSyscall0(m) ==
  /\ pidle = {}
  /\ \/ At(m, "exitfast") /\ Goto(m, "exitsyscall") /\ UNCHANGED globrunq
     \/ /\ At(m, "exitsyscall")
        /\ globrunq' = globrunq \cup {th[m].g}
        /\ th' = [th EXCEPT ![m].g = NoG, ![m].pc = "stopm", ![m].ret = "schedule"]
  /\ UNCHANGED <<world, status, runq, pidle, midle, nmspinning, polling>>

-----------------------------------------------------------------------------
\* stopTheWorld and startTheWorld

\* Others wait for worldsema.  Ps that are idle or in a system call stop here and now.
StopTheWorld(m) ==
  /\ At(m, "run") /\ "stop" \in Calls
  /\ \A n \in M : ~At(n, "stopping") /\ ~At(n, "stopped")
  /\ LET taken == {th[m].p} \cup pidle \cup {p \in procs : status[p] = "syscall"} IN
     /\ stopwait' = Cardinality(procs) - Cardinality(taken)
     /\ status' = [p \in P |-> IF p \in taken THEN "gcstop" ELSE status[p]]
  /\ gcwaiting' = TRUE /\ pidle' = {}
  /\ Goto(m, "stopping")
  /\ UNCHANGED <<procs, queues, midle, nmspinning, polling>>

WorldStops(m) ==
  /\ At(m, "stopping") /\ stopwait = 0 /\ Goto(m, "stopped")
  /\ UNCHANGED <<world, status, queues, pidle, midle, nmspinning, polling>>

NewProcs == IF "resize" \in Calls THEN (SUBSET P) \ {{}} ELSE {procs}

\* startTheWorldWithSema and procresize: what was in queues of Ps no longer in use goes to
\* the global one; a P with work gets a thread, and the others are idle.
StartTheWorld(m) ==
  /\ At(m, "stopped")
  /\ \E new \in NewProcs :
     \E own \in IF th[m].p \in new THEN {th[m].p} ELSE new :
     LET busy == {p \in new \ {own} : runq[p] # {}}
         free == midle \cup {n \in M : At(n, "unborn")}
     IN \E starts \in kSubset(Cardinality(busy), free) :
        \E of \in Bijection(starts, busy) :
          /\ starts \subseteq midle \/ midle \subseteq starts
          /\ procs' = new
          /\ status' = [p \in P |-> IF p \notin new THEN "dead"
                                    ELSE IF p = own THEN "running" ELSE "idle"]
          /\ globrunq' = globrunq \cup UNION {runq[p] : p \in P \ new}
          /\ runq' = [p \in P |-> IF p \in new THEN runq[p] ELSE {}]
          /\ pidle' = new \ ({own} \cup busy)
          /\ midle' = midle \ starts
          /\ th' = [n \in Thread |->
                      IF n \in starts THEN Told(n, of[n], FALSE)
                      ELSE IF n = m THEN [th[m] EXCEPT !.p = own, !.pc = "ready"]
                      ELSE th[n]]
  /\ gcwaiting' = FALSE
  /\ UNCHANGED <<stopwait, nmspinning, polling>>

-----------------------------------------------------------------------------
\* sysmon

\* retake: a P that is in a system call for long goes to another thread.
Retake ==
  /\ At(Sysmon, "sysmon")
  /\ \E p \in procs :
       /\ status[p] = "syscall" /\ SetStatus(p, "idle")
       /\ th' = [th EXCEPT ![Sysmon].pc = "handoff", ![Sysmon].hand = p,
                           ![Sysmon].ret = "sysmon"]
  /\ UNCHANGED <<world, queues, pidle, midle, nmspinning, polling>>

\* It polls the network when nobody does for long.
SysmonPoll ==
  /\ At(Sysmon, "sysmon") /\ "network" \in Calls /\ ~polling
  /\ \E g \in Waiting : globrunq' = globrunq \cup {g}
  /\ th' = [th EXCEPT ![Sysmon].pc = "inject", ![Sysmon].ret = "sysmon"]
  /\ UNCHANGED <<world, status, runq, pidle, midle, nmspinning, polling>>

-----------------------------------------------------------------------------
Start(t) ==
  \/ Wakep(t) \/ Startm(t) \/ StartmNoP(t) \/ Undo(t) \/ Inject(t)
  \/ HandoffWork(t) \/ HandoffSpin(t) \/ HandoffIdle(t) \/ HandoffCas(t) \/ HandoffLocked(t)

Round(m) ==
  \/ Stopm(m) \/ Unpark(m) \/ GcWaiting(m) \/ DropGc(m) \/ Gcstopm(m)
  \/ ScheduleGlobal(m) \/ RunqGet(m) \/ NoLocal(m) \/ LookGlobal(m) \/ LookFurther(m)
  \/ EnoughSpin(m) \/ SpinUp(m) \/ Steal(m) \/ StealFails(m)
  \/ StopGlobal(m) \/ Stop(m) \/ Drop(m) \/ Recheck(m) \/ GetP(m) \/ Respin(m)
  \/ Poll(m) \/ PollReturns(m) \/ Polled(m) \/ ResetSpinning(m) \/ Execute(m)

Goroutine(m) ==
  \/ Ready(m) \/ ReadyWakes(m) \/ Park(m)
  \/ EnterSyscall(m) \/ EnterSyscallCheck(m) \/ GcWait(m) \/ EnterSyscallBlock(m)
  \/ ExitSyscallFast(m) \/ ExitSyscallIdle(m) \/ ExitSyscall0(m)
  \/ StopTheWorld(m) \/ WorldStops(m) \/ StartTheWorld(m)

Next ==
  \/ \E t \in Thread : Start(t)
  \/ \E m \in M : Round(m) \/ Goroutine(m)
  \/ Retake \/ SysmonPoll

Spec == Init /\ [][Next]_vars

-----------------------------------------------------------------------------
InSyscall(t) == th[t].pc \in {"entersyscall", "gcwait", "syscall"}

\* Those who have the P p: who holds it, will be given it, or hands it on.
Holders(p) == {t \in Thread : \/ th[t].p = p /\ ~InSyscall(t)
                              \/ th[t].next = p \/ th[t].hand = p}

StoppedForGood(p) == status[p] = "gcstop" /\ Holders(p) = {}

\* OnePlace: a P is idle, or stopped, dead or left in a system call, or one thread has it;
\* and a runnable goroutine is in one queue or one thread has it.  Whatever sysmon,
\* system calls, stopTheWorld and procresize do with Ps at the same time, no two threads
\* share one, and no goroutine is lost or runs twice.
OnePlace ==
  /\ TypeOK
  /\ \A p \in P :
       Cardinality(Holders(p)) =
         IF p \in pidle \/ status[p] \in {"syscall", "dead"} \/ StoppedForGood(p) THEN 0 ELSE 1
  /\ \A p \in pidle : status[p] = "idle" /\ runq[p] = {}
  /\ \A g \in G :
       Cardinality({p \in P : g \in runq[p]}) + Cardinality({t \in Thread : th[t].g = g})
         + (IF g \in globrunq THEN 1 ELSE 0) <= 1

Sleeping(t) == At(t, "parked") /\ th[t].next = NoP

\* SpinningCounted: nmspinning is the number of threads that spin, and of those that are
\* about to start one that will; so it is 0 when nobody looks for work.
SpinningCounted ==
  nmspinning =
    Cardinality({t \in Thread : \/ th[t].spinning
                                \/ At(t, "dropgc") \/ At(t, "startspin") \/ At(t, "undo")})

\* Stopped: while the world is being stopped, stopwait is the number of Ps that are not;
\* when it is stopped all are, and nobody but the stopper runs goroutines.
Stopped ==
  \A m \in M :
    At(m, "stopping") \/ At(m, "stopped") =>
      /\ stopwait = Cardinality({p \in procs : status[p] # "gcstop"})
      /\ At(m, "stopped") => \A n \in M \ {m} : th[n].p = NoP \/ InSyscall(n)

\* NeverThrows: schedule finds no local work while it spins; startm finds a parked thread
\* with no P that does not spin; acquirep and releasep find their P idle, and running.
NeverThrows ==
  \A m \in M :
    /\ At(m, "schedule") /\ th[m].spinning => runq[th[m].p] = {}
    /\ m \in midle => Sleeping(m) /\ ~th[m].spinning
    /\ th[m].next # NoP => status[th[m].next] = "idle" /\ At(m, "parked")
    /\ th[m].spinning /\ th[m].next # NoP => runq[th[m].next] = {}
    /\ At(m, "stop") \/ At(m, "gcstop") \/ At(m, "run") \/ At(m, "schedule") =>
         status[th[m].p] = "running"
    /\ th[m].hand # NoP => status[th[m].hand] = "idle"

\* WorkAttended: work in the global queue is not forgotten: some P is not idle, or somebody
\* is about to start a thread; and work is in the queue of no idle P (OnePlace).  Who
\* makes work wakes nobody if nmspinning says that somebody looks; so it must be right.
WorkAttended ==
  /\ SpinningCounted
  /\ globrunq # {} /\ ~gcwaiting =>
       \/ pidle # procs
       \/ \E t \in Thread : At(t, "inject") \/ At(t, "startm")

Quiet ==
  \A t \in Thread : Sleeping(t) \/ th[t].pc \in {"unborn", "run", "syscall", "polling", "sysmon"}

\* FullyUsed: "guarantees eventual maximal CPU parallelism utilization": when no thread is
\* on its way through the scheduler, no P is idle while a goroutine waits in a queue.  It
\* is not an invariant, and no run checks it: a yield puts its goroutine into the global
\* queue and wakes nobody, and who undoes its increment of nmspinning in startm has kept
\* others from waking a thread meanwhile.
FullyUsed == Quiet /\ ~gcwaiting => pidle = {} \/ Queued = {}
=============================================================================
