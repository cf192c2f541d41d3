-------------------------------- MODULE Sema --------------------------------
(***************************************************************************)
(* runtime/sema.go: semacquire and semrelease on one semaRoot of semtable. *)
(* Addresses are hashed into 251 roots, so a root serves several; Addr is  *)
(* the addresses of this root.                                             *)
(*                                                                         *)
(* The tokens are taken and added by atomic instructions, outside the      *)
(* root's lock as well as under it, and semrelease reads nwait without the *)
(* lock to skip it when nobody waits.  What keeps a waiter from being      *)
(* missed is an order: the waiter raises nwait before it looks at the      *)
(* tokens again, the releaser adds its token before it looks at nwait.     *)
(***************************************************************************)
EXTENDS Naturals, FiniteSets, SequencesExt

CONSTANTS
  G,         \* goroutines
  Addr,      \* the addresses that share the root
  MaxSem,    \* bound: tokens at one address
  NoG,       \* no goroutine
  NoAddr     \* no address

ASSUME MaxSemAssumption == MaxSem \in Nat \ {0}
ASSUME NoneAssumption == NoG \notin G /\ NoAddr \notin Addr

VARIABLES
  sem,       \* *addr
  lock,      \* who holds root.lock, or NoG
  nwait,     \* root.nwait
  queue,     \* root.head .. root.tail, a sudog as <<s.g, s.elem>>
  pc,        \* where each goroutine is
  addr,      \* the argument of its call
  wake       \* in semrelease, s.g: whom to ready

vars == <<sem, lock, nwait, queue, pc, addr, wake>>

A == INSTANCE Semaphore WITH waiting <-
       [g \in G |-> IF pc[g] \in {"easy", "lock", "recheck", "parked", "woken"}
                    THEN addr[g] ELSE NoAddr]

\* "idle" outside; semacquire: "easy", "lock", "recheck", "leave", "parked",
\* "woken"; semrelease: "loadnwait", "search", "ready".
PC == {"idle", "easy", "lock", "recheck", "leave", "parked", "woken",
       "loadnwait", "search", "ready"}

Goto(g, l) == pc' = [pc EXCEPT ![g] = l]
At(l) == {g \in G : pc[g] = l}
Queued(a) == {i \in DOMAIN queue : queue[i][2] = a}

TypeOK ==
  /\ sem \in [Addr -> 0..MaxSem]
  /\ lock \in G \cup {NoG}
  /\ nwait \in Nat
  /\ queue \in Seq(G \X Addr)
  /\ pc \in [G -> PC]
  /\ addr \in [G -> Addr \cup {NoAddr}]
  /\ wake \in [G -> G \cup {NoG}]

Init ==
  /\ sem = [a \in Addr |-> 0]
  /\ lock = NoG
  /\ nwait = 0
  /\ queue = <<>>
  /\ pc = [g \in G |-> "idle"]
  /\ addr = [g \in G |-> NoAddr]
  /\ wake = [g \in G |-> NoG]

-----------------------------------------------------------------------------
\* cansemacquire(addr): its load and compare-and-swap loop is one atomic step.
Cansemacquire(g) ==
  /\ sem[addr[g]] > 0
  /\ sem' = [sem EXCEPT ![addr[g]] = @ - 1]

Semacquire(g, a) ==
  /\ pc[g] = "idle"
  /\ addr' = [addr EXCEPT ![g] = a]
  /\ Goto(g, "easy")
  /\ UNCHANGED <<sem, lock, nwait, queue, wake>>

\* The tries without the lock: on entry, and after a wakeup.
TryAcquire(g) ==
  /\ pc[g] \in {"easy", "woken"}
  /\ \/ Cansemacquire(g) /\ Goto(g, "idle")
     \/ sem[addr[g]] = 0 /\ Goto(g, "lock") /\ UNCHANGED sem
  /\ UNCHANGED <<lock, nwait, queue, addr, wake>>

LockRoot(g) ==
  /\ pc[g] = "lock" /\ lock = NoG
  /\ lock' = g
  /\ nwait' = nwait + 1
  /\ Goto(g, "recheck")
  /\ UNCHANGED <<sem, queue, addr, wake>>

\* Mutant: sleep without looking at the tokens again.
RecheckNever(g) ==
  /\ pc[g] = "recheck"
  /\ queue' = Append(queue, <<g, addr[g]>>)
  /\ lock' = NoG
  /\ Goto(g, "parked")
  /\ UNCHANGED <<sem, nwait, addr, wake>>

\* The second cansemacquire, or root.queue and goparkunlock.  The park is over
\* before the lock is given back, so whoever dequeues finds a parked goroutine.
Recheck(g) ==
  /\ pc[g] = "recheck"
  /\ \/ /\ Cansemacquire(g)
        /\ Goto(g, "leave")
        /\ UNCHANGED <<lock, queue>>
     \/ /\ sem[addr[g]] = 0
        /\ queue' = Append(queue, <<g, addr[g]>>)
        /\ lock' = NoG
        /\ Goto(g, "parked")
        /\ UNCHANGED sem
  /\ UNCHANGED <<nwait, addr, wake>>

\* It got its token after all: nwait goes back, and the lock.
Leave(g) ==
  /\ pc[g] = "leave"
  /\ nwait' = nwait - 1
  /\ lock' = NoG
  /\ Goto(g, "idle")
  /\ UNCHANGED <<sem, queue, addr, wake>>

-----------------------------------------------------------------------------
Semrelease(g, a) ==
  /\ pc[g] = "idle"
  /\ sem[a] < MaxSem                 \* the bound
  /\ sem' = [sem EXCEPT ![a] = @ + 1]
  /\ addr' = [addr EXCEPT ![g] = a]
  /\ Goto(g, "loadnwait")
  /\ UNCHANGED <<lock, nwait, queue, wake>>

\* The easy case, decided by a load of nwait without the lock.
LoadNwait(g) ==
  /\ pc[g] = "loadnwait"
  /\ Goto(g, IF nwait = 0 THEN "idle" ELSE "search")
  /\ UNCHANGED <<sem, lock, nwait, queue, addr, wake>>

\* Mutant: wake the head of the root's queue whatever its address.
SearchHead(g) ==
  /\ pc[g] = "search" /\ lock = NoG
  /\ \/ /\ queue # <<>>
        /\ nwait' = nwait - 1
        /\ queue' = Tail(queue)
        /\ wake' = [wake EXCEPT ![g] = queue[1][1]]
        /\ Goto(g, "ready")
     \/ /\ queue = <<>>
        /\ Goto(g, "idle")
        /\ UNCHANGED <<nwait, queue, wake>>
  /\ UNCHANGED <<sem, lock, addr>>

\* The locked section: the first waiter of this address, if any (with nwait
\* zero, the second early return, there is none).  Only holders of the lock
\* change nwait and the queue, so the section is one step.
Search(g) ==
  /\ pc[g] = "search" /\ lock = NoG
  /\ \/ \E i \in Queued(addr[g]) :
          /\ \A j \in Queued(addr[g]) : i <= j
          /\ nwait' = nwait - 1
          /\ queue' = RemoveAt(queue, i)
          /\ wake' = [wake EXCEPT ![g] = queue[i][1]]
          /\ Goto(g, "ready")
     \/ /\ Queued(addr[g]) = {}
        /\ Goto(g, "idle")
        /\ UNCHANGED <<nwait, queue, wake>>
  /\ UNCHANGED <<sem, lock, addr>>

\* goready(s.g), after the unlock.
Goready(g) ==
  /\ pc[g] = "ready"
  /\ pc' = [pc EXCEPT ![g] = "idle", ![wake[g]] = "woken"]
  /\ wake' = [wake EXCEPT ![g] = NoG]
  /\ UNCHANGED <<sem, lock, nwait, queue, addr>>

Call(g) == \E a \in Addr : Semacquire(g, a) \/ Semrelease(g, a)
Run(g) == TryAcquire(g) \/ Recheck(g) \/ Leave(g) \/ LoadNwait(g) \/ Goready(g)
TakeLock(g) == LockRoot(g) \/ Search(g)
Next == \E g \in G : Call(g) \/ Run(g) \/ TakeLock(g)

SafeSpec == Init /\ [][Next]_vars

\* A runnable goroutine runs.  Of root.lock only what Lock promises is assumed:
\* when it is free and wanted somebody gets it, not that everybody does.
Spec ==
  /\ SafeSpec
  /\ \A g \in G : WF_vars(Run(g))
  /\ WF_vars(\E g \in G : TakeLock(g))

-----------------------------------------------------------------------------
\* nwait counts the queue and whoever is between raising it and parking, so a
\* releaser that reads zero (sema.go:122) misses nobody who is parked.
NwaitCounts == nwait = Len(queue) + Cardinality(At("recheck") \cup At("leave"))

\* goready finds its goroutine parked, out of the queue, and readied by nobody
\* else: the throw "bad g->status in ready" (proc.go:531) is dead.
ReadyFindsParked ==
  \A g \in At("ready") :
    /\ pc[wake[g]] = "parked"
    /\ \A i \in DOMAIN queue : queue[i][1] # wake[g]
    /\ \A h \in At("ready") : wake[h] = wake[g] => h = g

\* A releaser still to wake somebody of its address, or a woken waiter still to
\* try, carries the news of one token.
Carriers(a) ==
  {g \in G : addr[g] = a /\ pc[g] \in {"loadnwait", "search", "ready", "woken"}}

\* No missed wakeup (sema.go:95, 120): while somebody sleeps on an address each
\* of its tokens is known to somebody awake, although tokens are also taken by
\* goroutines that never slept and releases of colliding addresses interleave;
\* nwait, the queue and the wakeups under way agree.
NoMissedWakeup ==
  /\ TypeOK
  /\ NwaitCounts
  /\ ReadyFindsParked
  /\ \A a \in Addr : Queued(a) # {} => sem[a] <= Cardinality(Carriers(a))

\* The semaphores of a root are Semaphore's, whatever else hashes to the root.
ImplementsSemaphore == A!Spec

=============================================================================
