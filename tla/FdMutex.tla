------------------------------ MODULE FdMutex ------------------------------
(***************************************************************************)
(* net/fd_mutex.go and its use by netFD in net/fd_unix.go.  The mutex of a *)
(* descriptor lets one reader and one writer in at a time, counts who uses *)
(* the descriptor, and lets Close in at any time: Close fails all later    *)
(* calls and all waiters, and whoever gives up the last reference destroys *)
(* the descriptor, so that its number is not reused under somebody's feet. *)
(*                                                                         *)
(* Every method loads the word, decides, and starts over when the          *)
(* compare-and-swap finds another value: one step.  The semaphores are     *)
(* acquired and released outside of it.                                    *)
(***************************************************************************)
EXTENDS Naturals, FiniteSets

CONSTANTS
  G,         \* goroutines
  Mask       \* the largest value of the three counters in the word, 2^20 - 1

ASSUME MaskAssumption == Mask \in Nat \ {0}

Mode == {"r", "w"}

VARIABLES
  closed,    \* mutexClosed
  lock,      \* mutexRLock, mutexWLock
  ref,       \* the references
  wait,      \* the read and write waiters
  sema,      \* mu.rsema, mu.wsema
  open,      \* fd.sysfd is a descriptor of ours
  evicted,   \* fd.pd.Evict has unblocked the I/O on fd
  pc,        \* where each goroutine is
  mode,      \* the argument of its RWLock and RWUnlock
  left,      \* how many waiters it has still to wake
  last       \* its RWUnlock or Decref gave up the last reference

vars == <<closed, lock, ref, wait, sema, open, evicted, pc, mode, left, last>>
word == <<closed, lock, ref, wait>>

\* "idle"; "sleep", "woken": a waiter in RWLock; "io": between RWLock and
\* RWUnlock; "misc": between Incref and Decref; "wake": in IncrefAndClose, to
\* wake the waiters; "evict": in Close, before its Evict, and "decref", after;
\* "release": in RWUnlock, to wake a waiter; "destroy".
PC == {"idle", "sleep", "woken", "io", "misc", "wake", "evict", "decref",
       "release", "destroy"}

\* Those who hold a reference.
RefPC == {"io", "misc", "wake", "evict", "decref"}

TypeOK ==
  /\ closed \in BOOLEAN /\ lock \in [Mode -> BOOLEAN]
  /\ ref \in 0..Mask /\ wait \in [Mode -> 0..Mask]
  /\ sema \in [Mode -> Nat]
  /\ open \in BOOLEAN /\ evicted \in BOOLEAN
  /\ pc \in [G -> PC] /\ mode \in [G -> Mode]
  /\ left \in [G -> [Mode -> Nat]] /\ last \in [G -> BOOLEAN]

None == [m \in Mode |-> 0]

Init ==
  /\ closed = FALSE /\ lock = [m \in Mode |-> FALSE]
  /\ ref = 0 /\ wait = None
  /\ sema = None
  /\ open = TRUE /\ evicted = FALSE
  /\ pc = [g \in G |-> "idle"] /\ mode = [g \in G |-> "r"]
  /\ left = [g \in G |-> None] /\ last = [g \in G |-> FALSE]

Goto(g, l) == pc' = [pc EXCEPT ![g] = l]

-----------------------------------------------------------------------------
\* A call that fails: the descriptor is closed, or a counter is at its limit
\* ("net: inconsistent fdMutex"); nothing is acquired.
Fail(g) == Goto(g, "idle") /\ UNCHANGED word

Full(n) == n = Mask

Incref(g) ==
  /\ pc[g] = "idle"
  /\ \/ (closed \/ Full(ref)) /\ Fail(g)
     \/ /\ ~closed /\ ~Full(ref)
        /\ ref' = ref + 1
        /\ Goto(g, "misc")
        /\ UNCHANGED <<closed, lock, wait>>
  /\ UNCHANGED <<sema, open, evicted, mode, left, last>>

\* Mutant: the waiters stay counted and asleep.
IncrefAndCloseLeaves(g) ==
  /\ pc[g] = "idle"
  /\ \/ (closed \/ Full(ref)) /\ Fail(g) /\ UNCHANGED left
     \/ /\ ~closed /\ ~Full(ref)
        /\ closed' = TRUE
        /\ ref' = ref + 1
        /\ left' = [left EXCEPT ![g] = [None EXCEPT !["r"] = wait["r"]]]
        /\ wait' = [wait EXCEPT !["r"] = 0]
        /\ Goto(g, "wake")
        /\ UNCHANGED lock
  /\ UNCHANGED <<sema, open, evicted, mode, last>>

IncrefAndClose(g) ==
  /\ pc[g] = "idle"
  /\ \/ (closed \/ Full(ref)) /\ Fail(g) /\ UNCHANGED left
     \/ /\ ~closed /\ ~Full(ref)
        /\ closed' = TRUE
        /\ ref' = ref + 1
        /\ wait' = None
        /\ left' = [left EXCEPT ![g] = wait]
        /\ Goto(g, "wake")
        /\ UNCHANGED lock
  /\ UNCHANGED <<sema, open, evicted, mode, last>>

\* IncrefAndClose's releases, those of the readers first.
Wake(g) ==
  /\ pc[g] = "wake"
  /\ \/ \E m \in Mode :
          /\ left[g][m] > 0 /\ (m = "w" => left[g]["r"] = 0)
          /\ sema' = [sema EXCEPT ![m] = @ + 1]
          /\ left' = [left EXCEPT ![g][m] = @ - 1]
          /\ UNCHANGED pc
     \/ /\ left[g] = None
        /\ Goto(g, "evict")
        /\ UNCHANGED <<sema, left>>
  /\ UNCHANGED <<word, open, evicted, mode, last>>

\* fd.pd.Evict.
Evict(g) ==
  /\ pc[g] = "evict"
  /\ evicted' = TRUE
  /\ Goto(g, "decref")
  /\ UNCHANGED <<word, sema, open, mode, left, last>>

\* Decref and RWUnlock panic when the word has no reference, or no lock, for them
\* to give back; RefsCounted and OneHolder say that it always has.

\* Mutants: the last user is not told; closed or not.
LastNever(c, r) == FALSE
LastOfAny(c, r) == r = 0
LastReference(c, r) == c /\ r = 0

Decref(g) ==
  /\ pc[g] \in {"misc", "decref"} /\ ref > 0
  /\ ref' = ref - 1
  /\ Goto(g, IF LastReference(closed, ref') THEN "destroy" ELSE "idle")
  /\ UNCHANGED <<closed, lock, wait, sema, open, evicted, mode, left, last>>

-----------------------------------------------------------------------------
RWLock(g, m) ==
  /\ pc[g] = "idle" \/ (pc[g] = "woken" /\ mode[g] = m)
  /\ \/ /\ closed \/ Full(IF lock[m] THEN wait[m] ELSE ref)
        /\ Fail(g)
     \/ /\ ~closed /\ ~lock[m] /\ ~Full(ref)
        /\ lock' = [lock EXCEPT ![m] = TRUE]
        /\ ref' = ref + 1
        /\ Goto(g, "io")
        /\ UNCHANGED <<closed, wait>>
     \/ /\ ~closed /\ lock[m] /\ ~Full(wait[m])
        /\ wait' = [wait EXCEPT ![m] = @ + 1]
        /\ Goto(g, "sleep")
        /\ UNCHANGED <<closed, lock, ref>>
  /\ mode' = [mode EXCEPT ![g] = m]
  /\ UNCHANGED <<sema, open, evicted, left, last>>

\* runtime_Semacquire returns, and the loop starts over.
Semacquire(g) == LET m == mode[g] IN
  /\ pc[g] = "sleep" /\ sema[m] > 0
  /\ sema' = [sema EXCEPT ![m] = @ - 1]
  /\ Goto(g, "woken")
  /\ UNCHANGED <<word, open, evicted, mode, left, last>>

\* Mutant: the woken waiter stays counted.
RWUnlockKeepsCount(g) == LET m == mode[g] IN
  /\ pc[g] = "io" /\ lock[m] /\ ref > 0
  /\ lock' = [lock EXCEPT ![m] = FALSE]
  /\ ref' = ref - 1
  /\ last' = [last EXCEPT ![g] = LastReference(closed, ref')]
  /\ Goto(g, IF wait[m] > 0 THEN "release" ELSE IF last'[g] THEN "destroy" ELSE "idle")
  /\ UNCHANGED <<closed, wait, sema, open, evicted, mode, left>>

\* Drop lock and reference, and take a waiter of the same kind off the count.
RWUnlock(g) == LET m == mode[g] IN
  /\ pc[g] = "io" /\ lock[m] /\ ref > 0
  /\ lock' = [lock EXCEPT ![m] = FALSE]
  /\ ref' = ref - 1
  /\ wait' = IF wait[m] > 0 THEN [wait EXCEPT ![m] = @ - 1] ELSE wait
  /\ last' = [last EXCEPT ![g] = LastReference(closed, ref')]
  /\ Goto(g, IF wait[m] > 0 THEN "release"
             ELSE IF last'[g] THEN "destroy" ELSE "idle")
  /\ UNCHANGED <<closed, sema, open, evicted, mode, left>>

\* RWUnlock's release of that waiter.
Semrelease(g) ==
  /\ pc[g] = "release"
  /\ sema' = [sema EXCEPT ![mode[g]] = @ + 1]
  /\ Goto(g, IF last[g] THEN "destroy" ELSE "idle")
  /\ UNCHANGED <<word, open, evicted, mode, left, last>>

\* fd.destroy.
Destroy(g) ==
  /\ pc[g] = "destroy"
  /\ open' = FALSE
  /\ last' = [last EXCEPT ![g] = FALSE]
  /\ Goto(g, "idle")
  /\ UNCHANGED <<word, sema, evicted, mode, left>>

Call(g) == Incref(g) \/ IncrefAndClose(g) \/ (pc[g] = "idle" /\ \E m \in Mode : RWLock(g, m))
Run(g) == \/ Wake(g) \/ Evict(g) \/ Decref(g) \/ Semrelease(g) \/ Destroy(g)
          \/ (pc[g] = "woken" /\ RWLock(g, mode[g]))
Next == \E g \in G : Call(g) \/ Run(g) \/ RWUnlock(g) \/ Semacquire(g)

SafeSpec == Init /\ [][Next]_vars

\* Goroutines run inside the methods, and the semaphores keep their promise.  An
\* I/O may block for ever, but not on an evicted descriptor.
Spec ==
  /\ SafeSpec
  /\ \A g \in G : WF_vars(Run(g)) /\ WF_vars(evicted /\ RWUnlock(g))
  /\ \A m \in Mode : WF_vars(\E g \in G : mode[g] = m /\ Semacquire(g))

-----------------------------------------------------------------------------
At(l) == {g \in G : pc[g] = l}

\* The lock bits are locks: one reader and one writer.
OneHolder == \A m \in Mode :
  /\ lock[m] <=> \E g \in At("io") : mode[g] = m
  /\ \A g, h \in At("io") : mode[g] = m /\ mode[h] = m => g = h

\* The reference count is the number of users, short of the limit and at it.
RefsCounted == ref = Cardinality({g \in G : pc[g] \in RefPC})

\* fd.sysfd is closed when nobody uses it any more, by one goroutine, once:
\* "otherwise fd can be closed under their feet" (fd_mutex.go:42).
DestroyedUnused ==
  /\ ~open => closed /\ \A g \in G : pc[g] \notin RefPC \cup {"destroy"}
  /\ \A g, h \in G : pc[g] = "destroy" /\ pc[h] = "destroy" => g = h
  /\ \A g \in G : pc[g] = "destroy" =>
       closed /\ evicted /\ \A h \in G : pc[h] \notin RefPC

\* Each sleeper is in the word's count, or has a release on its way.
WaitersCounted == \A m \in Mode :
  LET ofMode(S) == {g \in S : mode[g] = m} IN
  Cardinality(ofMode(At("sleep"))) =
    wait[m] + sema[m] + Cardinality(ofMode(At("release")))
      + (IF At("wake") = {} THEN 0 ELSE left[CHOOSE g \in At("wake") : TRUE][m])

\* Close gets through: nobody sleeps on a closed descriptor for ever, and in the
\* end it is destroyed.
CloseEvictsSleepers == \A g \in G : closed /\ pc[g] = "sleep" ~> pc[g] # "sleep"
CloseDestroys == closed ~> ~open

=============================================================================
