------------------------------ MODULE FutexLock ------------------------------
(***************************************************************************)
(* runtime/lock_futex.go: the runtime's own mutex, lock(&l) and unlock(&l) *)
(* on one word and the kernel's futex.  The word says unlocked, locked, or *)
(* sleeping: locked, and presumably somebody sleeps on it.                 *)
(*                                                                         *)
(* A thread takes the lock in three ways: the speculative exchange on      *)
(* entry, a compare-and-swap while it spins, and the exchange it does just *)
(* before it sleeps.  The exchange on entry is the delicate one: it may    *)
(* overwrite "sleeping" with "locked", and the thread that did so must put *)
(* "sleeping" back later or the sleeper is lost.                           *)
(***************************************************************************)
EXTENDS Naturals

CONSTANT Thread

VARIABLES
  key,       \* l.key
  wait,      \* lock's local variable wait, per thread
  pc,        \* where each thread is in lock or unlock
  asleep     \* the threads the kernel has queued on the futex

vars == <<key, wait, pc, asleep>>

mutex_unlocked == 0
mutex_locked   == 1
mutex_sleeping == 2

\* "out" of the lock; "enter" lock; "spin" for it; "exchange" before sleeping;
\* "futexsleep" and then "blocked" in it; "locked"; in unlock, "wake" a sleeper.
PC == {"out", "enter", "spin", "exchange", "futexsleep", "blocked",
       "locked", "wake", "thrown"}

Goto(t, l) == pc' = [pc EXCEPT ![t] = l]

TypeOK ==
  /\ key \in {mutex_unlocked, mutex_locked, mutex_sleeping}
  /\ wait \in [Thread -> {mutex_locked, mutex_sleeping}]
  /\ pc \in [Thread -> PC]
  /\ asleep \in SUBSET Thread

Init ==
  /\ key = mutex_unlocked
  /\ wait = [t \in Thread |-> mutex_locked]
  /\ pc = [t \in Thread |-> "out"]
  /\ asleep = {}

\* A thread calls lock.
Enter(t) ==
  /\ pc[t] = "out"
  /\ Goto(t, "enter")
  /\ UNCHANGED <<key, wait, asleep>>

\* Mutant: the speculative exchange forgets to note that it overwrote "sleeping".
SpeculateForgets(t) ==
  /\ pc[t] = "enter"
  /\ key' = mutex_locked
  /\ Goto(t, IF key = mutex_unlocked THEN "locked" ELSE "spin")
  /\ UNCHANGED <<wait, asleep>>

\* Xchg(&l.key, mutex_locked): the speculative grab, and wait := v.
Speculate(t) ==
  /\ pc[t] = "enter"
  /\ key' = mutex_locked
  /\ \/ /\ key = mutex_unlocked
        /\ Goto(t, "locked")
        /\ UNCHANGED wait
     \/ /\ key # mutex_unlocked
        /\ wait' = [wait EXCEPT ![t] = key]
        /\ Goto(t, "spin")
  /\ UNCHANGED asleep

\* Mutant: load and store in place of the compare-and-swap, the load already stale.
SpinAcquireByStore(t) ==
  /\ pc[t] = "spin"
  /\ key' = wait[t]
  /\ Goto(t, "locked")
  /\ UNCHANGED <<wait, asleep>>

\* A Cas(&l.key, mutex_unlocked, wait) of the two spinning loops succeeds.
SpinAcquire(t) ==
  /\ pc[t] = "spin"
  /\ key = mutex_unlocked
  /\ key' = wait[t]
  /\ Goto(t, "locked")
  /\ UNCHANGED <<wait, asleep>>

\* The loops are over: the last load of l.key saw it taken.
SpinOver(t) ==
  /\ pc[t] = "spin"
  /\ key # mutex_unlocked
  /\ Goto(t, "exchange")
  /\ UNCHANGED <<key, wait, asleep>>

\* Xchg(&l.key, mutex_sleeping), which may find the lock free and take it.
Exchange(t) ==
  /\ pc[t] = "exchange"
  /\ key' = mutex_sleeping
  /\ \/ /\ key = mutex_unlocked
        /\ Goto(t, "locked")
        /\ UNCHANGED wait
     \/ /\ key # mutex_unlocked
        /\ wait' = [wait EXCEPT ![t] = mutex_sleeping]
        /\ Goto(t, "futexsleep")
  /\ UNCHANGED asleep

\* futexsleep(&l.key, mutex_sleeping): the kernel compares and queues atomically.
FutexSleep(t) ==
  /\ pc[t] = "futexsleep"
  /\ \/ /\ key = mutex_sleeping
        /\ asleep' = asleep \cup {t}
        /\ Goto(t, "blocked")
     \/ /\ key # mutex_sleeping
        /\ Goto(t, "spin")
        /\ UNCHANGED asleep
  /\ UNCHANGED <<key, wait>>

\* futexsleep returns: woken by futexwakeup, or spuriously, which it allows.
FutexReturn(t) ==
  /\ pc[t] = "blocked"
  /\ t \notin asleep
  /\ Goto(t, "spin")
  /\ UNCHANGED <<key, wait, asleep>>

SpuriousWakeup(t) ==
  /\ t \in asleep
  /\ asleep' = asleep \ {t}
  /\ UNCHANGED <<key, wait, pc>>

\* unlock: Xchg(&l.key, mutex_unlocked); only "sleeping" needs a wakeup.
Unlock(t) ==
  /\ pc[t] = "locked"
  /\ key' = mutex_unlocked
  /\ Goto(t, IF key = mutex_unlocked THEN "thrown"
             ELSE IF key = mutex_sleeping THEN "wake" ELSE "out")
  /\ UNCHANGED <<wait, asleep>>

\* futexwakeup(&l.key, 1): at most one sleeper, the kernel's choice.
Wakeup(t) ==
  /\ pc[t] = "wake"
  /\ \/ asleep = {} /\ UNCHANGED asleep
     \/ \E s \in asleep : asleep' = asleep \ {s}
  /\ Goto(t, "out")
  /\ UNCHANGED <<key, wait>>

\* The steps a thread takes by itself once it is in lock or unlock.
Step(t) ==
  \/ Speculate(t) \/ SpinAcquire(t) \/ SpinOver(t) \/ Exchange(t)
  \/ FutexSleep(t) \/ FutexReturn(t) \/ Wakeup(t)

Next == \E t \in Thread : Enter(t) \/ Step(t) \/ Unlock(t) \/ SpuriousWakeup(t)

\* A thread inside lock or unlock keeps running; no thread has to call them.
Fairness == \A t \in Thread : WF_vars(Step(t))

SafeSpec == Init /\ [][Next]_vars
Spec == SafeSpec /\ Fairness

-----------------------------------------------------------------------------
\* A thread that will store "sleeping" again, or is about to wake a sleeper.
Responsible(t) ==
  \/ pc[t] = "wake"
  \/ /\ pc[t] \in {"spin", "exchange", "futexsleep"}
     /\ wait[t] = mutex_sleeping
  \/ pc[t] = "blocked" /\ t \notin asleep

\* No sleeper is forgotten: while a thread sleeps on the word, either the word
\* says so, and unlock will wake somebody, or some awake thread knows.
\* lock_futex.go:59-65 asks for this of every thread that overwrites the word.
SleeperRemembered ==
  asleep # {} => key = mutex_sleeping \/ \E t \in Thread : Responsible(t)

\* unlock never finds its own lock unlocked: the throw at lock_futex.go:108 is dead.
NeverThrown == \A t \in Thread : pc[t] # "thrown"

\* The word is unlocked exactly when no thread holds the lock, however the
\* three ways of taking it interleave, so two threads never hold it.
OneHolder ==
  /\ key = mutex_unlocked <=> \A t \in Thread : pc[t] # "locked"
  /\ \A t, u \in Thread : pc[t] = "locked" /\ pc[u] = "locked" => t = u

\* Seen from its callers this is Lock: the call that takes the lock is the step
\* after which pc is "locked"; unlock's exchange gives it back.
Phase == [t \in Thread |->
            IF pc[t] = "locked" THEN "in"
            ELSE IF pc[t] \in {"out", "wake", "thrown"} THEN "out" ELSE "want"]

L == INSTANCE Lock WITH Proc <- Thread, phase <- Phase

\* lock/unlock are a mutual exclusion lock that is always taken when wanted:
\* safety and liveness of Lock, liveness from the fairness of running threads.
ImplementsLock == L!Spec

=============================================================================
