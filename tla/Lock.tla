-------------------------------- MODULE Lock --------------------------------
(***************************************************************************)
(* What a lock promises its callers: at most one of them is between the    *)
(* return of its lock call and its unlock call, and while the lock is free *)
(* and wanted somebody gets it.  Nothing is said about who: neither the    *)
(* runtime's mutex (lock_futex.go) nor sync.Mutex of this release is fair. *)
(* FutexLock and Mutex implement this module; Sema, Chan and Cond use      *)
(* their locks as this module describes them.                              *)
(***************************************************************************)
CONSTANT Proc        \* the threads (FutexLock) or goroutines (Mutex)

VARIABLE phase       \* "out" of the lock, "want"ing it, or "in" possession of it

TypeOK == phase \in [Proc -> {"out", "want", "in"}]

Init == phase = [p \in Proc |-> "out"]

Free == \A p \in Proc : phase[p] # "in"

Request(p) == /\ phase[p] = "out"
              /\ phase' = [phase EXCEPT ![p] = "want"]

Acquire(p) == /\ phase[p] = "want"
              /\ Free
              /\ phase' = [phase EXCEPT ![p] = "in"]

\* Unlock, by the goroutine that holds the lock.
Release(p) == /\ phase[p] = "in"
              /\ phase' = [phase EXCEPT ![p] = "out"]

Next == \E p \in Proc : Request(p) \/ Acquire(p) \/ Release(p)

SafeSpec == Init /\ [][Next]_phase

\* Somebody gets a lock that stays free and wanted.
Spec == SafeSpec /\ WF_phase(\E p \in Proc : Acquire(p))

=============================================================================
