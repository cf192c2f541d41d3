-------------------------------- MODULE Mutex --------------------------------
(***************************************************************************)
(* sync/mutex.go: sync.Mutex, a word changed by compare-and-swap and a     *)
(* semaphore for those who must sleep.  The word packs a locked bit, a     *)
(* woken bit and the number of waiters; it is a record here.               *)
(*                                                                         *)
(* The woken bit says that somebody is already on the way to the mutex: a  *)
(* waiter that was released, or a goroutine spinning in Lock, which sets   *)
(* the bit so that Unlock wakes nobody.  Whoever set it, or was released   *)
(* under it, must clear it, and exactly once.                              *)
(***************************************************************************)
EXTENDS Naturals, FiniteSets

CONSTANTS
  G,         \* goroutines
  MaxSpin    \* active_spin: how often runtime_canSpin may say yes

ASSUME MaxSpinAssumption == MaxSpin \in Nat

VARIABLES
  state,     \* m.state
  sema,      \* m.sema, a semaphore as Semaphore has it
  pc,        \* where each goroutine is
  old,       \* the local variable old of Lock and Unlock
  awoke,     \* Lock's awoke
  iter       \* Lock's iter

vars == <<state, sema, pc, old, awoke, iter>>

State == [locked : BOOLEAN, woken : BOOLEAN, waiters : Nat]
Zero == [locked |-> FALSE, woken |-> FALSE, waiters |-> 0]

\* "out"; Lock: "fast", "load", "cas", "sleep"; "in" possession of the mutex;
\* Unlock: "check", "reload", "semrelease".
PC == {"out", "fast", "load", "cas", "sleep", "in", "check", "reload",
       "semrelease"}

Goto(g, l) == pc' = [pc EXCEPT ![g] = l]

\* Likewise, to where the local variables are dead: the model resets them.
Forget(g, l) ==
  /\ Goto(g, l)
  /\ old' = [old EXCEPT ![g] = Zero]
  /\ awoke' = [awoke EXCEPT ![g] = FALSE]
  /\ iter' = [iter EXCEPT ![g] = 0]

TypeOK ==
  /\ state \in State
  /\ sema \in Nat
  /\ pc \in [G -> PC]
  /\ old \in [G -> State]
  /\ awoke \in [G -> BOOLEAN]
  /\ iter \in [G -> 0..MaxSpin]

Init ==
  /\ state = Zero
  /\ sema = 0
  /\ pc = [g \in G |-> "out"]
  /\ old = [g \in G |-> Zero]
  /\ awoke = [g \in G |-> FALSE]
  /\ iter = [g \in G |-> 0]

-----------------------------------------------------------------------------
Lock(g) ==
  /\ pc[g] = "out"
  /\ Goto(g, "fast")
  /\ UNCHANGED <<state, sema, old, awoke, iter>>

\* The first compare-and-swap, and the loop's start when it fails.
LockFast(g) ==
  /\ pc[g] = "fast"
  /\ \/ /\ state = Zero
        /\ state' = [Zero EXCEPT !.locked = TRUE]
        /\ Goto(g, "in")
     \/ /\ state # Zero
        /\ Goto(g, "load")
        /\ UNCHANGED state
  /\ UNCHANGED <<sema, old, awoke, iter>>

Load(g) ==
  /\ pc[g] = "load"
  /\ old' = [old EXCEPT ![g] = state]
  /\ Goto(g, "cas")
  /\ UNCHANGED <<state, sema, awoke, iter>>

\* Mutant: the spinner sets the woken bit and does not remember that it did.
SpinForgets(g) ==
  /\ pc[g] = "cas" /\ old[g].locked /\ iter[g] < MaxSpin
  /\ state' = IF old[g].waiters > 0 /\ state = old[g]
              THEN [state EXCEPT !.woken = TRUE] ELSE state
  /\ iter' = [iter EXCEPT ![g] = @ + 1]
  /\ Goto(g, "load")
  /\ UNCHANGED <<sema, old, awoke>>

\* Spinning, which runtime_canSpin allows or not: if nobody is on the way, try
\* to be the one by setting the woken bit.
Spin(g) ==
  /\ pc[g] = "cas" /\ old[g].locked /\ iter[g] < MaxSpin
  /\ IF /\ ~awoke[g] /\ ~old[g].woken /\ old[g].waiters > 0
        /\ state = old[g]
     THEN /\ state' = [state EXCEPT !.woken = TRUE]
          /\ awoke' = [awoke EXCEPT ![g] = TRUE]
     ELSE UNCHANGED <<state, awoke>>
  /\ iter' = [iter EXCEPT ![g] = @ + 1]
  /\ Goto(g, "load")
  /\ UNCHANGED <<sema, old>>

\* The word the loop wants in place of old[g].
NewState(g) ==
  [locked  |-> TRUE,
   woken   |-> old[g].woken /\ ~awoke[g],
   waiters |-> IF old[g].locked THEN old[g].waiters + 1 ELSE old[g].waiters]

\* When the loop panics instead, "inconsistent mutex state": NeverInconsistent
\* says that it does not, and the panic is no step of the model.
Inconsistent(g) == awoke[g] /\ ~old[g].woken

\* Mutant: go by the load alone, without comparing the word once more.
CasStale(g) ==
  /\ pc[g] = "cas" /\ ~Inconsistent(g)
  /\ state' = NewState(g)
  /\ Forget(g, IF old[g].locked THEN "sleep" ELSE "in")
  /\ UNCHANGED sema

\* The compare-and-swap that takes the mutex, or joins the waiters; on failure
\* the loop starts over.
Cas(g) ==
  /\ pc[g] = "cas" /\ ~Inconsistent(g)
  /\ \/ /\ state = old[g]
        /\ state' = NewState(g)
        /\ Forget(g, IF old[g].locked THEN "sleep" ELSE "in")
     \/ /\ state # old[g]
        /\ Goto(g, "load")
        /\ UNCHANGED <<state, old, awoke, iter>>
  /\ UNCHANGED sema

\* runtime_Semacquire returns.
Semacquire(g) ==
  /\ pc[g] = "sleep"
  /\ sema > 0
  /\ sema' = sema - 1
  /\ awoke' = [awoke EXCEPT ![g] = TRUE]
  /\ iter' = [iter EXCEPT ![g] = 0]
  /\ Goto(g, "load")
  /\ UNCHANGED <<state, old>>

-----------------------------------------------------------------------------
\* Unlock by the holder, or by another goroutine that the holder h left it to;
\* a caller that unlocks a mutex nobody holds breaks the contract.
Unlock(g, h) ==
  /\ pc[h] = "in"
  /\ g = h \/ pc[g] = "out"
  /\ state' = [state EXCEPT !.locked = FALSE]
  /\ old' = [old EXCEPT ![g] = state']
  /\ pc' = [pc EXCEPT ![h] = "out", ![g] = "check"]
  /\ UNCHANGED <<sema, awoke, iter>>

\* Mutant: the count compared with one too many.
NobodyToWakeBut(s) == s.waiters <= 1 \/ s.locked \/ s.woken

\* Nobody to wake: no waiters, or somebody has the mutex or is on the way.
NobodyToWake(s) == s.waiters = 0 \/ s.locked \/ s.woken

UnlockReturn(g) ==
  /\ pc[g] = "check" /\ NobodyToWake(old[g])
  /\ Forget(g, "out")
  /\ UNCHANGED <<state, sema>>

\* Grab the right to wake someone.
UnlockWake(g) ==
  /\ pc[g] = "check" /\ ~NobodyToWake(old[g])
  /\ \/ /\ state = old[g]
        /\ state' = [old[g] EXCEPT !.waiters = @ - 1, !.woken = TRUE]
        /\ Forget(g, "semrelease")
     \/ /\ state # old[g]
        /\ Goto(g, "reload")
        /\ UNCHANGED <<state, old, awoke, iter>>
  /\ UNCHANGED sema

Reload(g) ==
  /\ pc[g] = "reload"
  /\ old' = [old EXCEPT ![g] = state]
  /\ Goto(g, "check")
  /\ UNCHANGED <<state, sema, awoke, iter>>

Semrelease(g) ==
  /\ pc[g] = "semrelease"
  /\ sema' = sema + 1
  /\ Goto(g, "out")
  /\ UNCHANGED <<state, old, awoke, iter>>

Run(g) ==
  \/ LockFast(g) \/ Load(g) \/ Spin(g) \/ Cas(g)
  \/ UnlockReturn(g) \/ UnlockWake(g) \/ Reload(g) \/ Semrelease(g)

Next == \E g \in G : \/ Lock(g) \/ Run(g) \/ Semacquire(g)
                     \/ \E h \in G : Unlock(g, h)

SafeSpec == Init /\ [][Next]_vars

\* Goroutines inside Lock and Unlock run, and the semaphore keeps its promise;
\* nobody has to call Lock or Unlock.
Spec ==
  /\ SafeSpec
  /\ \A g \in G : WF_vars(Run(g))
  /\ WF_vars(\E g \in G : Semacquire(g))

-----------------------------------------------------------------------------
\* The locked bit is a lock: one holder, and set exactly while there is one.
OneHolder ==
  /\ state.locked <=> \E g \in G : pc[g] = "in"
  /\ \A g, h \in G : pc[g] = "in" /\ pc[h] = "in" => g = h

\* Who is on the way to the mutex: a goroutine in Lock's loop that was released
\* or announced itself, or an unlocker with a release still to make.
OnTheWay == {g \in G : \/ pc[g] \in {"load", "cas"} /\ awoke[g]
                       \/ pc[g] = "semrelease"}

\* The woken bit stands for exactly one of them, or for the one token in the
\* semaphore: never two wakeups at a time, never a bit that nobody will clear.
WokenIsOne ==
  /\ state.woken <=> sema > 0 \/ OnTheWay # {}
  /\ sema \in {0, 1}
  /\ sema = 1 => OnTheWay = {}
  /\ \A g, h \in OnTheWay : g = h

\* So the panic "inconsistent mutex state" (mutex.go:75) is dead.
NeverInconsistent == \A g \in G : pc[g] = "cas" => ~Inconsistent(g)

\* Every sleeper is counted once, by the word, by an unlocker that took it off
\* the word, or by the token meant for it.
WaitersCounted ==
  Cardinality({g \in G : pc[g] = "sleep"}) =
    state.waiters + sema + Cardinality({g \in G : pc[g] = "semrelease"})

\* A free mutex with waiters and nobody on the way has an unlocker that has seen
\* just this word and will wake one of them: whoever makes its compare-and-swap
\* fail takes over.
NobodyForgotten ==
  state.waiters > 0 /\ ~state.locked /\ ~state.woken =>
    \E g \in G : pc[g] = "check" /\ old[g] = state

\* Seen from its callers, a mutex is a Lock.
Phase == [g \in G |->
            IF pc[g] = "in" THEN "in"
            ELSE IF pc[g] \in {"fast", "load", "cas", "sleep"}
                 THEN "want" ELSE "out"]

L == INSTANCE Lock WITH Proc <- G, phase <- Phase

ImplementsLock == L!Spec

=============================================================================
