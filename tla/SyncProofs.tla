----------------------------- MODULE SyncProofs -----------------------------
(***************************************************************************)
(* Package sync's Mutex and Cond, and what the runtime has below them.     *)
(* What MCMutex checks for three goroutines and two spins, proved for any  *)
(* set of goroutines and any number of spins: mutual exclusion, one wakeup *)
(* at a time, the panic "inconsistent mutex state" out of reach, no waiter *)
(* forgotten, and every behaviour one of Lock's safety part; for finitely  *)
(* many goroutines, the waiters counted.  Then what MCCond checks of       *)
(* sync.Cond, every wakeup counted; what MCFutexLock checks of             *)
(* lock_futex.go: mutual exclusion, no sleeper forgotten, Lock implemented;*)
(* and what MCSema checks of sema.go: no wakeup missed, Semaphore          *)
(* implemented.  That locks are taken in the end is a matter of fairness   *)
(* and stays with TLC.                                                     *)
(***************************************************************************)
EXTENDS Mutex, FiniteSetTheorems, SequenceTheorems, TLAPS

\* What the woken bit rests on: awoke means something in Lock's loop only, and a
\* goroutine that is awoke loaded a word with the woken bit set, because it or
\* its waker set the bit before and nobody else clears it.
AwokeSawWoken ==
  \A g \in G : /\ awoke[g] => pc[g] \in {"load", "cas"}
               /\ awoke[g] /\ pc[g] = "cas" => old[g].woken

IInv == TypeOK /\ OneHolder /\ WokenIsOne /\ AwokeSawWoken /\ NobodyForgotten

LEMMA InitIInv == Init => IInv
  BY MaxSpinAssumption
     DEF Init, IInv, TypeOK, OneHolder, WokenIsOne, AwokeSawWoken, NobodyForgotten,
         OnTheWay, State, Zero, PC

\* The next step as one of its actions; the lemmas about steps split on it.
LEMMA Steps ==
  ASSUME [Next]_vars
  PROVE  \/ UNCHANGED vars
         \/ \E g \in G : \/ Lock(g) \/ LockFast(g) \/ Load(g) \/ Spin(g) \/ Cas(g)
                         \/ Semacquire(g)
         \/ \E g \in G : \/ UnlockReturn(g) \/ UnlockWake(g) \/ Reload(g)
                         \/ Semrelease(g)
         \/ \E g, h \in G : Unlock(g, h)
  BY DEF Next, Run

\* The words that the operations make of others.
LEMMA NewStateType ==
  ASSUME TypeOK, NEW g \in G
  PROVE  /\ NewState(g) \in State
         /\ NewState(g).locked
         /\ NewState(g).woken <=> old[g].woken /\ ~awoke[g]
         /\ NewState(g).waiters = old[g].waiters + (IF old[g].locked THEN 1 ELSE 0)
<1>1. old[g] \in State /\ awoke[g] \in BOOLEAN
  BY DEF TypeOK
<1>2. old[g].woken \in BOOLEAN /\ old[g].locked \in BOOLEAN /\ old[g].waiters \in Nat
  BY <1>1 DEF State
<1>. DEFINE w == old[g].woken /\ ~awoke[g]
<1>. DEFINE n == IF old[g].locked THEN old[g].waiters + 1 ELSE old[g].waiters
<1>3. w \in BOOLEAN
  BY Zenon
<1>4. n \in Nat /\ n = old[g].waiters + (IF old[g].locked THEN 1 ELSE 0)
  BY <1>2
<1>5. NewState(g) = [locked |-> TRUE, woken |-> w, waiters |-> n]
  BY DEF NewState
<1>. HIDE DEF w, n
<1>6. NewState(g) \in State
  BY <1>3, <1>4, <1>5 DEF State
<1>7. NewState(g).locked /\ NewState(g).waiters = n
  BY <1>5
<1>8. NewState(g).woken = w
  BY <1>5
<1>. QED
  BY <1>4, <1>6, <1>7, <1>8 DEF w

LEMMA Words ==
  /\ Zero \in State /\ ~Zero.locked /\ ~Zero.woken
  /\ \A s \in State, b \in BOOLEAN : [s EXCEPT !.locked = b] \in State
  /\ \A s \in State, b \in BOOLEAN : [s EXCEPT !.woken = b] \in State
  BY DEF State, Zero

LEMMA WakeWord ==
  ASSUME TypeOK, NEW g \in G, UnlockWake(g), state = old[g]
  PROVE  state' \in State /\ state'.woken /\ (state'.locked <=> state.locked)
<1>. DEFINE n == old[g].waiters - 1
<1>1. old[g] \in State
  BY DEF TypeOK
<1>2. n \in Nat
  BY <1>1 DEF State, NobodyToWake, UnlockWake
<1>3. state' = [old[g] EXCEPT !.waiters = n, !.woken = TRUE]
  BY DEF UnlockWake
<1>. HIDE DEF n
<1>. QED
  BY <1>1, <1>2, <1>3 DEF State

LEMMA NextTypeOK == TypeOK /\ [Next]_vars => TypeOK'
<1>. SUFFICES ASSUME TypeOK, [Next]_vars PROVE TypeOK'
  OBVIOUS
<1>. USE MaxSpinAssumption DEF TypeOK, PC, Goto
<1>1. CASE UNCHANGED vars
  BY <1>1 DEF vars
<1>2. ASSUME NEW g \in G, Lock(g) \/ LockFast(g) PROVE TypeOK'
  BY <1>2, Words DEF Lock, LockFast
<1>3. ASSUME NEW g \in G, Load(g) \/ Reload(g) PROVE TypeOK'
  BY <1>3 DEF Load, Reload
<1>4. ASSUME NEW g \in G, Spin(g) PROVE TypeOK'
  <2>1. state' \in State /\ awoke' \in [G -> BOOLEAN]
    BY <1>4, Words DEF Spin
  <2>2. iter[g] + 1 \in 0..MaxSpin
    BY <1>4 DEF Spin
  <2>. QED BY <1>4, <2>1, <2>2 DEF Spin
<1>f. ASSUME NEW g \in G, NEW l \in PC, Forget(g, l), state' \in State, sema' \in Nat
      PROVE TypeOK'
  <2>1. pc' \in [G -> PC] /\ awoke' \in [G -> BOOLEAN]
    BY <1>f DEF Forget
  <2>2. old' \in [G -> State] /\ iter' \in [G -> 0..MaxSpin]
    BY <1>f, Words DEF Forget
  <2>. QED BY <1>f, <2>1, <2>2
<1>5. ASSUME NEW g \in G, Cas(g) PROVE TypeOK'
  <2>1. CASE state = old[g]
    BY <1>5, <1>f, <2>1, NewStateType DEF Cas
  <2>2. CASE state # old[g]
    BY <1>5, <2>2 DEF Cas
  <2>. QED BY <2>1, <2>2
<1>6. ASSUME NEW g \in G, Semacquire(g) PROVE TypeOK'
  <2>1. sema' \in Nat
    BY <1>6 DEF Semacquire
  <2>. QED BY <1>6, <2>1 DEF Semacquire
<1>10. ASSUME NEW g \in G, Semrelease(g) PROVE TypeOK'
  BY <1>10 DEF Semrelease
<1>7. ASSUME NEW g \in G, NEW h \in G, Unlock(g, h) PROVE TypeOK'
  <2>1. state' \in State
    BY <1>7, Words DEF Unlock
  <2>. QED BY <1>7, <2>1 DEF Unlock
<1>8. ASSUME NEW g \in G, UnlockReturn(g) PROVE TypeOK'
  BY <1>8, <1>f DEF UnlockReturn
<1>9. ASSUME NEW g \in G, UnlockWake(g) PROVE TypeOK'
  <2>1. CASE state = old[g]
    BY <1>9, <1>f, <2>1, WakeWord DEF UnlockWake
  <2>2. CASE state # old[g]
    BY <1>9, <2>2 DEF UnlockWake
  <2>. QED BY <2>1, <2>2
<1>. QED
  BY <1>1, <1>2, <1>3, <1>4, <1>5, <1>6, <1>7, <1>8, <1>9, <1>10, Steps

\* Who takes the mutex has seen the locked bit clear, in the word it replaces.
LEMMA NextOneHolder ==
  TypeOK /\ OneHolder /\ [Next]_vars => OneHolder'
<1>. SUFFICES ASSUME TypeOK, OneHolder, [Next]_vars PROVE OneHolder'
  OBVIOUS
<1>. USE DEF TypeOK, OneHolder, Goto, State
<1>1. CASE UNCHANGED vars
  BY <1>1 DEF vars
<1>2. ASSUME NEW g \in G, Lock(g) \/ Load(g) \/ Semacquire(g) PROVE OneHolder'
  BY <1>2 DEF Lock, Load, Semacquire
<1>3. ASSUME NEW g \in G, LockFast(g) PROVE OneHolder'
  BY <1>3 DEF LockFast, Zero
<1>4. ASSUME NEW g \in G, Spin(g) PROVE OneHolder'
  BY <1>4 DEF Spin
<1>5. ASSUME NEW g \in G, Cas(g) PROVE OneHolder'
  <2>1. CASE state = old[g] /\ old[g].locked
    BY <1>5, <2>1, NewStateType DEF Cas, Forget
  <2>2. CASE state = old[g] /\ ~old[g].locked
    BY <1>5, <2>2, NewStateType DEF Cas, Forget
  <2>3. CASE state # old[g]
    BY <1>5, <2>3 DEF Cas
  <2>. QED BY <2>1, <2>2, <2>3
<1>6. ASSUME NEW g \in G, NEW h \in G, Unlock(g, h) PROVE OneHolder'
  BY <1>6 DEF Unlock
<1>7. ASSUME NEW g \in G, UnlockReturn(g) \/ Reload(g) \/ Semrelease(g)
      PROVE OneHolder'
  BY <1>7 DEF UnlockReturn, Reload, Semrelease, Forget
<1>8. ASSUME NEW g \in G, UnlockWake(g) PROVE OneHolder'
  <2>1. CASE state = old[g]
    <3>1. state'.locked <=> state.locked
      BY <1>8, <2>1, WakeWord
    <3>2. \A h \in G : pc'[h] = "in" <=> pc[h] = "in"
      BY <1>8, <2>1 DEF UnlockWake, Forget
    <3>. QED BY <3>1, <3>2
  <2>2. CASE state # old[g]
    BY <1>8, <2>2 DEF UnlockWake
  <2>. QED BY <2>1, <2>2
<1>. QED
  BY <1>1, <1>2, <1>3, <1>4, <1>5, <1>6, <1>7, <1>8, Steps

LEMMA NextAwokeSawWoken ==
  TypeOK /\ WokenIsOne /\ AwokeSawWoken /\ [Next]_vars => AwokeSawWoken'
<1>. SUFFICES ASSUME TypeOK, WokenIsOne, AwokeSawWoken, [Next]_vars
              PROVE AwokeSawWoken'
  OBVIOUS
<1>. USE DEF TypeOK, AwokeSawWoken, Goto
<1>1. CASE UNCHANGED vars
  BY <1>1 DEF vars
<1>2. ASSUME NEW g \in G, Lock(g) \/ LockFast(g) \/ Spin(g) PROVE AwokeSawWoken'
  BY <1>2 DEF Lock, LockFast, Spin
<1>3. ASSUME NEW g \in G, Load(g) PROVE AwokeSawWoken'
  BY <1>3 DEF Load, WokenIsOne, OnTheWay
<1>4. ASSUME NEW g \in G, Cas(g) PROVE AwokeSawWoken'
  BY <1>4 DEF Cas, Forget
<1>5. ASSUME NEW g \in G, Semacquire(g) \/ Semrelease(g) PROVE AwokeSawWoken'
  BY <1>5 DEF Semacquire, Semrelease
<1>6. ASSUME NEW g \in G, NEW h \in G, Unlock(g, h) PROVE AwokeSawWoken'
  BY <1>6 DEF Unlock
<1>7. ASSUME NEW g \in G, UnlockReturn(g) \/ UnlockWake(g) \/ Reload(g)
      PROVE AwokeSawWoken'
  BY <1>7 DEF UnlockReturn, UnlockWake, Reload, Forget
<1>. QED
  BY <1>1, <1>2, <1>3, <1>4, <1>5, <1>6, <1>7, Steps

\* The woken bit is set with the first of OnTheWay, handed on with it through
\* the semaphore, and cleared with the last.
LEMMA NextWokenIsOne ==
  TypeOK /\ WokenIsOne /\ AwokeSawWoken /\ [Next]_vars => WokenIsOne'
<1>. SUFFICES ASSUME TypeOK, WokenIsOne, AwokeSawWoken, [Next]_vars
              PROVE WokenIsOne'
  OBVIOUS
<1>. USE DEF TypeOK, State, Goto
<1>1. CASE UNCHANGED vars
  BY <1>1 DEF vars, WokenIsOne, OnTheWay
<1>2. ASSUME NEW g \in G, Lock(g) \/ Load(g) PROVE WokenIsOne'
  BY <1>2 DEF Lock, Load, WokenIsOne, OnTheWay
<1>3. ASSUME NEW g \in G, LockFast(g) PROVE WokenIsOne'
  BY <1>3 DEF LockFast, Zero, AwokeSawWoken, WokenIsOne, OnTheWay
<1>4. ASSUME NEW g \in G, Spin(g) PROVE WokenIsOne'
  <2>1. CASE ~awoke[g] /\ ~old[g].woken /\ old[g].waiters > 0 /\ state = old[g]
    <3>1. OnTheWay = {} /\ sema = 0 /\ sema' = 0
      BY <1>4, <2>1 DEF Spin, WokenIsOne
    <3>2. state'.woken /\ OnTheWay' = {g}
      BY <1>4, <2>1, <3>1 DEF Spin, OnTheWay
    <3>. QED BY <3>1, <3>2 DEF WokenIsOne
  <2>2. CASE ~(~awoke[g] /\ ~old[g].woken /\ old[g].waiters > 0 /\ state = old[g])
    BY <1>4, <2>2 DEF Spin, WokenIsOne, OnTheWay
  <2>. QED BY <2>1, <2>2
<1>5. ASSUME NEW g \in G, Cas(g) PROVE WokenIsOne'
  <2>1. CASE state = old[g] /\ awoke[g]
    <3>1. OnTheWay = {g} /\ sema = 0 /\ sema' = 0
      BY <1>5, <2>1 DEF Cas, WokenIsOne, OnTheWay
    <3>2. ~state'.woken /\ OnTheWay' = {}
      BY <1>5, <2>1, <3>1, NewStateType DEF Cas, Forget, OnTheWay
    <3>. QED BY <3>1, <3>2 DEF WokenIsOne
  <2>2. CASE state = old[g] /\ ~awoke[g]
    <3>1. OnTheWay' = OnTheWay
      BY <1>5, <2>2 DEF Cas, Forget, OnTheWay
    <3>2. (state'.woken <=> state.woken) /\ sema' = sema
      BY <1>5, <2>2, NewStateType DEF Cas
    <3>. QED BY <3>1, <3>2 DEF WokenIsOne
  <2>3. CASE state # old[g]
    BY <1>5, <2>3 DEF Cas, WokenIsOne, OnTheWay
  <2>. QED BY <2>1, <2>2, <2>3
<1>6. ASSUME NEW g \in G, Semacquire(g) PROVE WokenIsOne'
  <2>1. sema = 1 /\ sema' = 0 /\ OnTheWay = {} /\ state' = state
    BY <1>6 DEF Semacquire, WokenIsOne
  <2>2. OnTheWay' = {g}
    BY <1>6, <2>1 DEF Semacquire, OnTheWay
  <2>. QED BY <2>1, <2>2 DEF WokenIsOne
<1>7. ASSUME NEW g \in G, NEW h \in G, Unlock(g, h) PROVE WokenIsOne'
  BY <1>7 DEF Unlock, WokenIsOne, OnTheWay, AwokeSawWoken
<1>8. ASSUME NEW g \in G, UnlockReturn(g) \/ Reload(g) PROVE WokenIsOne'
  BY <1>8 DEF UnlockReturn, Reload, Forget, WokenIsOne, OnTheWay
<1>9. ASSUME NEW g \in G, UnlockWake(g) PROVE WokenIsOne'
  <2>1. CASE state = old[g]
    <3>1. OnTheWay = {} /\ sema = 0 /\ sema' = 0
      BY <1>9, <2>1 DEF UnlockWake, NobodyToWake, WokenIsOne
    <3>2. state'.woken
      BY <1>9, <2>1, WakeWord
    <3>3. OnTheWay' = {g}
      BY <1>9, <2>1, <3>1 DEF UnlockWake, Forget, OnTheWay
    <3>. QED BY <3>1, <3>2, <3>3 DEF WokenIsOne
  <2>2. CASE state # old[g]
    BY <1>9, <2>2 DEF UnlockWake, WokenIsOne, OnTheWay
  <2>. QED BY <2>1, <2>2
<1>10. ASSUME NEW g \in G, Semrelease(g) PROVE WokenIsOne'
  <2>1. OnTheWay = {g} /\ sema = 0 /\ sema' = 1 /\ state.woken /\ state' = state
    BY <1>10 DEF Semrelease, WokenIsOne, OnTheWay
  <2>2. OnTheWay' = {}
    BY <1>10, <2>1 DEF Semrelease, OnTheWay
  <2>. QED BY <2>1, <2>2 DEF WokenIsOne
<1>. QED
  BY <1>1, <1>2, <1>3, <1>4, <1>5, <1>6, <1>7, <1>8, <1>9, <1>10, Steps

\* Whoever leaves such a word behind is an unlocker that has seen it; who gives
\* up has seen another word, or one that needs nobody to be woken.
LEMMA NextNobodyForgotten ==
  TypeOK /\ NobodyForgotten /\ [Next]_vars => NobodyForgotten'
<1>. SUFFICES ASSUME TypeOK, NobodyForgotten, [Next]_vars PROVE NobodyForgotten'
  OBVIOUS
<1>. USE DEF TypeOK, State, NobodyForgotten, Goto
<1>1. CASE UNCHANGED vars
  BY <1>1 DEF vars
<1>2. ASSUME NEW g \in G, Lock(g) \/ Load(g) \/ Semacquire(g) PROVE NobodyForgotten'
  BY <1>2 DEF Lock, Load, Semacquire
<1>3. ASSUME NEW g \in G, LockFast(g) \/ Spin(g) PROVE NobodyForgotten'
  BY <1>3 DEF LockFast, Zero, Spin
<1>4. ASSUME NEW g \in G, Cas(g) PROVE NobodyForgotten'
  <2>1. CASE state = old[g]
    BY <1>4, <2>1, NewStateType DEF Cas
  <2>2. CASE state # old[g]
    BY <1>4, <2>2 DEF Cas
  <2>. QED BY <2>1, <2>2
<1>5. ASSUME NEW g \in G, NEW h \in G, Unlock(g, h) PROVE NobodyForgotten'
  BY <1>5 DEF Unlock
<1>6. ASSUME NEW g \in G, UnlockReturn(g) PROVE NobodyForgotten'
  BY <1>6 DEF UnlockReturn, NobodyToWake, Forget
<1>8. ASSUME NEW g \in G, UnlockWake(g) PROVE NobodyForgotten'
  BY <1>8, WakeWord DEF UnlockWake, Forget
<1>7. ASSUME NEW g \in G, Reload(g) \/ Semrelease(g) PROVE NobodyForgotten'
  BY <1>7 DEF Reload, Semrelease
<1>. QED
  BY <1>1, <1>2, <1>3, <1>4, <1>5, <1>6, <1>7, <1>8, Steps

LEMMA IInvHolds == SafeSpec => []IInv
<1>1. IInv /\ [Next]_vars => IInv'
  BY NextTypeOK, NextOneHolder, NextAwokeSawWoken, NextWokenIsOne,
     NextNobodyForgotten DEF IInv
<1>. QED
  BY InitIInv, <1>1, PTL DEF SafeSpec

-----------------------------------------------------------------------------
\* The state, the local variables and the program counters keep their types.
THEOREM TypeCorrect == Spec => []TypeOK
  BY IInvHolds, PTL DEF Spec, IInv

\* At most one goroutine is between Lock and Unlock, and the locked bit is set
\* exactly while one is, for any number of goroutines.
THEOREM MutualExclusion == Spec => []OneHolder
  BY IInvHolds, PTL DEF Spec, IInv

\* The woken bit stands for exactly one goroutine on its way, or the one token.
THEOREM OneWakeupAtATime == Spec => []WokenIsOne
  BY IInvHolds, PTL DEF Spec, IInv

\* No Lock panics with "inconsistent mutex state".
THEOREM PanicIsDead == Spec => []NeverInconsistent
<1>1. AwokeSawWoken => NeverInconsistent
  BY DEF AwokeSawWoken, NeverInconsistent, Inconsistent
<1>. QED
  BY <1>1, IInvHolds, PTL DEF Spec, IInv

\* A free mutex with waiters and nobody on the way has an unlocker that will
\* wake one.
THEOREM NoWaiterForgotten == Spec => []NobodyForgotten
  BY IInvHolds, PTL DEF Spec, IInv

-----------------------------------------------------------------------------
\* Counting goroutines: one that moves leaves one count and enters another.
At(l) == {g \in G : pc[g] = l}

LEMMA Moves ==
  ASSUME IsFiniteSet(G), TypeOK, NEW g \in G, NEW l, Goto(g, l), NEW k
  PROVE  /\ Cardinality(At(k)) \in Nat
         /\ Cardinality(At(k)') =
              Cardinality(At(k)) + (IF l = k /\ pc[g] # k THEN 1 ELSE 0)
                                 - (IF l # k /\ pc[g] = k THEN 1 ELSE 0)
<1>1. IsFiniteSet(At(k)) /\ Cardinality(At(k)) \in Nat
  BY FS_Subset, FS_CardinalityType DEF At
<1>4. g \in At(k) <=> pc[g] = k
  BY DEF At
<1>2. CASE l = k
  <2>1. At(k)' = At(k) \cup {g}
    BY <1>2 DEF At, Goto, TypeOK
  <2>2. Cardinality(At(k) \cup {g}) =
          IF g \in At(k) THEN Cardinality(At(k)) ELSE Cardinality(At(k)) + 1
    BY <1>1, FS_AddElement
  <2>. QED BY <1>1, <1>2, <1>4, <2>1, <2>2
<1>3. CASE l # k
  <2>1. At(k)' = At(k) \ {g}
    BY <1>3 DEF At, Goto, TypeOK
  <2>2. Cardinality(At(k) \ {g}) =
          IF g \in At(k) THEN Cardinality(At(k)) - 1 ELSE Cardinality(At(k))
    BY <1>1, FS_RemoveElement
  <2>. QED BY <1>1, <1>3, <1>4, <2>1, <2>2
<1>. QED
  BY <1>2, <1>3

Counted == Cardinality(At("sleep")) =
             state.waiters + sema + Cardinality(At("semrelease"))

LEMMA NextCounted ==
  ASSUME IsFiniteSet(G), TypeOK, Counted, [Next]_vars
  PROVE  Counted'
<1>. USE DEF Counted
<1>0. state.waiters \in Nat /\ sema \in Nat
  BY DEF TypeOK, State
<1>1. CASE UNCHANGED vars
  BY <1>1 DEF vars, At
<1>2. ASSUME NEW g \in G, NEW l, Goto(g, l), l \notin {"sleep", "semrelease"},
             pc[g] \notin {"sleep", "semrelease"}, sema' = sema,
             state'.waiters = state.waiters
      PROVE  Counted'
  BY <1>0, <1>2, Moves
<1>3. ASSUME NEW g \in G, Lock(g) \/ LockFast(g) \/ Load(g) PROVE Counted'
  <2>1. state'.waiters = state.waiters
    BY <1>3 DEF Lock, LockFast, Load, Zero
  <2>. QED BY <1>2, <1>3, <2>1 DEF Lock, LockFast, Load
<1>4. ASSUME NEW g \in G, Spin(g) PROVE Counted'
  <2>1. state'.waiters = state.waiters
    BY <1>4 DEF Spin, TypeOK, State
  <2>. QED BY <1>2, <1>4, <2>1 DEF Spin
<1>5. ASSUME NEW g \in G, Cas(g) PROVE Counted'
  <2>1. CASE state = old[g] /\ old[g].locked
    <3>1. Goto(g, "sleep") /\ pc[g] = "cas" /\ sema' = sema
      BY <1>5, <2>1 DEF Cas, Forget
    <3>2. state'.waiters = state.waiters + 1
      BY <1>5, <2>1, NewStateType DEF Cas
    <3>. QED BY <1>0, <3>1, <3>2, Moves
  <2>2. CASE state = old[g] /\ ~old[g].locked
    <3>1. Goto(g, "in") /\ pc[g] = "cas" /\ sema' = sema
      BY <1>5, <2>2 DEF Cas, Forget
    <3>2. state'.waiters = state.waiters
      BY <1>0, <1>5, <2>2, NewStateType DEF Cas
    <3>. QED BY <1>2, <3>1, <3>2
  <2>3. CASE state # old[g]
    BY <1>2, <1>5, <2>3 DEF Cas
  <2>. QED BY <2>1, <2>2, <2>3
<1>6. ASSUME NEW g \in G, Semacquire(g) PROVE Counted'
  <2>1. Goto(g, "load") /\ pc[g] = "sleep" /\ sema' = sema - 1 /\ state' = state
    BY <1>6 DEF Semacquire
  <2>. QED BY <1>0, <2>1, Moves
<1>7. ASSUME NEW g \in G, NEW h \in G, Unlock(g, h) PROVE Counted'
  <2>1. At("sleep")' = At("sleep") /\ At("semrelease")' = At("semrelease")
    BY <1>7 DEF Unlock, At, TypeOK
  <2>2. state'.waiters = state.waiters /\ sema' = sema
    BY <1>7 DEF Unlock, TypeOK, State
  <2>. QED BY <2>1, <2>2
<1>8. ASSUME NEW g \in G, UnlockReturn(g) \/ Reload(g) PROVE Counted'
  BY <1>2, <1>8 DEF UnlockReturn, Reload, Forget
<1>9. ASSUME NEW g \in G, UnlockWake(g) PROVE Counted'
  <2>1. CASE state = old[g]
    <3>1. Goto(g, "semrelease") /\ pc[g] = "check" /\ sema' = sema
      BY <1>9, <2>1 DEF UnlockWake, Forget
    <3>2. state'.waiters = state.waiters - 1
      BY <1>9, <2>1 DEF UnlockWake, TypeOK, State
    <3>. QED BY <1>0, <3>1, <3>2, Moves
  <2>2. CASE state # old[g]
    BY <1>2, <1>9, <2>2 DEF UnlockWake
  <2>. QED BY <2>1, <2>2
<1>10. ASSUME NEW g \in G, Semrelease(g) PROVE Counted'
  <2>1. Goto(g, "out") /\ pc[g] = "semrelease" /\ sema' = sema + 1 /\ state' = state
    BY <1>10 DEF Semrelease
  <2>. QED BY <1>0, <2>1, Moves
<1>. QED
  BY <1>1, <1>3, <1>4, <1>5, <1>6, <1>7, <1>8, <1>9, <1>10, Steps

\* Every sleeper is counted once, by the word, by the token meant for it, or by
\* an unlocker about to release it, for any finite number of goroutines.
THEOREM WaitersAreCounted ==
  ASSUME IsFiniteSet(G)
  PROVE  Spec => []WaitersCounted
<1>1. Init => Counted
  <2>. SUFFICES ASSUME Init PROVE Counted
    OBVIOUS
  <2>1. At("sleep") = {} /\ At("semrelease") = {}
    BY DEF Init, At
  <2>2. state.waiters = 0 /\ sema = 0
    BY DEF Init, Zero
  <2>. QED BY <2>1, <2>2, FS_EmptySet DEF Counted
<1>2. TypeOK /\ Counted /\ [Next]_vars => Counted'
  BY NextCounted
<1>3. Counted => WaitersCounted
  BY DEF Counted, WaitersCounted, At
<1>4. SafeSpec => []TypeOK
  BY IInvHolds, PTL DEF IInv
<1>. QED
  BY <1>1, <1>2, <1>3, <1>4, PTL DEF Spec, SafeSpec

-----------------------------------------------------------------------------
\* Lock and Unlock implement the safety part of the abstract Lock: a goroutine
\* gets in by its first compare-and-swap or by one in the loop that found the
\* locked bit clear; every other step but Lock and Unlock is a stutter.
THEOREM RefinesLock == Spec => L!SafeSpec
<1>1. Init => L!Init
  BY DEF Init, L!Init, Phase
<1>2. TypeOK /\ OneHolder /\ [Next]_vars => [L!Next]_Phase
  <2>. SUFFICES ASSUME TypeOK, OneHolder, [Next]_vars PROVE [L!Next]_Phase
    OBVIOUS
  <2>. USE DEF TypeOK, Goto, Phase
  <2>1. CASE UNCHANGED vars
    BY <2>1 DEF vars
  <2>2. ASSUME NEW g \in G, Lock(g) PROVE L!Request(g)
    BY <2>2 DEF Lock, L!Request
  <2>3. ASSUME NEW g \in G, LockFast(g) PROVE L!Acquire(g) \/ Phase' = Phase
    <3>1. CASE state = Zero
      BY <2>3, <3>1, Words DEF LockFast, OneHolder, L!Acquire, L!Free
    <3>2. CASE state # Zero
      BY <2>3, <3>2 DEF LockFast
    <3>. QED BY <3>1, <3>2
  <2>4. ASSUME NEW g \in G, Load(g) \/ Spin(g) \/ Semacquire(g) PROVE Phase' = Phase
    BY <2>4 DEF Load, Spin, Semacquire
  <2>5. ASSUME NEW g \in G, Cas(g) PROVE L!Acquire(g) \/ Phase' = Phase
    <3>1. CASE state = old[g] /\ ~old[g].locked
      BY <2>5, <3>1 DEF Cas, Forget, OneHolder, L!Acquire, L!Free
    <3>2. CASE state = old[g] /\ old[g].locked
      BY <2>5, <3>2 DEF Cas, Forget
    <3>3. CASE state # old[g]
      BY <2>5, <3>3 DEF Cas
    <3>. QED BY <3>1, <3>2, <3>3
  <2>6. ASSUME NEW g \in G, NEW h \in G, Unlock(g, h) PROVE L!Release(h)
    BY <2>6 DEF Unlock, L!Release
  <2>7. ASSUME NEW g \in G, UnlockReturn(g) \/ UnlockWake(g) PROVE Phase' = Phase
    BY <2>7 DEF UnlockReturn, UnlockWake, Forget
  <2>8. ASSUME NEW g \in G, Reload(g) \/ Semrelease(g) PROVE Phase' = Phase
    BY <2>8 DEF Reload, Semrelease
  <2>. QED
    BY <2>1, <2>2, <2>3, <2>4, <2>5, <2>6, <2>7, <2>8, Steps DEF L!Next
<1>. QED
  BY <1>1, <1>2, IInvHolds, PTL DEF Spec, SafeSpec, L!SafeSpec, IInv

-----------------------------------------------------------------------------
\* sync.Cond, for any goroutines: module Cond with its variables under other names where
\* Mutex has taken them.
CONSTANT NoG
VARIABLES holder, waiters, queue, at, seen, all, wake
C == INSTANCE Cond WITH pc <- at, old <- seen

\* Beyond the types and ReadyFindsParked.  No two goroutines are about to ready the same
\* releaser; the queue holds either acquirers or releasers; signalImpl has seen waiters.
Pairing ==
  /\ \A g \in G : at[g] = "ready" => wake[g] \in G
  /\ \A g, h \in G : at[g] = "ready" /\ at[h] = "ready" /\ wake[g] = wake[h] => g = h
  /\ \A i, j \in DOMAIN queue : queue[i][2] = 0 => queue[j][2] = 0
  /\ \A g \in G : at[g] \in {"cas", "release"} => seen[g] # 0

Sums == /\ IsFiniteSet(C!Waiting) /\ IsFiniteSet(C!Granted)
        /\ Cardinality(C!Waiting) = waiters + Cardinality(C!Granted)

CInv == C!TypeOK /\ C!ReadyFindsParked /\ Pairing /\ Sums

\* The next step as one of its actions.
LEMMA CondSteps ==
  ASSUME [C!Next]_(C!vars)
  PROVE  \/ UNCHANGED C!vars
         \/ \E g \in G : \/ C!LockL(g) \/ C!UnlockL(g) \/ C!Wait(g)
                         \/ \E toAll \in BOOLEAN : C!Signal(g, toAll)
                         \/ C!Syncsemacquire(g) \/ C!Goready(g) \/ C!Load(g)
                         \/ C!CasWaiters(g) \/ C!Syncsemrelease(g)
BY DEF C!Next, C!Call, C!Run, C!Relock

\* Who is counted, and what is owed, member by member.
Pends(h, j) == \E i \in 1 .. Len(queue) : queue[i][1] = h /\ j \in 1 .. queue[i][2]

Owed(h, j) == \/ h \in G /\ at[h] = "release" /\ j \in 1 .. C!Take(h)
              \/ Pends(h, j)

Members == queue \in Seq(G \X Nat) =>
  /\ \A h, j : <<h, j>> \in C!Granted <=> Owed(h, j)
  /\ \A x \in C!Granted : x = <<x[1], x[2]>>

LEMMA CondMembers == Members
<1>1. ASSUME NEW x
      PROVE  x \in UNION {{h} \X (1 .. C!Take(h)) : h \in {h \in G : at[h] = "release"}}
               <=> \E h \in G : at[h] = "release" /\ \E k \in 1 .. C!Take(h) : x = <<h, k>>
  OBVIOUS
<1>2. ASSUME queue \in Seq(G \X Nat), NEW x
      PROVE  x \in UNION {{s[1]} \X (1 .. s[2]) : s \in C!ToSet(queue)}
               <=> \E i \in 1 .. Len(queue) : \E k \in 1 .. queue[i][2] : x = <<queue[i][1], k>>
  <2>1. DOMAIN queue = 1 .. Len(queue)
    BY <1>2
  <2>. QED BY <2>1 DEF C!ToSet
<1>3. ASSUME NEW x
      PROVE  x \in C!Granted <=>
               \/ x \in UNION {{h} \X (1 .. C!Take(h)) : h \in {h \in G : at[h] = "release"}}
               \/ x \in UNION {{s[1]} \X (1 .. s[2]) : s \in C!ToSet(queue)}
  BY DEF C!Granted
<1>4. ASSUME queue \in Seq(G \X Nat), NEW x
      PROVE  x \in C!Granted <=>
               \/ \E h \in G : at[h] = "release" /\ \E k \in 1 .. C!Take(h) : x = <<h, k>>
               \/ \E i \in 1 .. Len(queue) : \E k \in 1 .. queue[i][2] : x = <<queue[i][1], k>>
  BY <1>1, <1>2, <1>3, <1>4
<1>. QED BY <1>4 DEF Members, Owed, Pends

LEMMA CondMembersNext == Members'
BY CondMembers, PTL

\* Two sets of wakeups with the same members.
LEMMA SameGrants ==
  ASSUME queue \in Seq(G \X Nat), queue' \in Seq(G \X Nat),
         \A h, j : Owed(h, j)' <=> Owed(h, j)
  PROVE  C!Granted' = C!Granted
<1>1. \A x \in C!Granted : x \in C!Granted'
  BY CondMembers, CondMembersNext DEF Members
<1>2. \A x \in C!Granted' : x \in C!Granted
  BY CondMembers, CondMembersNext DEF Members
<1>. QED BY <1>1, <1>2

LEMMA OneGrantLess ==
  ASSUME queue \in Seq(G \X Nat), queue' \in Seq(G \X Nat), NEW r, NEW k, Owed(r, k),
         \A h, j : Owed(h, j)' <=> Owed(h, j) /\ ~(h = r /\ j = k)
  PROVE  C!Granted' = C!Granted \ {<<r, k>>} /\ <<r, k>> \in C!Granted
<1>1. \A x \in C!Granted : x # <<r, k>> => x \in C!Granted'
  BY CondMembers, CondMembersNext DEF Members
<1>2. \A x \in C!Granted' : x \in C!Granted /\ x # <<r, k>>
  BY CondMembers, CondMembersNext DEF Members
<1>3. <<r, k>> \in C!Granted
  BY CondMembers DEF Members
<1>. QED BY <1>1, <1>2, <1>3

\* One more counted, or one taken off; a share of n numbered wakeups.
LEMMA Numbered ==
  ASSUME NEW g, NEW n \in Nat
  PROVE  IsFiniteSet({g} \X (1 .. n)) /\ Cardinality({g} \X (1 .. n)) = n
<1>1. IsFiniteSet(1 .. n) /\ Cardinality(1 .. n) = n
  BY FS_Interval
<1>2. IsFiniteSet({g}) /\ Cardinality({g}) = 1
  BY FS_Singleton
<1>. QED BY <1>1, <1>2, FS_Product

\* A step that changes neither the count, nor who waits, nor what is owed.
LEMMA SumsKept ==
  ASSUME Sums, waiters' = waiters, C!Waiting' = C!Waiting, C!Granted' = C!Granted
  PROVE  Sums'
BY DEF Sums

LEMMA CondInit == C!Init => CInv
<1>. SUFFICES ASSUME C!Init PROVE CInv
  OBVIOUS
<1>. USE DEF C!Init
<1>1. C!TypeOK /\ C!ReadyFindsParked /\ Pairing
  BY DEF C!TypeOK, C!ReadyFindsParked, Pairing, C!PC
<1>2. C!Waiting = {} /\ C!Granted = {}
  <2>1. queue \in Seq(G \X Nat) /\ \A h, j : ~Owed(h, j)
    BY DEF Owed, Pends
  <2>. QED BY <2>1, CondMembers DEF C!Waiting, Members
<1>3. Sums
  BY <1>2, FS_EmptySet DEF Sums
<1>. QED BY <1>1, <1>3 DEF CInv

\* The steps of the client and of Wait before it reaches the semaphore, and of signalImpl
\* before the compare-and-swap: neither the queue nor what is owed is concerned.
LEMMA CondQuiet ==
  ASSUME CInv, NEW g \in G, C!LockL(g) \/ C!UnlockL(g) \/ C!Load(g)
                            \/ \E toAll \in BOOLEAN : C!Signal(g, toAll)
  PROVE  CInv'
<1>. USE DEF CInv, C!Goto, C!Forget, C!Outside
<1>. DEFINE GoesOn(l) ==
       /\ l \in C!PC \ {"parked", "paired", "ready", "release"} /\ at' = [at EXCEPT ![g] = l]
       /\ l \in {"unlock", "acquire"} <=> at[g] \in {"unlock", "acquire"}
       /\ l = "cas" => seen'[g] # 0
     Steps1 ==
       /\ queue' = queue /\ wake' = wake /\ waiters' = waiters /\ at \in [G -> C!PC]
       /\ \E l \in C!PC : GoesOn(l)
       /\ at[g] \notin {"parked", "paired", "ready", "release"}
       /\ \A h \in G \ {g} : seen'[h] = seen[h] /\ all'[h] = all[h]
       /\ C!TypeOK'
<1>0. at \in [G -> C!PC] /\ at[g] \in C!PC
  BY DEF C!TypeOK
<1>1. Steps1
  <2>. USE DEF C!TypeOK, C!PC
  <2>1. CASE C!LockL(g)
    <3>1. GoesOn("in")
      BY <1>0, <2>1 DEF C!LockL
    <3>. QED BY <1>0, <2>1, <3>1 DEF C!LockL
  <2>2. CASE C!UnlockL(g)
    <3>1. GoesOn(IF at[g] = "in" THEN "out" ELSE "acquire")
      BY <1>0, <2>2 DEF C!UnlockL
    <3>. QED BY <1>0, <2>2, <3>1 DEF C!UnlockL
  <2>3. CASE C!Load(g)
    <3>1. CASE waiters = 0
      <4>1. PICK l \in {"in", "out"} : at' = [at EXCEPT ![g] = l]
        BY <1>0, <2>3, <3>1 DEF C!Load
      <4>2. GoesOn(l)
        BY <1>0, <2>3, <4>1 DEF C!Load
      <4>3. \E k \in C!PC : GoesOn(k)
        BY <4>2
      <4>4. C!TypeOK'
        BY <1>0, <2>3, <3>1, <4>1 DEF C!Load
      <4>. QED BY <1>0, <2>3, <3>1, <4>3, <4>4 DEF C!Load
    <3>2. CASE waiters # 0
      <4>1. GoesOn("cas")
        BY <1>0, <2>3, <3>2 DEF C!Load
      <4>. QED BY <1>0, <2>3, <3>2, <4>1 DEF C!Load
    <3>. QED BY <3>1, <3>2
  <2>4. ASSUME NEW toAll \in BOOLEAN, C!Signal(g, toAll) PROVE Steps1
    <3>1. GoesOn("load")
      BY <1>0, <2>4 DEF C!Signal
    <3>. QED BY <1>0, <2>4, <3>1 DEF C!Signal
  <2>. QED BY <2>1, <2>2, <2>3, <2>4
<1>3. C!ReadyFindsParked' /\ Pairing'
  BY <1>1 DEF C!ReadyFindsParked, Pairing
<1>4. C!Waiting' = C!Waiting
  BY <1>1 DEF C!Waiting
<1>5. C!Granted' = C!Granted
  <2>1. {h \in G : at'[h] = "release"} = {h \in G : at[h] = "release"}
    BY <1>1
  <2>2. \A h \in G : at[h] = "release" => C!Take(h)' = C!Take(h)
    BY <1>1 DEF C!Take
  <2>. QED BY <1>1, <2>1, <2>2 DEF C!Granted
<1>. QED BY <1>1, <1>3, <1>4, <1>5, SumsKept

LEMMA CondWait ==
  ASSUME CInv, NEW g \in G, C!Wait(g)
  PROVE  CInv'
<1>. USE DEF CInv, C!Wait, C!Goto
<1>1. C!TypeOK'
  BY DEF C!TypeOK, C!PC
<1>2. C!ReadyFindsParked' /\ Pairing'
  BY DEF C!TypeOK, C!ReadyFindsParked, Pairing
<1>3. C!Waiting' = C!Waiting \cup {g} /\ g \notin C!Waiting
  BY DEF C!TypeOK, C!Waiting
<1>4. C!Granted' = C!Granted
  <2>1. {h \in G : at'[h] = "release"} = {h \in G : at[h] = "release"}
    BY DEF C!TypeOK
  <2>. QED BY <2>1 DEF C!Granted, C!Take
<1>5. Sums'
  <2>1. IsFiniteSet(C!Waiting') /\ Cardinality(C!Waiting') = Cardinality(C!Waiting) + 1
    BY <1>3, FS_AddElement DEF Sums
  <2>. QED BY <1>4, <2>1, FS_CardinalityType DEF Sums, C!TypeOK
<1>. QED BY <1>1, <1>2, <1>5

\* What is taken off the count is owed from then on.
LEMMA CondCas ==
  ASSUME CInv, NEW g \in G, C!CasWaiters(g)
  PROVE  CInv'
<1>. USE DEF CInv, C!CasWaiters, C!Goto
<1>0. at \in [G -> C!PC] /\ seen[g] \in Nat /\ seen[g] # 0 /\ C!Take(g) \in 1 .. seen[g]
  BY DEF C!TypeOK, Pairing, C!Take
<1>1. CASE waiters = seen[g]
  <2>1. /\ waiters' = seen[g] - C!Take(g) /\ at' = [at EXCEPT ![g] = "release"]
        /\ UNCHANGED <<holder, queue, seen, all, wake>>
    BY <1>1
  <2>2. C!TypeOK'
    BY <1>0, <2>1 DEF C!TypeOK, C!PC
  <2>3. C!ReadyFindsParked' /\ Pairing'
    BY <1>0, <2>1 DEF C!TypeOK, C!ReadyFindsParked, Pairing
  <2>4. C!Waiting' = C!Waiting
    BY <1>0, <2>1 DEF C!Waiting
  <2>. DEFINE N == {g} \X (1 .. C!Take(g))
  <2>5. C!Granted' = C!Granted \cup N
    <3>1. \A h \in G : C!Take(h)' = C!Take(h)
      BY <2>1 DEF C!Take
    <3>2. {h \in G : at'[h] = "release"} = {h \in G : at[h] = "release"} \cup {g}
      BY <1>0, <2>1
    <3>. QED BY <2>1, <3>1, <3>2 DEF C!Granted
  <2>6. C!Granted \cap N = {}
    <3>1. \A x \in N : x[1] = g
      OBVIOUS
    <3>2. at[g] = "cas" /\ queue \in Seq(G \X Nat) /\ \A i \in DOMAIN queue : queue[i][1] # g
      BY DEF C!ReadyFindsParked, C!TypeOK
    <3>3. \A j : ~Owed(g, j)
      BY <3>2 DEF Owed, Pends
    <3>4. \A x \in C!Granted : x[1] # g
      BY <3>2, <3>3, CondMembers DEF Members
    <3>. QED BY <3>1, <3>4
  <2>7. IsFiniteSet(N) /\ Cardinality(N) = C!Take(g)
    <3>1. C!Take(g) \in Nat
      BY <1>0
    <3>. QED BY <3>1, Numbered
  <2>8. /\ IsFiniteSet(C!Granted')
        /\ Cardinality(C!Granted') = Cardinality(C!Granted) + C!Take(g)
    <3>. HIDE DEF N
    <3>1. IsFiniteSet(C!Granted) /\ Cardinality(C!Granted) \in Nat
      BY FS_CardinalityType DEF Sums
    <3>2. /\ IsFiniteSet(C!Granted \cup N)
          /\ Cardinality(C!Granted \cup N) = Cardinality(C!Granted) + Cardinality(N) - Cardinality({})
      BY <2>6, <2>7, <3>1, FS_Union
    <3>. QED BY <1>0, <2>5, <2>7, <3>1, <3>2, FS_EmptySet
  <2>9. Sums'
    BY <1>0, <1>1, <2>1, <2>4, <2>8, FS_CardinalityType DEF Sums
  <2>. QED BY <2>2, <2>3, <2>9
<1>2. CASE waiters # seen[g]
  <2>1. at' = [at EXCEPT ![g] = "load"] /\ UNCHANGED <<holder, waiters, queue, seen, all, wake>>
    BY <1>2
  <2>2. C!TypeOK' /\ C!ReadyFindsParked' /\ Pairing'
    BY <1>0, <2>1 DEF C!TypeOK, C!ReadyFindsParked, Pairing, C!PC
  <2>3. C!Waiting' = C!Waiting
    BY <1>0, <2>1 DEF C!Waiting
  <2>4. C!Granted' = C!Granted
    <3>1. {h \in G : at'[h] = "release"} = {h \in G : at[h] = "release"}
      BY <1>0, <2>1
    <3>. QED BY <2>1, <3>1 DEF C!Granted, C!Take
  <2>. QED BY <2>1, <2>2, <2>3, <2>4, SumsKept
<1>. QED BY <1>1, <1>2

LEMMA CondGoready ==
  ASSUME CInv, NEW g \in G, C!Goready(g)
  PROVE  CInv'
<1>. USE DEF CInv, C!Goready
<1>. DEFINE r == wake[g]
<1>1. r \in G /\ r # g /\ at[r] = "paired" /\ \A i \in DOMAIN queue : queue[i][1] # r
  BY DEF C!ReadyFindsParked, Pairing
<1>2. PICK l \in {"in", "out"} : at' = [at EXCEPT ![g] = "relock", ![r] = l]
  BY DEF C!Outside
<1>3. /\ at[g] = "ready" /\ at \in [G -> C!PC] /\ wake' = [wake EXCEPT ![g] = NoG]
      /\ UNCHANGED <<holder, waiters, queue, seen, all>>
  BY DEF C!TypeOK
<1>. HIDE DEF C!Goready
<1>4. C!TypeOK'
  BY <1>1, <1>2, <1>3 DEF C!TypeOK, C!PC
<1>5. C!ReadyFindsParked' /\ Pairing'
  <2>1. \A h \in G : at'[h] = "ready" => at[h] = "ready" /\ h # g /\ wake'[h] = wake[h] /\ wake[h] # r
    BY <1>1, <1>2, <1>3 DEF Pairing, C!TypeOK
  <2>2. \A h \in G : at[h] \in {"parked", "paired"} /\ h # r => at'[h] = at[h]
    BY <1>1, <1>2, <1>3
  <2>3. \A i \in DOMAIN queue : queue[i][1] \in G
    BY DEF C!TypeOK
  <2>4. C!ReadyFindsParked'
    BY <1>1, <1>3, <2>1, <2>2, <2>3 DEF C!ReadyFindsParked, Pairing
  <2>5. \A h \in G : at'[h] \in {"cas", "release"} => at[h] = at'[h]
    BY <1>1, <1>2, <1>3
  <2>. QED BY <1>3, <2>1, <2>4, <2>5 DEF Pairing
<1>6. C!Waiting' = C!Waiting
  BY <1>1, <1>2, <1>3 DEF C!Waiting
<1>7. C!Granted' = C!Granted
  <2>1. {h \in G : at'[h] = "release"} = {h \in G : at[h] = "release"}
    BY <1>1, <1>2, <1>3
  <2>. QED BY <1>3, <2>1 DEF C!Granted, C!Take
<1>. QED BY <1>3, <1>4, <1>5, <1>6, <1>7, SumsKept

\* One that was counted gets a wakeup that was owed.
LEMMA OneAnswered ==
  ASSUME Sums, waiters' = waiters, waiters \in Nat, NEW g, g \in C!Waiting, NEW x, x \in C!Granted,
         C!Waiting' = C!Waiting \ {g}, C!Granted' = C!Granted \ {x}
  PROVE  Sums'
<1>1. IsFiniteSet(C!Waiting') /\ Cardinality(C!Waiting') = Cardinality(C!Waiting) - 1
  BY FS_RemoveElement DEF Sums
<1>2. IsFiniteSet(C!Granted') /\ Cardinality(C!Granted') = Cardinality(C!Granted) - 1
  BY FS_RemoveElement DEF Sums
<1>3. Cardinality(C!Granted) \in Nat
  BY FS_CardinalityType DEF Sums
<1>. QED BY <1>1, <1>2, <1>3 DEF Sums

\* The queue as a function on 1 .. Len(queue).
LEMMA CondQueue ==
  ASSUME CInv
  PROVE  /\ Len(queue) \in Nat /\ DOMAIN queue = 1 .. Len(queue)
         /\ \A i \in 1 .. Len(queue) : /\ queue[i] = <<queue[i][1], queue[i][2]>>
                                       /\ queue[i][1] \in G /\ queue[i][2] \in Nat
                                       /\ queue[i][2] = 0 => at[queue[i][1]] = "parked"
                                       /\ queue[i][2] # 0 => at[queue[i][1]] = "paired"
         /\ \A i, j \in 1 .. Len(queue) : queue[i][1] = queue[j][1] => i = j
         /\ \A i, j \in 1 .. Len(queue) : queue[i][2] = 0 => queue[j][2] = 0
<1>1. queue \in Seq(G \X Nat)
  BY DEF CInv, C!TypeOK
<1>2. \A i \in 1 .. Len(queue) : queue[i] \in G \X Nat
  BY <1>1
<1>. QED BY <1>1, <1>2 DEF CInv, C!ReadyFindsParked, Pairing

LEMMA CondAcquire ==
  ASSUME CInv, NEW g \in G, C!Syncsemacquire(g)
  PROVE  CInv'
<1>. PICK r, k : r = queue[1][1] /\ k = queue[1][2]
  OBVIOUS
<1>. DEFINE n == Len(queue)
<1>0. /\ at[g] = "acquire" /\ at \in [G -> C!PC] /\ wake \in [G -> G \cup {NoG}]
      /\ queue \in Seq(G \X Nat) /\ UNCHANGED <<holder, waiters, seen, all>>
      /\ \A i \in 1 .. n : queue[i][1] # g
  <2>1. \A i \in 1 .. n : at[queue[i][1]] \in {"parked", "paired"}
    BY CondQueue
  <2>. QED BY <2>1 DEF CInv, C!TypeOK, C!Syncsemacquire
<1>1. \/ C!Pending > 1 /\ queue' = [queue EXCEPT ![1][2] = @ - 1] /\ C!Goto(g, "relock") /\ wake' = wake
      \/ C!Pending = 1 /\ queue' = Tail(queue) /\ C!Goto(g, "ready") /\ wake' = [wake EXCEPT ![g] = Head(queue)[1]]
      \/ C!Pending = 0 /\ queue' = Append(queue, <<g, 0>>) /\ C!Goto(g, "parked") /\ wake' = wake
  BY DEF C!Syncsemacquire
<1>2. \A l \in {"relock", "ready"} : at' = [at EXCEPT ![g] = l] => C!Waiting' = C!Waiting \ {g}
  BY <1>0 DEF C!Waiting
<1>3. g \in C!Waiting
  BY <1>0 DEF C!Waiting
<1>4. \A l \in {"relock", "ready", "parked"} : at' = [at EXCEPT ![g] = l] =>
        \A h \in G : at[h] = "release" <=> at'[h] = "release"
  BY <1>0
<1>5. \A h : C!Take(h)' = C!Take(h)
  BY <1>0 DEF C!Take
<1>6. CASE C!Pending > 1
  <2>1. queue' = [queue EXCEPT ![1][2] = @ - 1] /\ at' = [at EXCEPT ![g] = "relock"] /\ wake' = wake
    BY <1>1, <1>6 DEF C!Goto
  <2>2. n # 0 /\ queue[1][2] > 1
    BY <1>0, <1>6 DEF C!Pending
  <2>3. /\ queue' \in Seq(G \X Nat) /\ Len(queue') = n /\ queue'[1] = <<r, k - 1>>
        /\ \A i \in 1 .. n : i # 1 => queue'[i] = queue[i]
        /\ r \in G /\ k \in Nat
    <3>1. 1 \in 1 .. n /\ queue[1] = <<r, k>> /\ r \in G /\ k \in Nat /\ k - 1 \in Nat
      BY <2>2, CondQueue
    <3>2. [queue[1] EXCEPT ![2] = k - 1] = <<r, k - 1>>
      BY <3>1
    <3>3. queue' = [queue EXCEPT ![1] = <<r, k - 1>>]
      BY <2>1, <3>2
    <3>. QED BY <1>0, <3>1, <3>3
  <2>4. C!TypeOK'
    BY <1>0, <2>1, <2>3 DEF CInv, C!TypeOK, C!PC
  <2>5. /\ \A i \in 1 .. n : queue'[i][1] = queue[i][1] /\ (queue'[i][2] = 0 <=> queue[i][2] = 0)
        /\ DOMAIN queue' = 1 .. n
    BY <2>2, <2>3, CondQueue
  <2>6. \A h \in G \ {g} : at'[h] = at[h]
    BY <1>0, <2>1
  <2>7. \A h \in G : at'[h] = "ready" => at[h] = "ready" /\ h # g
    BY <1>0, <2>1
  <2>8. \A h \in G : at[h] = "ready" => wake[h] # g
    BY <1>0 DEF CInv, C!ReadyFindsParked
  <2>9. C!ReadyFindsParked'
    BY <1>0, <2>1, <2>5, <2>6, <2>7, <2>8, CondQueue DEF CInv, C!ReadyFindsParked, Pairing
  <2>10. Pairing'
    <3>1. \A h \in G : at'[h] \in {"cas", "release"} => at[h] = at'[h]
      BY <1>0, <2>1
    <3>. QED BY <1>0, <2>1, <2>5, <2>7, <3>1, CondQueue DEF CInv, Pairing
  <2>11. C!Granted' = C!Granted \ {<<r, k>>} /\ <<r, k>> \in C!Granted
    <3>1. \A h, j : h # r => (Pends(h, j)' <=> Pends(h, j))
      <4>1. \A i \in 1 .. n : queue[i][1] # r => queue'[i] = queue[i]
        BY <2>3
      <4>2. \A i \in 1 .. n : queue'[i][1] = queue[i][1]
        BY <2>5
      <4>. QED BY <2>3, <4>1, <4>2 DEF Pends
    <3>2. \A j : Pends(r, j) <=> j \in 1 .. k
      BY <2>2, CondQueue DEF Pends
    <3>3. \A j : Pends(r, j)' <=> j \in 1 .. k - 1
      BY <2>2, <2>3, <2>5, CondQueue DEF Pends
    <3>4. at[r] = "paired"
      BY <2>2, CondQueue
    <3>5. ASSUME NEW h, NEW j PROVE Owed(h, j)' <=> Owed(h, j) /\ ~(h = r /\ j = k)
      BY <1>4, <1>5, <2>1, <2>2, <2>3, <3>1, <3>2, <3>3, <3>4 DEF Owed
    <3>6. Owed(r, k)
      BY <2>2, <2>3, <3>2 DEF Owed
    <3>. QED BY <1>0, <2>3, <3>5, <3>6, OneGrantLess
  <2>12. Sums'
    <3>1. waiters \in Nat /\ C!Waiting' = C!Waiting \ {g}
      BY <1>2, <2>1 DEF CInv, C!TypeOK
    <3>. QED BY <1>0, <1>3, <2>11, <3>1, OneAnswered DEF CInv
  <2>. QED BY <2>4, <2>9, <2>10, <2>12 DEF CInv
<1>7. CASE C!Pending = 1
  <2>1. /\ queue' = Tail(queue) /\ at' = [at EXCEPT ![g] = "ready"]
        /\ n # 0 /\ queue[1][2] = 1 /\ wake' = [wake EXCEPT ![g] = r]
    BY <1>0, <1>1, <1>7 DEF C!Goto, C!Pending
  <2>2. /\ queue' \in Seq(G \X Nat) /\ Len(queue') = n - 1 /\ DOMAIN queue' = 1 .. n - 1
        /\ \A i \in 1 .. n - 1 : queue'[i] = queue[i + 1]
    BY <1>0, <2>1
  <2>3. r \in G /\ at[r] = "paired" /\ \A i \in 2 .. n : queue[i][1] # r
    BY <2>1, CondQueue
  <2>4. C!TypeOK'
    BY <1>0, <2>1, <2>2, <2>3 DEF CInv, C!TypeOK, C!PC
  <2>5. \A h \in G \ {g} : at'[h] = at[h] /\ wake'[h] = wake[h]
    BY <1>0, <2>1
  <2>6. at'[g] = "ready" /\ wake'[g] = r /\ r # g
    BY <1>0, <2>1, <2>3
  <2>7. \A h \in G : at[h] = "ready" => /\ wake[h] # g /\ wake[h] # r /\ wake[h] \in G
                                        /\ \A i \in 1 .. n : queue[i][1] # wake[h]
    BY <1>0, <2>1, CondQueue DEF CInv, C!ReadyFindsParked, Pairing
  <2>8. \A i \in 1 .. n - 1 : i + 1 \in 2 .. n
    BY <2>1, CondQueue
  <2>9. C!ReadyFindsParked'
    <3>1. \A i \in 1 .. n - 1 : at'[queue'[i][1]] = IF queue'[i][2] = 0 THEN "parked" ELSE "paired"
      <4>1. \A i \in 1 .. n : queue[i][1] \in G \ {g}
        BY <1>0, CondQueue
      <4>2. \A i \in 1 .. n : i + 1 \in 2 .. n => at'[queue[i + 1][1]] = at[queue[i + 1][1]]
        BY <2>5, <4>1
      <4>3. ASSUME NEW i \in 1 .. n - 1
            PROVE  at'[queue'[i][1]] = IF queue'[i][2] = 0 THEN "parked" ELSE "paired"
        <5>1. i + 1 \in 1 .. n /\ at'[queue[i + 1][1]] = at[queue[i + 1][1]]
          <6>1. i + 1 \in 2 .. n
            BY <2>8
          <6>2. i + 1 \in 1 .. n /\ i \in 1 .. n
            BY CondQueue
          <6>. QED BY <4>2, <6>1, <6>2
        <5>. QED BY <2>2, <5>1, CondQueue
      <4>. QED BY <4>3
    <3>2. \A i, j \in 1 .. n - 1 : queue'[i][1] = queue'[j][1] => i = j
      BY <2>1, <2>2, <2>8, CondQueue
    <3>3. \A h \in G : at'[h] = "ready" => /\ at'[wake'[h]] = "paired"
                                           /\ \A i \in 1 .. n - 1 : queue'[i][1] # wake'[h]
      <4>. SUFFICES ASSUME NEW h \in G, at'[h] = "ready"
                    PROVE  at'[wake'[h]] = "paired" /\ \A i \in 1 .. n - 1 : queue'[i][1] # wake'[h]
        OBVIOUS
      <4>1. CASE h = g
        BY <2>2, <2>3, <2>5, <2>6, <2>8, <4>1
      <4>2. CASE h # g
        <5>1. at[h] = "ready" /\ wake'[h] = wake[h]
          BY <2>5, <4>2
        <5>2. at'[wake[h]] = "paired"
          BY <2>5, <2>7, <5>1 DEF CInv, C!ReadyFindsParked
        <5>3. \A i \in 1 .. n - 1 : queue[i + 1][1] # wake[h]
          BY <2>7, <2>8, <5>1
        <5>. QED BY <2>2, <5>1, <5>2, <5>3
      <4>. QED BY <4>1, <4>2
    <3>. QED BY <2>2, <3>1, <3>2, <3>3 DEF C!ReadyFindsParked
  <2>10. Pairing'
    <3>1. \A h \in G : at'[h] \in {"cas", "release"} => at[h] = at'[h]
      BY <1>0, <2>1
    <3>2. \A i, j \in 1 .. n - 1 : queue'[i][2] = 0 => queue'[j][2] = 0
      <4>1. \A i, j \in 2 .. n : queue[i][2] = 0 => queue[j][2] = 0
        BY <2>1, CondQueue
      <4>. QED BY <2>2, <2>8, <4>1
    <3>3. \A h \in G : at'[h] = "ready" => wake'[h] \in G
      BY <2>3, <2>5, <2>6 DEF CInv, Pairing
    <3>4. \A h, i \in G : at'[h] = "ready" /\ at'[i] = "ready" /\ wake'[h] = wake'[i] => h = i
      BY <2>5, <2>6, <2>7 DEF CInv, Pairing
    <3>. QED BY <1>0, <2>2, <3>1, <3>2, <3>3, <3>4 DEF CInv, Pairing
  <2>11. C!Granted' = C!Granted \ {<<r, 1>>} /\ <<r, 1>> \in C!Granted
    <3>1. \A h, j : h # r => (Pends(h, j)' <=> Pends(h, j))
      <4>1. \A i \in 2 .. n : i - 1 \in 1 .. n - 1 /\ queue'[i - 1] = queue[i]
        BY <2>2, CondQueue
      <4>2. \A i \in 1 .. n : i = 1 \/ i \in 2 .. n
        BY CondQueue
      <4>3. \A i \in 1 .. n - 1 : i + 1 \in 1 .. n /\ queue'[i] = queue[i + 1]
        BY <2>2, CondQueue
      <4>4. \A i \in 1 .. n : queue[i][1] # r => i # 1
        OBVIOUS
      <4>5. ASSUME NEW h, NEW j, h # r, Pends(h, j)' PROVE Pends(h, j)
        BY <2>2, <4>3, <4>5 DEF Pends
      <4>6. ASSUME NEW h, NEW j, h # r, Pends(h, j) PROVE Pends(h, j)'
        <5>1. PICK i \in 1 .. n : queue[i][1] = h /\ j \in 1 .. queue[i][2]
          BY <4>6 DEF Pends
        <5>2. i \in 2 .. n
          BY <4>2, <4>4, <4>6, <5>1
        <5>3. i - 1 \in 1 .. Len(queue') /\ queue'[i - 1] = queue[i]
          BY <2>2, <4>1, <5>2
        <5>. QED BY <5>1, <5>3 DEF Pends
      <4>. QED BY <4>5, <4>6
    <3>2. \A j : Pends(r, j) <=> j = 1
      <4>1. 1 \in 1 .. n /\ \A i \in 1 .. n : queue[i][1] = r => i = 1
        BY <2>1, CondQueue
      <4>. QED BY <2>1, <4>1 DEF Pends
    <3>3. \A j : ~Pends(r, j)'
      <4>1. \A i \in 1 .. n - 1 : queue'[i][1] # r
        BY <2>2, <2>3, <2>8
      <4>. QED BY <2>2, <4>1 DEF Pends
    <3>4. ASSUME NEW h, NEW j PROVE Owed(h, j)' <=> Owed(h, j) /\ ~(h = r /\ j = 1)
      <4>1. h \in G => (at[h] = "release" <=> at'[h] = "release") /\ C!Take(h)' = C!Take(h)
        BY <1>4, <1>5, <2>1
      <4>. QED BY <2>3, <3>1, <3>2, <3>3, <4>1 DEF Owed
    <3>5. Owed(r, 1)
      BY <3>2 DEF Owed
    <3>. QED BY <1>0, <2>2, <3>4, <3>5, OneGrantLess
  <2>12. Sums'
    <3>1. waiters \in Nat /\ C!Waiting' = C!Waiting \ {g}
      BY <1>2, <2>1 DEF CInv, C!TypeOK
    <3>. QED BY <1>0, <1>3, <2>11, <3>1, OneAnswered DEF CInv
  <2>. QED BY <2>4, <2>9, <2>10, <2>12 DEF CInv
<1>8. CASE C!Pending = 0
  <2>1. queue' = Append(queue, <<g, 0>>) /\ at' = [at EXCEPT ![g] = "parked"] /\ wake' = wake
    BY <1>1, <1>8 DEF C!Goto
  <2>2. \A i \in 1 .. n : queue[i][2] = 0
    BY <1>0, <1>8, CondQueue DEF C!Pending
  <2>3. /\ queue' \in Seq(G \X Nat) /\ Len(queue') = n + 1 /\ DOMAIN queue' = 1 .. n + 1
        /\ queue'[n + 1] = <<g, 0>> /\ \A i \in 1 .. n : queue'[i] = queue[i]
    BY <1>0, <2>1
  <2>4. C!TypeOK'
    BY <1>0, <2>1, <2>3 DEF CInv, C!TypeOK, C!PC
  <2>5. \A h \in G \ {g} : at'[h] = at[h]
    BY <1>0, <2>1
  <2>6. at'[g] = "parked" /\ \A h \in G : at'[h] = "ready" => at[h] = "ready" /\ h # g
    BY <1>0, <2>1
  <2>7. \A i \in 1 .. n + 1 : i = n + 1 \/ i \in 1 .. n
    BY CondQueue
  <2>8. \A h \in G : at[h] = "ready" => wake[h] # g
    BY <1>0 DEF CInv, C!ReadyFindsParked
  <2>9. C!ReadyFindsParked'
    BY <1>0, <2>1, <2>3, <2>5, <2>6, <2>7, <2>8, CondQueue DEF CInv, C!ReadyFindsParked, Pairing
  <2>10. Pairing'
    <3>1. \A h \in G : at'[h] \in {"cas", "release"} => at[h] = at'[h]
      BY <1>0, <2>1
    <3>. QED BY <1>0, <2>1, <2>2, <2>3, <2>6, <2>7, <3>1 DEF CInv, Pairing
  <2>11. C!Waiting' = C!Waiting
    BY <1>0, <2>1 DEF C!Waiting
  <2>12. C!Granted' = C!Granted
    <3>1. \A h, j : Pends(h, j)' <=> Pends(h, j)
      <4>1. \A i \in 1 .. n : i \in 1 .. n + 1
        BY CondQueue
      <4>2. \A j : j \notin 1 .. 0
        OBVIOUS
      <4>3. ASSUME NEW h, NEW j, Pends(h, j) PROVE Pends(h, j)'
        BY <2>3, <4>1, <4>3 DEF Pends
      <4>4. ASSUME NEW h, NEW j, Pends(h, j)' PROVE Pends(h, j)
        <5>1. PICK i \in 1 .. n + 1 : queue'[i][1] = h /\ j \in 1 .. queue'[i][2]
          BY <2>3, <4>4 DEF Pends
        <5>2. i \in 1 .. n
          BY <2>3, <2>7, <4>2, <5>1
        <5>. QED BY <2>3, <5>1, <5>2 DEF Pends
      <4>. QED BY <4>3, <4>4
    <3>2. ASSUME NEW h, NEW j PROVE Owed(h, j)' <=> Owed(h, j)
      BY <1>4, <1>5, <2>1, <3>1 DEF Owed
    <3>. QED BY <1>0, <2>3, <3>2, SameGrants
  <2>. QED BY <1>0, <2>4, <2>9, <2>10, <2>11, <2>12, SumsKept DEF CInv
<1>9. C!Pending \in Nat
  BY <1>0, CondQueue DEF C!Pending
<1>. QED BY <1>6, <1>7, <1>8, <1>9

\* The first k sleepers get the last k of g's T wakeups.
LEMMA SeveralAnswered ==
  ASSUME CInv, UNCHANGED waiters, queue' \in Seq(G \X Nat),
         NEW g \in G, at[g] = "release", NEW T \in Nat, T = C!Take(g),
         NEW k \in Nat, k <= T, NEW H, H \subseteq C!Waiting,
         IsFiniteSet(H), Cardinality(H) = k, C!Waiting' = C!Waiting \ H,
         \A h, j : Owed(h, j)' <=> Owed(h, j) /\ ~(h = g /\ j \in T - k + 1 .. T)
  PROVE  Sums'
<1>. DEFINE J == T - k + 1 .. T  D == {g} \X J
<1>3. IsFiniteSet(D) /\ Cardinality(D) = k
  <2>1. IsFiniteSet(J) /\ Cardinality(J) = k
    <3>1. T - k + 1 \in Int /\ T \in Int
      OBVIOUS
    <3>2. /\ IsFiniteSet(J)
          /\ Cardinality(J) = IF T - k + 1 > T THEN 0 ELSE T - (T - k + 1) + 1
      BY <3>1, FS_Interval
    <3>. HIDE DEF J
    <3>. QED BY <3>2
  <2>2. IsFiniteSet({g}) /\ Cardinality({g}) = 1
    BY FS_Singleton
  <2>. HIDE DEF J
  <2>. QED BY <2>1, <2>2, FS_Product
<1>4. queue \in Seq(G \X Nat) /\ waiters \in Nat
  BY DEF CInv, C!TypeOK
<1>5. D \subseteq C!Granted
  <2>1. ASSUME NEW j \in J PROVE <<g, j>> \in C!Granted
    <3>1. Owed(g, j)
      BY <2>1 DEF Owed
    <3>. QED BY <1>4, <3>1, CondMembers DEF Members
  <2>. QED BY <2>1
<1>6. C!Granted' = C!Granted \ D
  <2>1. \A h, j : <<h, j>> \in D <=> h = g /\ j \in J
    OBVIOUS
  <2>2. \A h, j : <<h, j>> \in C!Granted' <=> <<h, j>> \in C!Granted /\ <<h, j>> \notin D
    BY <1>4, <2>1, CondMembers, CondMembersNext DEF Members
  <2>3. /\ \A x \in C!Granted : x = <<x[1], x[2]>>
        /\ \A x \in C!Granted' : x = <<x[1], x[2]>>
    BY <1>4, CondMembers, CondMembersNext DEF Members
  <2>. HIDE DEF D
  <2>. QED BY <2>2, <2>3
<1>. HIDE DEF D
<1>7. /\ IsFiniteSet(C!Waiting) /\ IsFiniteSet(C!Granted)
      /\ Cardinality(C!Granted) \in Nat /\ Cardinality(C!Waiting) \in Nat
  BY FS_CardinalityType DEF CInv, Sums
<1>8. C!Waiting \cap H = H /\ C!Granted \cap D = D
  BY <1>5
<1>9. /\ IsFiniteSet(C!Waiting \ H)
      /\ Cardinality(C!Waiting \ H) = Cardinality(C!Waiting) - Cardinality(C!Waiting \cap H)
  BY <1>7, FS_Difference
<1>10. /\ IsFiniteSet(C!Granted \ D)
       /\ Cardinality(C!Granted \ D) = Cardinality(C!Granted) - Cardinality(C!Granted \cap D)
  BY <1>7, FS_Difference
<1>11. /\ IsFiniteSet(C!Waiting') /\ Cardinality(C!Waiting') = Cardinality(C!Waiting) - k
       /\ IsFiniteSet(C!Granted') /\ Cardinality(C!Granted') = Cardinality(C!Granted) - k
  BY <1>3, <1>6, <1>8, <1>9, <1>10
<1>. QED BY <1>4, <1>7, <1>11 DEF CInv, Sums

\* The first k in the queue, when they are acquirers: k goroutines in Wait.
LEMMA FirstOnes ==
  ASSUME CInv, NEW k \in Nat, k <= Len(queue), \A i \in 1 .. k : queue[i][2] = 0,
         NEW H, H = {queue[i][1] : i \in 1 .. k}
  PROVE  /\ H \subseteq C!Waiting /\ IsFiniteSet(H) /\ Cardinality(H) = k
         /\ \A h \in H : at[h] = "parked"
<1>1. Len(queue) \in Nat
  BY CondQueue
<1>2. \A i \in 1 .. k : i \in 1 .. Len(queue)
  BY <1>1
<1>3. \A i \in 1 .. k : queue[i][1] \in G /\ at[queue[i][1]] = "parked"
  BY <1>2, CondQueue
<1>4. \A i, j \in 1 .. k : queue[i][1] = queue[j][1] => i = j
  BY <1>2, CondQueue
<1>5. H \subseteq C!Waiting /\ \A h \in H : at[h] = "parked"
  BY <1>3 DEF C!Waiting
<1>6. IsFiniteSet(H) /\ Cardinality(H) = k
  <2>. DEFINE f == [i \in 1 .. k |-> queue[i][1]]
  <2>2. f \in Bijection(1 .. k, H)
    <3>1. f \in [1 .. k -> H]
      OBVIOUS
    <3>2. \A a, b \in 1 .. k : f[a] = f[b] => a = b
      BY <1>4
    <3>3. \A t \in H : \E s \in 1 .. k : f[s] = t
      OBVIOUS
    <3>4. DOMAIN f = 1 .. k
      OBVIOUS
    <3>. HIDE DEF f
    <3>. QED BY <3>1, <3>2, <3>3, <3>4 DEF Bijection, Injection, Surjection, IsInjective
  <2>3. ExistsBijection(1 .. k, H)
    BY <2>2 DEF ExistsBijection
  <2>4. IsFiniteSet(1 .. k) /\ Cardinality(1 .. k) = k
    <3>1. 1 \in Int /\ k \in Int
      OBVIOUS
    <3>2. IsFiniteSet(1 .. k) /\ Cardinality(1 .. k) = IF 1 > k THEN 0 ELSE k - 1 + 1
      BY <3>1, FS_Interval
    <3>. QED BY <3>2
  <2>. QED BY <2>3, <2>4, FS_Bijection
<1>. QED BY <1>5, <1>6

\* syncsemrelease in parts: it wakes the first k, H, and parks with what is left of T, or
\* goes to l.
ReleaseParts(g, T, n, k, l, H) ==
  /\ T = C!Take(g) /\ n = Len(queue) /\ T \in Nat /\ n \in Nat /\ k \in Nat /\ k <= T /\ k <= n
  /\ H = {queue[i][1] : i \in 1 .. k} /\ \A i \in 1 .. k : queue[i][2] = 0
  /\ k < T => \A i \in 1 .. n - k : queue[i + k][2] # 0
  /\ queue' = IF k < T THEN Append(SubSeq(queue, k + 1, n), <<g, T - k>>)
              ELSE SubSeq(queue, k + 1, n)
  /\ IF k < T THEN l = "paired" ELSE l \in {"in", "out"}
  /\ at' = [h \in G |-> IF h \in H THEN "relock" ELSE IF h = g THEN l ELSE at[h]]

LEMMA ReleaseStep ==
  ASSUME CInv, NEW g \in G, C!Syncsemrelease(g)
  PROVE  \E T, n, k, l, H : ReleaseParts(g, T, n, k, l, H)
<1>. PICK T, n, a, k : T = C!Take(g) /\ n = Len(queue) /\ a = C!Acquirers /\ k = C!Min({T, a})
  OBVIOUS
<1>. PICK H : H = {queue[i][1] : i \in 1 .. k}
  OBVIOUS
<1>1. T \in Nat /\ n \in Nat
  BY CondQueue DEF CInv, C!TypeOK, C!Take
<1>2. a \in Nat /\ (a = 0 \/ a = n)
  BY <1>1 DEF C!Acquirers
<1>3. (n # 0 /\ queue[1][2] = 0 => a = n) /\ (n # 0 /\ queue[1][2] # 0 => a = 0)
  <2>1. n # 0 => queue # <<>> /\ Head(queue) = queue[1]
    BY DEF CInv, C!TypeOK
  <2>. QED BY <2>1 DEF C!Acquirers, C!Pending
<1>4. n # 0 /\ a = n => \A i \in 1 .. n : queue[i][2] = 0
  <2>1. n # 0 => 1 \in 1 .. n
    BY <1>1
  <2>. QED BY <1>3, <2>1, CondQueue
<1>5. n # 0 /\ a = 0 => \A i \in 1 .. n : queue[i][2] # 0
  <2>1. n # 0 => 1 \in 1 .. n
    BY <1>1
  <2>. QED BY <1>1, <1>3, <2>1, CondQueue
<1>6. k = IF T <= a THEN T ELSE a
  <2>1. ASSUME NEW x \in Nat, NEW y \in Nat PROVE C!Min({x, y}) = IF x <= y THEN x ELSE y
    BY DEF C!Min
  <2>. QED BY <1>1, <1>2, <2>1
<1>7. k \in Nat /\ k <= T /\ k <= n
  BY <1>1, <1>2, <1>6
<1>8. \A i \in 1 .. k : queue[i][2] = 0
  <2>1. \A i \in 1 .. k : i \in 1 .. n /\ n # 0 /\ a = n
    BY <1>1, <1>2, <1>6, <1>7
  <2>. QED BY <1>4, <2>1
<1>9. k < T => \A i \in 1 .. n - k : queue[i + k][2] # 0
  <2>1. ASSUME k < T, NEW i \in 1 .. n - k PROVE i + k \in 1 .. n /\ n # 0 /\ a = 0
    BY <1>1, <1>2, <1>6, <1>7, <2>1
  <2>. QED BY <1>5, <2>1
<1>10. /\ queue' = IF k < T THEN Append(SubSeq(queue, k + 1, n), <<g, T - k>>)
                   ELSE SubSeq(queue, k + 1, n)
       /\ at' = [h \in G |-> IF h \in H THEN "relock" ELSE IF h # g THEN at[h]
                             ELSE IF k < T THEN "paired" ELSE C!Outside(g)]
  BY DEF C!Syncsemrelease
<1>11. CASE k < T
  <2>. DEFINE F == [h \in G |-> IF h \in H THEN "relock" ELSE IF h = g THEN "paired" ELSE at[h]]
  <2>0. [h \in G |-> IF h \in H THEN "relock" ELSE IF h # g THEN at[h]
                     ELSE IF k < T THEN "paired" ELSE C!Outside(g)] = F
    BY <1>11
  <2>1. at' = F
    BY <1>10, <2>0
  <2>2. ReleaseParts(g, T, n, k, "paired", H)
    BY <1>1, <1>7, <1>8, <1>9, <1>10, <1>11, <2>1 DEF ReleaseParts
  <2>. QED BY <2>2
<1>12. CASE ~(k < T)
  <2>1. PICK l \in {"in", "out"} : l = C!Outside(g)
    BY DEF C!Outside
  <2>. DEFINE F == [h \in G |-> IF h \in H THEN "relock" ELSE IF h = g THEN l ELSE at[h]]
  <2>0. [h \in G |-> IF h \in H THEN "relock" ELSE IF h # g THEN at[h]
                     ELSE IF k < T THEN "paired" ELSE C!Outside(g)] = F
    BY <1>12, <2>1
  <2>2. at' = F
    BY <1>10, <2>0
  <2>3. ReleaseParts(g, T, n, k, l, H)
    BY <1>1, <1>7, <1>8, <1>10, <1>12, <2>1, <2>2 DEF ReleaseParts
  <2>. QED BY <2>3
<1>. QED BY <1>11, <1>12

LEMMA CondRelease ==
  ASSUME CInv, NEW g \in G, C!Syncsemrelease(g)
  PROVE  CInv'
<1>. PICK T, n, k, l, H : ReleaseParts(g, T, n, k, l, H)
  BY ReleaseStep
<1>1. /\ T = C!Take(g) /\ n = Len(queue) /\ T \in Nat /\ n \in Nat /\ k \in Nat /\ k <= T /\ k <= n
      /\ H = {queue[i][1] : i \in 1 .. k} /\ \A i \in 1 .. k : queue[i][2] = 0
      /\ k < T => \A i \in 1 .. n - k : queue[i + k][2] # 0
      /\ queue' = IF k < T THEN Append(SubSeq(queue, k + 1, n), <<g, T - k>>)
              ELSE SubSeq(queue, k + 1, n)
      /\ IF k < T THEN l = "paired" ELSE l \in {"in", "out"}
      /\ at' = [h \in G |-> IF h \in H THEN "relock" ELSE IF h = g THEN l ELSE at[h]]
  BY DEF ReleaseParts
<1>2. /\ at[g] = "release" /\ at \in [G -> C!PC] /\ queue \in Seq(G \X Nat)
      /\ seen \in [G -> Nat] /\ all \in [G -> BOOLEAN]
      /\ waiters \in Nat /\ UNCHANGED <<holder, waiters, wake>>
      /\ seen' = [seen EXCEPT ![g] = 0] /\ all' = [all EXCEPT ![g] = FALSE]
      /\ DOMAIN queue = 1 .. n
  <2>1. DOMAIN queue = 1 .. n
    BY <1>1, CondQueue
  <2>2. /\ at[g] = "release" /\ UNCHANGED <<holder, waiters, wake>>
        /\ seen' = [seen EXCEPT ![g] = 0] /\ all' = [all EXCEPT ![g] = FALSE]
    BY DEF C!Syncsemrelease, C!Forget
  <2>. QED BY <2>1, <2>2 DEF CInv, C!TypeOK
<1>. DEFINE m == n - k  S == SubSeq(queue, k + 1, n)
<1>3. m \in Nat /\ \A i \in 1 .. m : i + k \in 1 .. n
  BY <1>1
<1>4. S \in Seq(G \X Nat) /\ Len(S) = m /\ \A i \in 1 .. m : S[i] = queue[i + k]
  <2>1. S = [i \in 1 .. m |-> queue[k + i]] /\ \A i \in 1 .. m : k + i = i + k
    BY <1>1, <1>2
  <2>2. \A i \in 1 .. n : queue[i] \in G \X Nat
    BY <1>1, <1>2
  <2>3. \A i \in 1 .. m : queue[k + i] \in G \X Nat
    BY <1>3, <2>1, <2>2
  <2>4. k + 1 \in Nat /\ Len(S) = m
    BY <1>1, <1>2
  <2>. HIDE DEF S, m
  <2>5. S \in [1 .. m -> G \X Nat]
    BY <2>1, <2>3
  <2>. QED BY <1>3, <2>1, <2>4, <2>5
<1>5. /\ queue' \in Seq(G \X Nat) /\ \A i \in 1 .. m : queue'[i] = queue[i + k]
      /\ IF k < T THEN Len(queue') = m + 1 /\ queue'[m + 1] = <<g, T - k>> ELSE Len(queue') = m
  <2>. HIDE DEF S, m
  <2>1. CASE k < T
    <3>0. T - k \in Nat
      BY <1>1
    <3>1. queue' = Append(S, <<g, T - k>>)
      BY <2>1 DEF S, ReleaseParts
    <3>2. <<g, T - k>> \in G \X Nat
      BY <3>0
    <3>3. queue' \in Seq(G \X Nat) /\ Len(queue') = m + 1
      BY <1>4, <3>1, <3>2
    <3>4. queue'[m + 1] = <<g, T - k>>
      BY <1>4, <3>1
    <3>5. \A i \in 1 .. m : queue'[i] = S[i]
      BY <1>3, <1>4, <3>1
    <3>. QED BY <1>4, <2>1, <3>3, <3>4, <3>5
  <2>2. CASE ~(k < T)
    BY <1>1, <1>4, <2>2 DEF S
  <2>. QED BY <2>1, <2>2
<1>. HIDE DEF S, m
<1>6. H \subseteq C!Waiting /\ IsFiniteSet(H) /\ Cardinality(H) = k /\ \A h \in H : at[h] = "parked"
  BY <1>1, FirstOnes
<1>7. H \subseteq G /\ g \notin H /\ l # "ready" /\ l \notin {"cas", "release"} /\ l \in C!PC
  BY <1>1, <1>2, <1>6 DEF C!Waiting, C!PC
<1>8. /\ \A h \in H : at'[h] = "relock"
      /\ at'[g] = l
      /\ \A h \in G \ H : h # g => at'[h] = at[h]
  BY <1>1, <1>7
<1>9. C!TypeOK'
  BY <1>1, <1>2, <1>5, <1>7 DEF CInv, C!TypeOK, C!PC
<1>10. \A i \in 1 .. m : /\ queue'[i][1] \in G \ H /\ queue'[i][1] # g /\ queue'[i][2] \in Nat
                         /\ at'[queue'[i][1]] = IF queue'[i][2] = 0 THEN "parked" ELSE "paired"
                         /\ k < T => queue'[i][2] # 0
  <2>1. ASSUME NEW i \in 1 .. m PROVE queue[i + k][1] \notin H
    <3>1. \A j \in 1 .. k : j \in 1 .. n /\ j # i + k
      BY <1>1, <1>3
    <3>2. \A j \in 1 .. k : queue[j][1] # queue[i + k][1]
      BY <1>1, <1>3, <3>1, CondQueue
    <3>. QED BY <1>1, <3>2
  <2>2. ASSUME NEW i \in 1 .. m
        PROVE  /\ queue[i + k][1] \in G /\ queue[i + k][1] # g /\ queue[i + k][2] \in Nat
               /\ at[queue[i + k][1]] = IF queue[i + k][2] = 0 THEN "parked" ELSE "paired"
    BY <1>1, <1>2, <1>3, CondQueue
  <2>3. k < T => \A i \in 1 .. m : queue[i + k][2] # 0
    BY <1>1 DEF m
  <2>. QED BY <1>5, <1>8, <2>1, <2>2, <2>3
<1>11. \A i, j \in 1 .. m : queue'[i][1] = queue'[j][1] => i = j
  <2>1. \A i, j \in 1 .. m : queue[i + k][1] = queue[j + k][1] => i + k = j + k
    BY <1>1, <1>3, CondQueue
  <2>2. \A i, j \in 1 .. m : i + k = j + k => i = j
    BY <1>1
  <2>. QED BY <1>5, <2>1, <2>2
<1>12. \A h \in G : at'[h] = "ready" =>
         /\ at[h] = "ready" /\ h # g /\ wake[h] \in G \ H /\ wake[h] # g /\ at'[wake[h]] = "paired"
         /\ \A i \in 1 .. m : queue'[i][1] # wake[h]
  <2>1. ASSUME NEW h \in G, at'[h] = "ready"
        PROVE  /\ at[h] = "ready" /\ h # g /\ wake[h] \in G /\ at[wake[h]] = "paired"
               /\ \A i \in 1 .. n : queue[i][1] # wake[h]
    <3>1. at[h] = "ready" /\ h # g
      BY <1>7, <1>8, <2>1
    <3>. QED BY <1>2, <3>1 DEF CInv, C!ReadyFindsParked, Pairing
  <2>2. ASSUME NEW h \in G, at'[h] = "ready"
        PROVE  wake[h] \notin H /\ wake[h] # g
    BY <1>2, <1>6, <2>1, <2>2
  <2>3. ASSUME NEW h \in G, at'[h] = "ready"
        PROVE  /\ at'[wake[h]] = "paired"
               /\ \A i \in 1 .. m : queue'[i][1] # wake[h]
    <3>1. wake[h] \in G \ H /\ wake[h] # g
      BY <2>1, <2>2, <2>3
    <3>2. \A i \in 1 .. n : queue[i][1] # wake[h]
      BY <2>1, <2>3
    <3>3. at'[wake[h]] = "paired"
      BY <1>8, <2>1, <2>3, <3>1
    <3>4. \A i \in 1 .. m : queue'[i][1] # wake[h]
      BY <1>3, <1>5, <3>2
    <3>. QED BY <3>3, <3>4
  <2>. QED BY <2>1, <2>2, <2>3
<1>13. C!ReadyFindsParked'
  <2>1. \A h \in G : at'[h] = "ready" => at'[wake'[h]] = "paired"
    BY <1>2, <1>12
  <2>2. CASE k < T
    <3>1. /\ DOMAIN queue' = 1 .. m + 1 /\ queue'[m + 1][1] = g /\ queue'[m + 1][2] # 0
          /\ at'[g] = "paired" /\ \A i \in 1 .. m + 1 : i # m + 1 => i \in 1 .. m
      BY <1>1, <1>3, <1>5, <1>8, <2>2
    <3>. HIDE DEF CInv
    <3>2. \A i, j \in 1 .. m + 1 : queue'[i][1] = queue'[j][1] => i = j
      BY <1>10, <1>11, <3>1
    <3>3. \A i \in 1 .. m + 1 : at'[queue'[i][1]] = IF queue'[i][2] = 0 THEN "parked" ELSE "paired"
      BY <1>10, <3>1
    <3>4. \A h \in G : at'[h] = "ready" => \A i \in 1 .. m + 1 : queue'[i][1] # wake'[h]
      BY <1>2, <1>12, <3>1
    <3>. QED BY <2>1, <3>1, <3>2, <3>3, <3>4 DEF C!ReadyFindsParked
  <2>3. CASE ~(k < T)
    <3>1. DOMAIN queue' = 1 .. m
      BY <1>3, <1>5, <2>3
    <3>. QED BY <1>2, <1>10, <1>11, <1>12, <2>1, <3>1 DEF C!ReadyFindsParked
  <2>. QED BY <2>2, <2>3
<1>14. Pairing'
  <2>1. \A h \in G : at'[h] \in {"cas", "release"} => at[h] = at'[h] /\ h # g
    BY <1>7, <1>8
  <2>2. \A h \in G : at'[h] \in {"cas", "release"} => seen'[h] # 0
    BY <1>2, <2>1 DEF CInv, Pairing
  <2>3. /\ \A h \in G : at'[h] = "ready" => wake'[h] \in G
        /\ \A h, i \in G : at'[h] = "ready" /\ at'[i] = "ready" /\ wake'[h] = wake'[i] => h = i
    BY <1>2, <1>12 DEF CInv, Pairing
  <2>4. \A i, j \in DOMAIN queue' : queue'[i][2] = 0 => queue'[j][2] = 0
    <3>1. CASE k < T
      <4>1. \A i \in 1 .. m + 1 : i # m + 1 => i \in 1 .. m
        BY <1>3
      <4>2. DOMAIN queue' = 1 .. m + 1 /\ queue'[m + 1][2] # 0
        BY <1>1, <1>3, <1>5, <3>1
      <4>. QED BY <1>10, <3>1, <4>1, <4>2
    <3>2. CASE ~(k < T)
      <4>1. DOMAIN queue' = 1 .. m
        BY <1>3, <1>5, <3>2
      <4>2. \A i, j \in 1 .. m : queue[i + k][2] = 0 => queue[j + k][2] = 0
        BY <1>1, <1>3, CondQueue
      <4>. QED BY <1>5, <4>1, <4>2
    <3>. QED BY <3>1, <3>2
  <2>. QED BY <2>2, <2>3, <2>4 DEF Pairing
<1>15. C!Waiting' = C!Waiting \ H
  <2>1. at'[g] \notin {"unlock", "acquire", "parked"}
    BY <1>1, <1>8
  <2>. QED BY <1>2, <1>7, <1>8, <2>1 DEF C!Waiting
<1>16. ASSUME NEW h, NEW j PROVE Owed(h, j)' <=> Owed(h, j) /\ ~(h = g /\ j \in T - k + 1 .. T)
  <2>1. Pends(h, j)' <=> Pends(h, j) \/ (h = g /\ j \in 1 .. T - k)
    <3>1. Pends(h, j) <=> \E i \in 1 .. m : queue[i + k][1] = h /\ j \in 1 .. queue[i + k][2]
      <4>1. ASSUME NEW i \in 1 .. n, i \notin 1 .. k PROVE i - k \in 1 .. m /\ (i - k) + k = i
        <5>1. i \in Nat /\ k \in Nat /\ n \in Nat
          BY <1>1
        <5>. HIDE DEF CInv
        <5>. QED BY <4>1, <5>1 DEF m
      <4>2. \A i \in 1 .. k : 1 .. queue[i][2] = {}
        BY <1>1
      <4>. QED BY <1>1, <1>3, <4>1, <4>2 DEF Pends
    <3>2. CASE k < T
      <4>1. \A i \in 1 .. m + 1 : i # m + 1 => i \in 1 .. m
        BY <1>3
      <4>2. m + 1 \in 1 .. m + 1 /\ \A i \in 1 .. m : i \in 1 .. m + 1
        BY <1>3
      <4>3. Len(queue') = m + 1 /\ queue'[m + 1][1] = g /\ queue'[m + 1][2] = T - k
        BY <1>5, <3>2
      <4>. QED BY <1>5, <3>1, <4>1, <4>2, <4>3 DEF Pends
    <3>3. CASE ~(k < T)
      <4>1. Len(queue') = m /\ 1 .. T - k = {}
        BY <1>1, <1>5, <3>3
      <4>. QED BY <1>5, <3>1, <4>1 DEF Pends
    <3>. QED BY <3>2, <3>3
  <2>2. h = g => ~Pends(h, j)
    BY <1>1, <1>2, CondQueue DEF Pends
  <2>3. h \in G \ {g} => C!Take(h)' = C!Take(h) /\ (at'[h] = "release" <=> at[h] = "release")
    BY <1>2, <1>6, <1>8 DEF C!Take
  <2>4. ~(at'[g] = "release")
    BY <1>7, <1>8
  <2>5. CASE h = g
    <3>1. Owed(h, j)' <=> j \in 1 .. T - k
      BY <2>1, <2>2, <2>4, <2>5 DEF Owed
    <3>2. Owed(h, j) <=> j \in 1 .. T
      BY <1>1, <1>2, <2>2, <2>5 DEF Owed
    <3>. QED BY <1>1, <2>5, <3>1, <3>2
  <2>6. CASE h # g
    BY <2>1, <2>3, <2>6 DEF Owed
  <2>. QED BY <2>5, <2>6
<1>17. Sums'
  <2>1. Len(queue) = n /\ T = C!Take(g)
    BY <1>1
  <2>. QED BY <1>1, <1>2, <1>5, <1>6, <1>15, <1>16, SeveralAnswered
<1>. QED BY <1>9, <1>13, <1>14, <1>17 DEF CInv

LEMMA CondNext ==
  ASSUME CInv, [C!Next]_(C!vars)
  PROVE  CInv'
<1>1. CASE UNCHANGED C!vars
  BY <1>1 DEF C!vars, CInv, C!TypeOK, C!ReadyFindsParked, Pairing, Sums, C!Waiting,
              C!Granted, C!Take
<1>2. ASSUME NEW g \in G, \/ C!LockL(g) \/ C!UnlockL(g) \/ C!Wait(g)
                          \/ \E toAll \in BOOLEAN : C!Signal(g, toAll)
                          \/ C!Syncsemacquire(g) \/ C!Goready(g) \/ C!Load(g)
                          \/ C!CasWaiters(g) \/ C!Syncsemrelease(g)
      PROVE  CInv'
  BY <1>2, CondQuiet, CondWait, CondAcquire, CondGoready, CondCas, CondRelease
<1>. QED BY <1>1, <1>2, CondSteps

\* Every goroutine in Wait that has not been woken is counted once, by the count of
\* cond.go or as a wakeup that a Signal or Broadcast owes: none is dropped and none is
\* made twice, whatever order acquires and releases reach the syncSema in.
THEOREM WakeupsAreCounted == C!Spec => []C!WakeupsCounted
<1>1. CInv => C!WakeupsCounted
  <2>1. CInv => Cardinality(C!Waiting) = waiters + Cardinality(C!Granted)
    BY DEF CInv, Sums
  <2>2. CInv => C!TypeOK /\ C!ReadyFindsParked
    BY DEF CInv
  <2>3. \A S : C!Cardinality(S) = Cardinality(S)
    BY Zenon DEF C!Cardinality, Cardinality
  <2>. QED BY <2>1, <2>2, <2>3 DEF C!WakeupsCounted
<1>. QED BY <1>1, CondInit, CondNext, PTL DEF C!Spec

-----------------------------------------------------------------------------
\* runtime/lock_futex.go, below both, for any set of threads: FutexLock with its program
\* counter renamed, and the abstract Lock that it implements.
CONSTANT Thread
VARIABLES key, wait, where, asleep
F == INSTANCE FutexLock WITH pc <- where
FL == INSTANCE Lock WITH Proc <- Thread, phase <- F!Phase

\* What the sleepers' invariant rests on: only a thread in futexsleep is
\* queued, and whoever goes there has decided to mark the word "sleeping".
SleepersMark ==
  /\ asleep \subseteq {t \in Thread : where[t] = "blocked"}
  /\ \A t \in Thread :
       where[t] \in {"futexsleep", "blocked"} => wait[t] = F!mutex_sleeping

FInv == F!TypeOK /\ F!OneHolder /\ F!NeverThrown /\ SleepersMark /\ F!SleeperRemembered

USE DEF F!mutex_unlocked, F!mutex_locked, F!mutex_sleeping

LEMMA FInvInit == F!Init => FInv
  BY DEF F!Init, FInv, F!TypeOK, F!OneHolder, F!NeverThrown, SleepersMark,
         F!SleeperRemembered, F!PC

\* Every operation keeps the word and the program counters in their ranges.
LEMMA FutexTypes == F!TypeOK /\ [F!Next]_(F!vars) => F!TypeOK'
<1>. SUFFICES ASSUME F!TypeOK, [F!Next]_(F!vars) PROVE F!TypeOK'
  OBVIOUS
<1>1. CASE UNCHANGED F!vars
  BY <1>1 DEF F!TypeOK, F!vars
<1>2. ASSUME NEW t \in Thread, F!Enter(t) \/ F!Speculate(t) \/ F!SpinAcquire(t)
      PROVE F!TypeOK'
  BY <1>2 DEF F!TypeOK, F!PC, F!Goto, F!Enter, F!Speculate, F!SpinAcquire
<1>3. ASSUME NEW t \in Thread, F!SpinOver(t) \/ F!Exchange(t) \/ F!FutexSleep(t)
      PROVE F!TypeOK'
  BY <1>3 DEF F!TypeOK, F!PC, F!Goto, F!SpinOver, F!Exchange, F!FutexSleep
<1>4. ASSUME NEW t \in Thread, F!FutexReturn(t) \/ F!SpuriousWakeup(t) \/ F!Unlock(t)
      PROVE F!TypeOK'
  BY <1>4 DEF F!TypeOK, F!PC, F!Goto, F!FutexReturn, F!SpuriousWakeup, F!Unlock
<1>5. ASSUME NEW t \in Thread, F!Wakeup(t) PROVE F!TypeOK'
  BY <1>5 DEF F!TypeOK, F!PC, F!Goto, F!Wakeup
<1>. QED
  BY <1>1, <1>2, <1>3, <1>4, <1>5 DEF F!Next, F!Step

\* The word tells whether the lock is held, so it has one holder at a time and
\* unlock finds it locked.
LEMMA FutexOneHolder ==
  F!TypeOK /\ F!OneHolder /\ F!NeverThrown /\ [F!Next]_(F!vars)
    => F!OneHolder' /\ F!NeverThrown'
<1>. SUFFICES ASSUME F!TypeOK, F!OneHolder, F!NeverThrown, [F!Next]_(F!vars)
              PROVE F!OneHolder' /\ F!NeverThrown'
  OBVIOUS
<1>. USE DEF F!TypeOK, F!OneHolder, F!NeverThrown, F!Goto
<1>1. CASE UNCHANGED F!vars
  BY <1>1 DEF F!vars
<1>2. ASSUME NEW t \in Thread, F!Enter(t) \/ F!SpinOver(t) \/ F!FutexReturn(t)
      PROVE F!OneHolder' /\ F!NeverThrown'
  BY <1>2 DEF F!Enter, F!SpinOver, F!FutexReturn
<1>3. ASSUME NEW t \in Thread, F!Speculate(t) PROVE F!OneHolder' /\ F!NeverThrown'
  BY <1>3 DEF F!Speculate
<1>4. ASSUME NEW t \in Thread, F!SpinAcquire(t) PROVE F!OneHolder' /\ F!NeverThrown'
  BY <1>4 DEF F!SpinAcquire
<1>5. ASSUME NEW t \in Thread, F!Exchange(t) PROVE F!OneHolder' /\ F!NeverThrown'
  BY <1>5 DEF F!Exchange
<1>6. ASSUME NEW t \in Thread, F!FutexSleep(t) \/ F!SpuriousWakeup(t) \/ F!Wakeup(t)
      PROVE F!OneHolder' /\ F!NeverThrown'
  BY <1>6 DEF F!FutexSleep, F!SpuriousWakeup, F!Wakeup
<1>7. ASSUME NEW t \in Thread, F!Unlock(t) PROVE F!OneHolder' /\ F!NeverThrown'
  BY <1>7 DEF F!Unlock
<1>. QED
  BY <1>1, <1>2, <1>3, <1>4, <1>5, <1>6, <1>7 DEF F!Next, F!Step

LEMMA FutexSleepersMark ==
  F!TypeOK /\ SleepersMark /\ [F!Next]_(F!vars) => SleepersMark'
<1>. SUFFICES ASSUME F!TypeOK, SleepersMark, [F!Next]_(F!vars) PROVE SleepersMark'
  OBVIOUS
<1>. USE DEF F!TypeOK, SleepersMark, F!Goto
<1>1. CASE UNCHANGED F!vars
  BY <1>1 DEF F!vars
<1>2. ASSUME NEW t \in Thread, F!Enter(t) \/ F!Speculate(t) \/ F!SpinAcquire(t)
      PROVE SleepersMark'
  BY <1>2 DEF F!Enter, F!Speculate, F!SpinAcquire
<1>3. ASSUME NEW t \in Thread, F!SpinOver(t) \/ F!Exchange(t) PROVE SleepersMark'
  BY <1>3 DEF F!SpinOver, F!Exchange
<1>4. ASSUME NEW t \in Thread, F!FutexSleep(t) \/ F!FutexReturn(t) PROVE SleepersMark'
  BY <1>4 DEF F!FutexSleep, F!FutexReturn
<1>5. ASSUME NEW t \in Thread, F!SpuriousWakeup(t) \/ F!Unlock(t) \/ F!Wakeup(t)
      PROVE SleepersMark'
  BY <1>5 DEF F!SpuriousWakeup, F!Unlock, F!Wakeup
<1>. QED
  BY <1>1, <1>2, <1>3, <1>4, <1>5 DEF F!Next, F!Step

\* Who overwrites "sleeping" becomes responsible, and who stops being
\* responsible has stored "sleeping" again or woken a sleeper, who then is.
LEMMA FutexRemembers ==
  F!TypeOK /\ SleepersMark /\ F!SleeperRemembered /\ [F!Next]_(F!vars)
    => F!SleeperRemembered'
<1>. SUFFICES ASSUME F!TypeOK, SleepersMark, F!SleeperRemembered, [F!Next]_(F!vars)
              PROVE F!SleeperRemembered'
  OBVIOUS
<1>. USE DEF F!TypeOK, SleepersMark, F!SleeperRemembered, F!Responsible, F!Goto
<1>1. CASE UNCHANGED F!vars
  BY <1>1 DEF F!vars
<1>2. ASSUME NEW t \in Thread, F!Enter(t) \/ F!SpinOver(t) \/ F!FutexReturn(t)
      PROVE F!SleeperRemembered'
  BY <1>2 DEF F!Enter, F!SpinOver, F!FutexReturn
<1>3. ASSUME NEW t \in Thread, F!Speculate(t) PROVE F!SleeperRemembered'
  BY <1>3 DEF F!Speculate
<1>4. ASSUME NEW t \in Thread, F!SpinAcquire(t) PROVE F!SleeperRemembered'
  BY <1>4 DEF F!SpinAcquire
<1>5. ASSUME NEW t \in Thread, F!Exchange(t) \/ F!FutexSleep(t)
      PROVE F!SleeperRemembered'
  BY <1>5 DEF F!Exchange, F!FutexSleep
<1>6. ASSUME NEW t \in Thread, F!SpuriousWakeup(t) PROVE F!SleeperRemembered'
  BY <1>6 DEF F!SpuriousWakeup
<1>7. ASSUME NEW t \in Thread, F!Unlock(t) PROVE F!SleeperRemembered'
  BY <1>7 DEF F!Unlock
<1>8. ASSUME NEW t \in Thread, F!Wakeup(t) PROVE F!SleeperRemembered'
  BY <1>8 DEF F!Wakeup
<1>. QED
  BY <1>1, <1>2, <1>3, <1>4, <1>5, <1>6, <1>7, <1>8 DEF F!Next, F!Step

LEMMA FInvHolds == F!SafeSpec => []FInv
<1>1. FInv /\ [F!Next]_(F!vars) => FInv'
  BY FutexTypes, FutexOneHolder, FutexSleepersMark, FutexRemembers DEF FInv
<1>. QED
  BY FInvInit, <1>1, PTL DEF F!SafeSpec

\* The word, the program counters and the futex queue keep their types.
THEOREM FutexTypeCorrect == F!Spec => []F!TypeOK
  BY FInvHolds, PTL DEF F!Spec, FInv

\* At most one thread is between lock and unlock, for any number of threads.
THEOREM FutexExclusion == F!Spec => [](F!OneHolder /\ F!NeverThrown)
  BY FInvHolds, PTL DEF F!Spec, FInv

\* Whoever overwrites "sleeping" repairs it: no sleeper is forgotten.
THEOREM NoSleeperForgotten == F!Spec => []F!SleeperRemembered
  BY FInvHolds, PTL DEF F!Spec, FInv

\* lock/unlock implement the safety part of Lock: every step on the word is a
\* Request, an Acquire of a free lock, a Release, or none of Lock's business.
THEOREM FutexRefinesLock == F!Spec => FL!SafeSpec
<1>1. F!Init => FL!Init
  BY DEF F!Init, FL!Init, F!Phase
<1>2. F!TypeOK /\ F!OneHolder /\ F!NeverThrown /\ [F!Next]_(F!vars) => [FL!Next]_(F!Phase)
  <2>. SUFFICES ASSUME F!TypeOK, F!OneHolder, F!NeverThrown, [F!Next]_(F!vars)
                PROVE [FL!Next]_(F!Phase)
    OBVIOUS
  <2>. USE DEF F!TypeOK, F!Goto, F!Phase, FL!Next
  <2>1. CASE UNCHANGED F!vars
    BY <2>1 DEF F!vars
  <2>2. ASSUME NEW t \in Thread, F!Enter(t) PROVE FL!Request(t)
    BY <2>2 DEF F!Enter, FL!Request
  <2>3. ASSUME NEW t \in Thread, F!Speculate(t) PROVE FL!Acquire(t) \/ F!Phase' = F!Phase
    <3>1. CASE key = F!mutex_unlocked
      BY <2>3, <3>1 DEF F!Speculate, FL!Acquire, FL!Free, F!OneHolder
    <3>2. CASE key # F!mutex_unlocked
      BY <2>3, <3>2 DEF F!Speculate
    <3>. QED BY <3>1, <3>2
  <2>4. ASSUME NEW t \in Thread, F!SpinAcquire(t) PROVE FL!Acquire(t)
    BY <2>4 DEF F!SpinAcquire, FL!Acquire, FL!Free, F!OneHolder
  <2>5. ASSUME NEW t \in Thread, F!Exchange(t) PROVE FL!Acquire(t) \/ F!Phase' = F!Phase
    <3>1. CASE key = F!mutex_unlocked
      BY <2>5, <3>1 DEF F!Exchange, FL!Acquire, FL!Free, F!OneHolder
    <3>2. CASE key # F!mutex_unlocked
      BY <2>5, <3>2 DEF F!Exchange
    <3>. QED BY <3>1, <3>2
  <2>6. ASSUME NEW t \in Thread, F!SpinOver(t) \/ F!FutexSleep(t) \/ F!FutexReturn(t)
        PROVE F!Phase' = F!Phase
    BY <2>6 DEF F!SpinOver, F!FutexSleep, F!FutexReturn
  <2>7. ASSUME NEW t \in Thread, F!SpuriousWakeup(t) \/ F!Wakeup(t)
        PROVE F!Phase' = F!Phase
    BY <2>7 DEF F!SpuriousWakeup, F!Wakeup
  <2>8. ASSUME NEW t \in Thread, F!Unlock(t) PROVE FL!Release(t)
    BY <2>8 DEF F!Unlock, FL!Release
  <2>. QED
    BY <2>1, <2>2, <2>3, <2>4, <2>5, <2>6, <2>7, <2>8 DEF F!Next, F!Step
<1>. QED
  BY <1>1, <1>2, FInvHolds, PTL DEF F!Spec, F!SafeSpec, FL!SafeSpec, FInv

-----------------------------------------------------------------------------
\* runtime/sema.go, on which Mutex sleeps: the semaphores of one root of semtable, for any
\* goroutines, any addresses that share the root and any number of tokens.  Sema with its
\* variables under other names, and the abstract Semaphore that it implements.
CONSTANTS Addr, MaxSem, NoAddr
VARIABLES tokens, rootlock, nwait, sudogs, stage, addr, readied
R == INSTANCE Sema WITH sem <- tokens, lock <- rootlock, queue <- sudogs, pc <- stage,
                        wake <- readied
RA == INSTANCE Semaphore WITH
        sem <- tokens,
        waiting <- [g \in G |-> IF stage[g] \in {"easy", "lock", "recheck", "parked", "woken"}
                                THEN addr[g] ELSE NoAddr]

\* What Sema assumes of its constants.
RootNames == MaxSem \in Nat \ {0} /\ NoG \notin G /\ NoAddr \notin Addr

\* root.lock is held by the goroutine that is between raising nwait and
\* parking, or lowering nwait again; whoever is in a call has its address.
LockHeld ==
  /\ \A g \in G : stage[g] \in {"recheck", "leave"} <=> rootlock = g
  /\ \A g \in G : stage[g] # "idle" => addr[g] \in Addr

\* nwait counts the queue, and the holder of the lock.
RootCounted == nwait = Len(sudogs) + (IF rootlock = NoG THEN 0 ELSE 1)

\* A goroutine is queued once, while it is parked, under the address it
\* acquires; one that is to be readied is parked as well, but queued no more, and
\* it waits for the address that was released.
WaitersParked ==
  /\ \A i \in DOMAIN sudogs : /\ stage[sudogs[i][1]] = "parked"
                             /\ addr[sudogs[i][1]] = sudogs[i][2]
  /\ \A i, j \in DOMAIN sudogs : sudogs[i][1] = sudogs[j][1] => i = j
  /\ \A g \in G : stage[g] = "ready" =>
       /\ readied[g] \in G /\ stage[readied[g]] = "parked" /\ addr[readied[g]] = addr[g]
       /\ \A i \in DOMAIN sudogs : sudogs[i][1] # readied[g]
       /\ \A h \in G : stage[h] = "ready" /\ readied[h] = readied[g] => h = g

TokensKnown == \A a \in Addr : R!Queued(a) # {} => tokens[a] <= Cardinality(R!Carriers(a))

SemInv == RootNames /\ R!TypeOK /\ LockHeld /\ RootCounted /\ WaitersParked

-----------------------------------------------------------------------------
\* The next step as one of its actions; the lemmas about steps split on it.
LEMMA SemSteps ==
  ASSUME [R!Next]_(R!vars)
  PROVE  \/ UNCHANGED R!vars
         \/ \E g \in G, a \in Addr : R!Semacquire(g, a) \/ R!Semrelease(g, a)
         \/ \E g \in G : R!TryAcquire(g) \/ R!LockRoot(g) \/ R!Recheck(g) \/ R!Leave(g)
         \/ \E g \in G : R!LoadNwait(g) \/ R!Search(g) \/ R!Goready(g)
  BY DEF R!Next, R!Call, R!Run, R!TakeLock

\* The queue without its i-th sudog.
LEMMA SudogRemoved ==
  ASSUME NEW S, NEW q \in Seq(S), NEW i \in DOMAIN q
  PROVE  /\ R!RemoveAt(q, i) \in Seq(S)
         /\ Len(R!RemoveAt(q, i)) = Len(q) - 1
         /\ \A j \in 1..Len(q) - 1 :
              R!RemoveAt(q, i)[j] = q[IF j < i THEN j ELSE j + 1]
<1>. DEFINE s == SubSeq(q, 1, i - 1)
            t == SubSeq(q, i + 1, Len(q))
<1>1. Len(q) \in Nat /\ DOMAIN q = 1..Len(q) /\ i \in 1..Len(q)
  BY LenProperties
<1>2. \A j \in 1..Len(q) : q[j] \in S
  BY ElementOfSeq
<1>3. /\ s \in Seq(S) /\ Len(s) = i - 1
      /\ \A j \in 1..i - 1 : s[j] = q[j]
  <2>. (i - 1) \in Int /\ \A j \in 1..i - 1 : q[j] \in S
    BY <1>1, <1>2
  <2>. QED BY <1>1, SubSeqProperties
<1>4. /\ t \in Seq(S) /\ Len(t) = Len(q) - i
      /\ \A j \in 1..Len(q) - i : t[j] = q[j + i]
  <2>1. (i + 1) \in Int /\ Len(q) \in Int /\ \A j \in i + 1..Len(q) : q[j] \in S
    BY <1>1, <1>2
  <2>2. /\ t \in Seq(S)
        /\ Len(t) = IF i + 1 <= Len(q) THEN Len(q) - (i + 1) + 1 ELSE 0
        /\ \A j \in 1..Len(q) - (i + 1) + 1 : t[j] = q[(i + 1) + j - 1]
    BY <2>1, SubSeqProperties
  <2>. QED BY <1>1, <2>2
<1>. HIDE DEF s, t
<1>5. /\ s \o t \in Seq(S) /\ Len(s \o t) = Len(q) - 1
      /\ \A j \in 1..Len(q) - 1 : (s \o t)[j] = IF j <= i - 1 THEN s[j] ELSE t[j - (i - 1)]
  <2>1. Len(s) + Len(t) = Len(q) - 1
    BY <1>1, <1>3, <1>4
  <2>2. /\ s \o t \in Seq(S) /\ Len(s \o t) = Len(s) + Len(t)
        /\ \A j \in 1..Len(s) + Len(t) :
             (s \o t)[j] = IF j <= Len(s) THEN s[j] ELSE t[j - Len(s)]
    BY <1>3, <1>4, ConcatProperties
  <2>. QED BY <1>3, <2>1, <2>2
<1>6. R!RemoveAt(q, i) = s \o t
  BY DEF R!RemoveAt, s, t
<1>7. ASSUME NEW j \in 1..Len(q) - 1
      PROVE  (s \o t)[j] = q[IF j < i THEN j ELSE j + 1]
  <2>1. CASE j < i
    BY <1>1, <1>3, <1>5, <2>1
  <2>2. CASE ~(j < i)
    <3>1. j - (i - 1) \in 1..Len(q) - i /\ ~(j <= i - 1)
      BY <1>1, <2>2
    <3>2. t[j - (i - 1)] = q[(j - (i - 1)) + i] /\ (j - (i - 1)) + i = j + 1
      BY <1>1, <1>4, <3>1
    <3>. QED BY <1>1, <1>5, <2>2, <3>1, <3>2
  <2>. QED BY <1>1, <2>1, <2>2
<1>. QED BY <1>5, <1>6, <1>7

LEMMA SemInit == RootNames /\ R!Init => SemInv /\ TokensKnown
<1>. SUFFICES ASSUME RootNames, R!Init PROVE SemInv /\ TokensKnown
  OBVIOUS
<1>1. sudogs = <<>> /\ sudogs \in Seq(G \X Addr) /\ Len(sudogs) = 0 /\ DOMAIN sudogs = {}
  BY EmptySeq DEF R!Init
<1>2. R!TypeOK
  BY <1>1 DEF RootNames, R!Init, R!TypeOK, R!PC
<1>3. LockHeld /\ RootCounted /\ WaitersParked
  BY <1>1 DEF RootNames, R!Init, LockHeld, RootCounted, WaitersParked
<1>4. TokensKnown
  BY <1>1 DEF TokensKnown, R!Queued
<1>. QED BY <1>2, <1>3, <1>4 DEF SemInv

\* What the queue is after somebody parks, and after somebody is taken off it.
LEMMA SemParked ==
  ASSUME SemInv, NEW g \in G, R!Recheck(g), ~R!Cansemacquire(g)
  PROVE  /\ sudogs' \in Seq(G \X Addr) /\ Len(sudogs') = Len(sudogs) + 1
         /\ DOMAIN sudogs = 1..Len(sudogs) /\ DOMAIN sudogs' = 1..Len(sudogs) + 1
         /\ Len(sudogs) \in Nat
         /\ \A i \in 1..Len(sudogs) : sudogs'[i] = sudogs[i]
         /\ sudogs'[Len(sudogs) + 1] = <<g, addr[g]>>
         /\ tokens[addr[g]] = 0 /\ UNCHANGED tokens /\ rootlock' = NoG /\ R!Goto(g, "parked")
<1>1. <<g, addr[g]>> \in G \X Addr
  BY DEF SemInv, LockHeld, R!Recheck
<1>2. /\ sudogs \in Seq(G \X Addr) /\ sudogs' = Append(sudogs, <<g, addr[g]>>)
      /\ tokens[addr[g]] = 0 /\ UNCHANGED tokens /\ rootlock' = NoG /\ R!Goto(g, "parked")
  BY DEF SemInv, R!TypeOK, R!Recheck
<1>. QED
  BY <1>1, <1>2, AppendProperties, LenProperties

\* A goroutine that finds a token under the lock changes neither lock nor queue.
LEMMA SemFoundToken ==
  ASSUME SemInv, NEW g \in G, R!Recheck(g), R!Cansemacquire(g)
  PROVE  /\ stage[g] = "recheck" /\ R!Goto(g, "leave")
         /\ UNCHANGED <<rootlock, sudogs, nwait, addr, readied>>
  BY DEF SemInv, R!TypeOK, LockHeld, R!Recheck, R!Cansemacquire

LEMMA SemTaken ==
  ASSUME SemInv, NEW g \in G, NEW i \in R!Queued(addr[g]), sudogs' = R!RemoveAt(sudogs, i)
  PROVE  /\ DOMAIN sudogs = 1..Len(sudogs) /\ Len(sudogs) \in Nat /\ i \in 1..Len(sudogs)
         /\ sudogs' \in Seq(G \X Addr) /\ Len(sudogs') = Len(sudogs) - 1
         /\ DOMAIN sudogs' = 1..Len(sudogs) - 1
         /\ \A j \in 1..Len(sudogs) - 1 : sudogs'[j] = sudogs[IF j < i THEN j ELSE j + 1]
         /\ \A j \in 1..Len(sudogs) : sudogs[j] \in G \X Addr
<1>1. sudogs \in Seq(G \X Addr) /\ i \in DOMAIN sudogs
  BY DEF SemInv, R!TypeOK, R!Queued
<1>. QED
  BY <1>1, SudogRemoved, LenProperties, ElementOfSeq

LEMMA SemTypes == SemInv /\ [R!Next]_(R!vars) => R!TypeOK'
<1>. SUFFICES ASSUME SemInv, [R!Next]_(R!vars) PROVE R!TypeOK'
  OBVIOUS
<1>. USE DEF R!Goto, R!PC
<1>0. R!TypeOK /\ LockHeld /\ RootCounted
  BY DEF SemInv
<1>1. CASE UNCHANGED R!vars
  BY <1>0, <1>1 DEF R!vars, R!TypeOK
<1>2. ASSUME NEW g \in G, NEW a \in Addr, R!Semacquire(g, a) \/ R!Semrelease(g, a)
      PROVE  R!TypeOK'
  <2>1. CASE R!Semacquire(g, a)
    BY <1>0, <2>1 DEF R!TypeOK, R!Semacquire
  <2>2. CASE R!Semrelease(g, a)
    <3>1. tokens[a] + 1 \in 0..MaxSem
      BY <1>0, <2>2 DEF SemInv, RootNames, R!TypeOK, R!Semrelease
    <3>. QED BY <1>0, <2>2, <3>1 DEF R!TypeOK, R!Semrelease
  <2>. QED BY <1>2, <2>1, <2>2
<1>3. ASSUME NEW g \in G, R!Cansemacquire(g), stage[g] # "idle" PROVE tokens' \in [Addr -> 0..MaxSem]
  BY <1>0, <1>3 DEF SemInv, RootNames, R!TypeOK, LockHeld, R!Cansemacquire
<1>4. ASSUME NEW g \in G, R!TryAcquire(g) PROVE R!TypeOK'
  BY <1>0, <1>3, <1>4 DEF R!TypeOK, R!TryAcquire
<1>5. ASSUME NEW g \in G, R!LockRoot(g) PROVE R!TypeOK'
  BY <1>0, <1>5 DEF R!TypeOK, R!LockRoot
<1>6. ASSUME NEW g \in G, R!Recheck(g) PROVE R!TypeOK'
  <2>1. CASE R!Cansemacquire(g)
    <3>1. stage[g] = "recheck" /\ R!Goto(g, "leave") /\ UNCHANGED <<rootlock, sudogs, nwait, addr, readied>>
      BY <1>6, <2>1, SemFoundToken
    <3>. QED BY <1>0, <1>3, <2>1, <3>1 DEF R!TypeOK
  <2>2. CASE ~R!Cansemacquire(g)
    BY <1>0, <1>6, <2>2, SemParked DEF R!TypeOK, R!Recheck
  <2>. QED BY <2>1, <2>2
<1>7. ASSUME NEW g \in G, R!Leave(g) PROVE R!TypeOK'
  <2>1. rootlock = g /\ rootlock # NoG
    BY <1>0, <1>7 DEF SemInv, RootNames, R!Leave, LockHeld
  <2>2. Len(sudogs) \in Nat
    BY <1>0, LenProperties DEF R!TypeOK
  <2>3. nwait - 1 \in Nat
    BY <1>0, <2>1, <2>2 DEF RootCounted
  <2>. QED BY <1>0, <1>7, <2>3 DEF R!TypeOK, R!Leave
<1>8. ASSUME NEW g \in G, R!LoadNwait(g) PROVE R!TypeOK'
  BY <1>0, <1>8 DEF R!TypeOK, R!LoadNwait
<1>9. ASSUME NEW g \in G, R!Search(g) PROVE R!TypeOK'
  <2>1. ASSUME NEW i \in R!Queued(addr[g]), sudogs' = R!RemoveAt(sudogs, i), nwait' = nwait - 1,
               readied' = [readied EXCEPT ![g] = sudogs[i][1]], R!Goto(g, "ready"),
               UNCHANGED <<tokens, rootlock, addr>>
        PROVE  R!TypeOK'
    <3>1. sudogs' \in Seq(G \X Addr) /\ sudogs[i][1] \in G
      BY <2>1, SemTaken
    <3>2. nwait - 1 \in Nat
      BY <1>0, <1>9, <2>1, SemTaken DEF RootCounted, R!Search
    <3>. QED BY <1>0, <2>1, <3>1, <3>2 DEF R!TypeOK
  <2>2. CASE R!Queued(addr[g]) = {}
    BY <1>0, <1>9, <2>2 DEF R!TypeOK, R!Search
  <2>. QED BY <1>9, <2>1, <2>2 DEF R!Search
<1>10. ASSUME NEW g \in G, R!Goready(g) PROVE R!TypeOK'
  BY <1>0, <1>10 DEF R!TypeOK, R!Goready
<1>. QED
  BY <1>1, <1>2, <1>4, <1>5, <1>6, <1>7, <1>8, <1>9, <1>10, SemSteps

LEMMA SemLockHeld == SemInv /\ [R!Next]_(R!vars) => LockHeld'
<1>. SUFFICES ASSUME SemInv, [R!Next]_(R!vars) PROVE LockHeld'
  OBVIOUS
<1>. USE DEF R!Goto
<1>0. R!TypeOK /\ LockHeld
  BY DEF SemInv
<1>1. CASE UNCHANGED R!vars
  BY <1>0, <1>1 DEF R!vars, LockHeld
<1>2. ASSUME NEW g \in G, NEW a \in Addr, R!Semacquire(g, a) \/ R!Semrelease(g, a)
      PROVE  LockHeld'
  BY <1>0, <1>2 DEF R!TypeOK, LockHeld, R!Semacquire, R!Semrelease
<1>3. ASSUME NEW g \in G, R!TryAcquire(g) PROVE LockHeld'
  BY <1>0, <1>3 DEF R!TypeOK, LockHeld, R!TryAcquire
<1>4. ASSUME NEW g \in G, R!LockRoot(g) PROVE LockHeld'
  BY <1>0, <1>4 DEF SemInv, RootNames, R!TypeOK, LockHeld, R!LockRoot
<1>5. ASSUME NEW g \in G, R!Recheck(g) PROVE LockHeld'
  <2>1. CASE R!Cansemacquire(g)
    BY <1>0, <1>5, <2>1, SemFoundToken DEF R!TypeOK, LockHeld
  <2>2. CASE ~R!Cansemacquire(g)
    BY <1>0, <1>5, <2>2, SemParked DEF SemInv, RootNames, R!TypeOK, LockHeld, R!Recheck
  <2>. QED BY <2>1, <2>2
<1>6. ASSUME NEW g \in G, R!Leave(g) PROVE LockHeld'
  BY <1>0, <1>6 DEF SemInv, RootNames, R!TypeOK, LockHeld, R!Leave
<1>7. ASSUME NEW g \in G, R!LoadNwait(g) PROVE LockHeld'
  BY <1>0, <1>7 DEF R!TypeOK, LockHeld, R!LoadNwait
<1>8. ASSUME NEW g \in G, R!Search(g) PROVE LockHeld'
  <2>1. stage[g] = "search" /\ UNCHANGED <<rootlock, addr>> /\ \E l \in {"ready", "idle"} : R!Goto(g, l)
    BY <1>8 DEF R!Search
  <2>. QED BY <1>0, <2>1 DEF R!TypeOK, LockHeld
<1>9. ASSUME NEW g \in G, R!Goready(g) PROVE LockHeld'
  <2>1. readied[g] \in G /\ stage[readied[g]] = "parked" /\ readied[g] # g
    BY <1>9 DEF SemInv, WaitersParked, R!Goready
  <2>. QED BY <1>0, <1>9, <2>1 DEF R!TypeOK, LockHeld, R!Goready
<1>. QED
  BY <1>1, <1>2, <1>3, <1>4, <1>5, <1>6, <1>7, <1>8, <1>9, SemSteps

LEMMA SemRootCounted == SemInv /\ [R!Next]_(R!vars) => RootCounted'
<1>. SUFFICES ASSUME SemInv, [R!Next]_(R!vars) PROVE RootCounted'
  OBVIOUS
<1>0. R!TypeOK /\ LockHeld /\ RootCounted /\ Len(sudogs) \in Nat
  BY LenProperties DEF SemInv, R!TypeOK
<1>1. CASE UNCHANGED <<rootlock, nwait, sudogs>>
  BY <1>0, <1>1 DEF RootCounted
<1>2. ASSUME NEW g \in G, NEW a \in Addr, R!Semacquire(g, a) \/ R!Semrelease(g, a)
      PROVE  RootCounted'
  BY <1>1, <1>2 DEF R!Semacquire, R!Semrelease
<1>3. ASSUME NEW g \in G, R!TryAcquire(g) \/ R!LoadNwait(g) \/ R!Goready(g) PROVE RootCounted'
  BY <1>1, <1>3 DEF R!TryAcquire, R!LoadNwait, R!Goready
<1>4. ASSUME NEW g \in G, R!LockRoot(g) PROVE RootCounted'
  BY <1>0, <1>4 DEF SemInv, RootNames, RootCounted, R!LockRoot
<1>5. ASSUME NEW g \in G, R!Recheck(g) PROVE RootCounted'
  <2>1. CASE R!Cansemacquire(g)
    BY <1>1, <1>5, <2>1, SemFoundToken
  <2>2. CASE ~R!Cansemacquire(g)
    <3>1. rootlock = g /\ rootlock # NoG /\ UNCHANGED nwait
      BY <1>0, <1>5 DEF SemInv, RootNames, LockHeld, R!Recheck
    <3>2. rootlock' = NoG /\ Len(sudogs') = Len(sudogs) + 1
      BY <1>5, <2>2, SemParked
    <3>. QED BY <1>0, <3>1, <3>2 DEF RootCounted
  <2>. QED BY <2>1, <2>2
<1>6. ASSUME NEW g \in G, R!Leave(g) PROVE RootCounted'
  <2>1. rootlock = g /\ rootlock # NoG
    BY <1>0, <1>6 DEF SemInv, RootNames, LockHeld, R!Leave
  <2>. QED BY <1>0, <1>6, <2>1 DEF RootCounted, R!Leave
<1>7. ASSUME NEW g \in G, R!Search(g) PROVE RootCounted'
  <2>1. ASSUME NEW i \in R!Queued(addr[g]), sudogs' = R!RemoveAt(sudogs, i), nwait' = nwait - 1
        PROVE  RootCounted'
    <3>1. Len(sudogs') = Len(sudogs) - 1
      BY <2>1, SemTaken
    <3>. QED BY <1>0, <1>7, <2>1, <3>1 DEF RootCounted, R!Search
  <2>. QED BY <1>1, <1>7, <2>1 DEF R!Search
<1>. QED
  BY <1>1, <1>2, <1>3, <1>4, <1>5, <1>6, <1>7, SemSteps DEF R!vars

\* While nobody joins or leaves the queue, and nobody starts to ready, it is
\* enough that the parked stay parked where they are.
LEMMA SemSameWaiters ==
  ASSUME SemInv, UNCHANGED sudogs,
         \A g \in G : stage[g] = "parked" => stage'[g] = "parked" /\ addr'[g] = addr[g],
         \A g \in G : stage'[g] = "ready" =>
           stage[g] = "ready" /\ readied'[g] = readied[g] /\ addr'[g] = addr[g]
  PROVE  WaitersParked'
<1>1. \A i \in DOMAIN sudogs : sudogs[i] \in G \X Addr
  BY ElementOfSeq, LenProperties DEF SemInv, R!TypeOK
<1>2. \A i \in DOMAIN sudogs : sudogs[i][1] \in G
  BY <1>1
<1>. QED
  BY <1>2 DEF SemInv, WaitersParked

LEMMA SemWaitersParked == SemInv /\ [R!Next]_(R!vars) => WaitersParked'
<1>. SUFFICES ASSUME SemInv, [R!Next]_(R!vars) PROVE WaitersParked'
  OBVIOUS
<1>. USE DEF R!Goto
<1>0. R!TypeOK /\ LockHeld /\ WaitersParked
  BY DEF SemInv
<1>1. CASE UNCHANGED R!vars
  BY <1>1, SemSameWaiters DEF R!vars
<1>2. ASSUME NEW g \in G, NEW a \in Addr, R!Semacquire(g, a) \/ R!Semrelease(g, a)
      PROVE  WaitersParked'
  BY <1>0, <1>2, SemSameWaiters DEF R!TypeOK, R!Semacquire, R!Semrelease
<1>3. ASSUME NEW g \in G, R!TryAcquire(g) \/ R!LockRoot(g) \/ R!Leave(g) \/ R!LoadNwait(g)
      PROVE  WaitersParked'
  <2>1. UNCHANGED <<sudogs, addr, readied>> /\ stage[g] # "parked"
        /\ \E l \in {"idle", "lock", "recheck", "search"} : R!Goto(g, l)
    BY <1>3 DEF R!TryAcquire, R!LockRoot, R!Leave, R!LoadNwait
  <2>. QED BY <1>0, <2>1, SemSameWaiters DEF R!TypeOK
<1>4. ASSUME NEW g \in G, R!Recheck(g) PROVE WaitersParked'
  <2>1. CASE R!Cansemacquire(g)
    BY <1>0, <1>4, <2>1, SemFoundToken, SemSameWaiters DEF R!TypeOK
  <2>2. CASE ~R!Cansemacquire(g)
    <3>. DEFINE n == Len(sudogs)
    <3>1. /\ DOMAIN sudogs = 1..n /\ DOMAIN sudogs' = 1..n + 1 /\ n \in Nat
          /\ \A i \in 1..n : sudogs'[i] = sudogs[i]
          /\ sudogs'[n + 1] = <<g, addr[g]>>
          /\ stage' = [stage EXCEPT ![g] = "parked"]
      BY <1>4, <2>2, SemParked
    <3>2. stage[g] = "recheck" /\ UNCHANGED <<addr, readied>>
      BY <1>4 DEF R!Recheck
    <3>3. \A i \in 1..n : sudogs[i] \in G \X Addr
      BY <1>0, <3>1, ElementOfSeq DEF R!TypeOK
    <3>4. \A i \in 1..n : sudogs'[i][1] = sudogs[i][1] /\ sudogs[i][1] \in G /\ sudogs[i][1] # g
      BY <1>0, <3>1, <3>2, <3>3 DEF WaitersParked
    <3>5. sudogs'[n + 1][1] = g /\ sudogs'[n + 1][2] = addr[g]
      BY <3>1
    <3>. HIDE DEF n
    <3>6. \A i \in DOMAIN sudogs' : i \in 1..n \/ i = n + 1
      BY <3>1
    <3>7. \A i \in DOMAIN sudogs' :
            stage'[sudogs'[i][1]] = "parked" /\ addr'[sudogs'[i][1]] = sudogs'[i][2]
      BY <1>0, <3>1, <3>2, <3>4, <3>5, <3>6 DEF R!TypeOK, WaitersParked
    <3>8. \A i, j \in DOMAIN sudogs' : sudogs'[i][1] = sudogs'[j][1] => i = j
      BY <1>0, <3>1, <3>4, <3>5, <3>6 DEF WaitersParked
    <3>9. ASSUME NEW h \in G, stage'[h] = "ready"
          PROVE  /\ readied'[h] \in G /\ stage'[readied'[h]] = "parked" /\ addr'[readied'[h]] = addr'[h]
                 /\ \A i \in DOMAIN sudogs' : sudogs'[i][1] # readied'[h]
                 /\ \A k \in G : stage'[k] = "ready" /\ readied'[k] = readied'[h] => k = h
      <4>1. stage[h] = "ready" /\ readied[h] \in G /\ stage[readied[h]] = "parked" /\ readied[h] # g
            /\ \A i \in 1..n : sudogs[i][1] # readied[h]
        BY <1>0, <3>1, <3>2, <3>9 DEF R!TypeOK, WaitersParked
      <4>2. \A i \in DOMAIN sudogs' : sudogs'[i][1] # readied[h]
        BY <3>4, <3>5, <3>6, <4>1
      <4>. QED BY <1>0, <3>1, <3>2, <4>1, <4>2 DEF R!TypeOK, WaitersParked
    <3>. QED BY <3>7, <3>8, <3>9 DEF WaitersParked
  <2>. QED BY <2>1, <2>2
<1>5. ASSUME NEW g \in G, R!Search(g) PROVE WaitersParked'
  <2>1. CASE R!Queued(addr[g]) = {}
    BY <1>0, <1>5, <2>1, SemSameWaiters DEF R!TypeOK, R!Search
  <2>2. ASSUME NEW i \in R!Queued(addr[g]), sudogs' = R!RemoveAt(sudogs, i),
               readied' = [readied EXCEPT ![g] = sudogs[i][1]], R!Goto(g, "ready")
        PROVE  WaitersParked'
    <3>. DEFINE n == Len(sudogs)
                up(j) == IF j < i THEN j ELSE j + 1
    <3>1. /\ DOMAIN sudogs = 1..n /\ DOMAIN sudogs' = 1..n - 1 /\ n \in Nat /\ i \in 1..n
          /\ \A j \in 1..n - 1 : sudogs'[j] = sudogs[up(j)]
          /\ \A j \in 1..n : sudogs[j] \in G \X Addr
      BY <2>2, SemTaken
    <3>. HIDE DEF n
    <3>2. /\ \A j \in 1..n - 1 : up(j) \in 1..n /\ up(j) # i
          /\ \A j, k \in 1..n - 1 : up(j) = up(k) => j = k
      BY <3>1
    <3>. HIDE DEF up
    <3>3. stage[g] = "search" /\ UNCHANGED addr
      BY <1>5 DEF R!Search
    <3>4. /\ \A j \in 1..n : sudogs[j][1] \in G
          /\ sudogs[i][1] # g /\ stage[sudogs[i][1]] = "parked" /\ addr[sudogs[i][1]] = addr[g]
      BY <1>0, <3>1, <3>3 DEF WaitersParked, R!Queued
    <3>5. \A j \in DOMAIN sudogs' :
            stage'[sudogs'[j][1]] = "parked" /\ addr'[sudogs'[j][1]] = sudogs'[j][2]
      BY <1>0, <2>2, <3>1, <3>2, <3>3, <3>4 DEF R!TypeOK, WaitersParked
    <3>6. \A j, k \in DOMAIN sudogs' : sudogs'[j][1] = sudogs'[k][1] => j = k
      BY <1>0, <3>1, <3>2 DEF WaitersParked
    <3>7. \A j \in DOMAIN sudogs' : sudogs'[j][1] # sudogs[i][1]
      BY <1>0, <3>1, <3>2 DEF WaitersParked
    <3>8. ASSUME NEW h \in G, stage'[h] = "ready"
          PROVE  /\ readied'[h] \in G /\ stage'[readied'[h]] = "parked" /\ addr'[readied'[h]] = addr'[h]
                 /\ \A j \in DOMAIN sudogs' : sudogs'[j][1] # readied'[h]
                 /\ \A k \in G : stage'[k] = "ready" /\ readied'[k] = readied'[h] => k = h
      <4>1. \A k \in G : k # g /\ stage'[k] = "ready" =>
              stage[k] = "ready" /\ readied'[k] = readied[k] /\ readied[k] \in G /\ readied[k] # sudogs[i][1]
        BY <1>0, <2>2, <3>1 DEF R!TypeOK, WaitersParked
      <4>2. CASE h = g
        <5>1. readied'[h] = sudogs[i][1]
          BY <1>0, <2>2, <4>2 DEF R!TypeOK
        <5>2. stage'[sudogs[i][1]] = "parked" /\ sudogs[i][1] \in G
          BY <1>0, <2>2, <3>1, <3>4 DEF R!TypeOK
        <5>. QED BY <3>3, <3>4, <3>7, <4>1, <4>2, <5>1, <5>2
      <4>3. CASE h # g
        <5>1. stage[h] = "ready" /\ readied'[h] = readied[h] /\ readied[h] \in G
              /\ stage[readied[h]] = "parked" /\ addr[readied[h]] = addr[h] /\ readied[h] # g
          BY <1>0, <3>3, <3>8, <4>1, <4>3 DEF WaitersParked
        <5>2. \A j \in DOMAIN sudogs' : sudogs'[j][1] # readied[h]
          BY <1>0, <3>1, <3>2, <5>1 DEF WaitersParked
        <5>3. \A k \in G : stage'[k] = "ready" /\ readied'[k] = readied[h] => k = h
          <6>1. readied'[g] = sudogs[i][1]
            BY <1>0, <2>2 DEF R!TypeOK
          <6>. QED BY <1>0, <3>8, <4>1, <4>3, <5>1, <6>1 DEF WaitersParked
        <5>. QED BY <1>0, <2>2, <3>3, <5>1, <5>2, <5>3 DEF R!TypeOK
      <4>. QED BY <4>2, <4>3
    <3>. QED BY <3>5, <3>6, <3>8 DEF WaitersParked
  <2>. QED BY <1>5, <2>1, <2>2 DEF R!Search
<1>6. ASSUME NEW g \in G, R!Goready(g) PROVE WaitersParked'
  <2>1. /\ stage[g] = "ready" /\ readied[g] \in G /\ stage[readied[g]] = "parked" /\ readied[g] # g
        /\ \A i \in DOMAIN sudogs : sudogs[i][1] # readied[g]
        /\ \A h \in G : stage[h] = "ready" /\ readied[h] = readied[g] => h = g
    BY <1>0, <1>6 DEF WaitersParked, R!Goready
  <2>2. /\ stage' = [stage EXCEPT ![g] = "idle", ![readied[g]] = "woken"]
        /\ readied' = [readied EXCEPT ![g] = NoG] /\ UNCHANGED <<sudogs, addr>>
    BY <1>6 DEF R!Goready
  <2>3. \A i \in DOMAIN sudogs : sudogs[i] \in G \X Addr
    BY <1>0, ElementOfSeq, LenProperties DEF R!TypeOK
  <2>4. \A i \in DOMAIN sudogs' : /\ stage'[sudogs'[i][1]] = "parked"
                                 /\ addr'[sudogs'[i][1]] = sudogs'[i][2]
    BY <1>0, <2>1, <2>2, <2>3 DEF R!TypeOK, WaitersParked
  <2>5. \A h \in G : stage'[h] = "ready" => stage[h] = "ready" /\ h # g /\ readied'[h] = readied[h]
    BY <1>0, <2>1, <2>2 DEF R!TypeOK
  <2>. QED BY <1>0, <2>1, <2>2, <2>4, <2>5 DEF R!TypeOK, WaitersParked
<1>. QED
  BY <1>1, <1>2, <1>3, <1>4, <1>5, <1>6, SemSteps

LEMMA SemNext == SemInv /\ [R!Next]_(R!vars) => SemInv'
  BY SemTypes, SemLockHeld, SemRootCounted, SemWaitersParked DEF SemInv

LEMMA SemInvHolds == ASSUME RootNames PROVE R!SafeSpec => []SemInv
  BY SemInit, SemNext, PTL DEF R!SafeSpec

-----------------------------------------------------------------------------
\* A step keeps the tokens known when what sleepers there are slept before, on
\* no more tokens than before, known to the same goroutines, or on none at all.
LEMMA SemStillKnown ==
  ASSUME TokensKnown, IsFiniteSet(G),
         \A a \in Addr : R!Queued(a)' # {} =>
           \/ tokens'[a] = 0
           \/ R!Queued(a) # {} /\ tokens[a] \in Nat /\ tokens'[a] \in Nat /\ tokens'[a] <= tokens[a]
              /\ R!Carriers(a)' = R!Carriers(a)
  PROVE  TokensKnown'
<1>. SUFFICES ASSUME NEW a \in Addr, R!Queued(a)' # {}
              PROVE  tokens'[a] <= Cardinality(R!Carriers(a)')
  BY DEF TokensKnown
<1>1. Cardinality(R!Carriers(a)') \in Nat
  <2>1. IsFiniteSet(R!Carriers(a)')
    BY FS_Subset DEF R!Carriers
  <2>. QED BY <2>1, FS_CardinalityType
<1>2. CASE tokens'[a] = 0
  BY <1>1, <1>2
<1>3. CASE R!Queued(a) # {} /\ tokens[a] \in Nat /\ tokens'[a] \in Nat /\ tokens'[a] <= tokens[a]
           /\ R!Carriers(a)' = R!Carriers(a)
  BY <1>1, <1>3 DEF TokensKnown
<1>. QED BY <1>2, <1>3

\* Leaving or joining those who know changes their number by one.
LEMMA SemCarriers ==
  ASSUME IsFiniteSet(G), NEW a \in Addr
  PROVE  /\ IsFiniteSet(R!Carriers(a)) /\ Cardinality(R!Carriers(a)) \in Nat
         /\ \A g \in G : g \notin R!Carriers(a) =>
              Cardinality(R!Carriers(a) \cup {g}) = Cardinality(R!Carriers(a)) + 1
         /\ \A g \in R!Carriers(a) :
              Cardinality(R!Carriers(a) \ {g}) = Cardinality(R!Carriers(a)) - 1
<1>1. IsFiniteSet(R!Carriers(a))
  BY FS_Subset DEF R!Carriers
<1>. QED BY <1>1, FS_CardinalityType, FS_AddElement, FS_RemoveElement

LEMMA SemTokensKnown ==
  ASSUME IsFiniteSet(G), SemInv, SemInv', TokensKnown, [R!Next]_(R!vars)
  PROVE  TokensKnown'
<1>. USE DEF R!Goto
<1>0. R!TypeOK /\ R!TypeOK' /\ LockHeld /\ WaitersParked
  BY DEF SemInv
<1>1. \A a \in Addr : tokens[a] \in Nat /\ tokens'[a] \in Nat /\ tokens[a] <= tokens[a]
  BY <1>0 DEF SemInv, RootNames, R!TypeOK
<1>2. CASE UNCHANGED R!vars
  BY <1>1, <1>2, SemStillKnown DEF R!vars, R!Queued, R!Carriers
<1>3. ASSUME NEW g \in G, NEW b \in Addr, R!Semacquire(g, b) PROVE TokensKnown'
  <2>1. UNCHANGED <<tokens, sudogs>> /\ \A a \in Addr : R!Carriers(a)' = R!Carriers(a)
    BY <1>0, <1>3 DEF R!TypeOK, R!Semacquire, R!Carriers
  <2>2. \A a \in Addr : R!Queued(a)' = R!Queued(a)
    BY <2>1 DEF R!Queued
  <2>. QED BY <1>1, <2>1, <2>2, SemStillKnown
<1>4. ASSUME NEW g \in G, NEW b \in Addr, R!Semrelease(g, b) PROVE TokensKnown'
  <2>1. /\ \A a \in Addr : R!Queued(a)' = R!Queued(a)
        /\ tokens'[b] = tokens[b] + 1 /\ \A a \in Addr \ {b} : tokens'[a] = tokens[a]
    BY <1>0, <1>4 DEF R!TypeOK, R!Semrelease, R!Queued
  <2>2. /\ g \notin R!Carriers(b) /\ R!Carriers(b)' = R!Carriers(b) \cup {g}
        /\ \A a \in Addr \ {b} : R!Carriers(a)' = R!Carriers(a)
    BY <1>0, <1>4 DEF R!TypeOK, R!Semrelease, R!Carriers
  <2>3. Cardinality(R!Carriers(b)') = Cardinality(R!Carriers(b)) + 1
    BY <2>2, SemCarriers
  <2>. QED BY <1>1, <2>1, <2>2, <2>3, SemCarriers DEF TokensKnown
<1>5. ASSUME NEW g \in G, R!TryAcquire(g) PROVE TokensKnown'
  <2>. PICK b \in Addr : b = addr[g]
    BY <1>0, <1>5 DEF LockHeld, R!TryAcquire
  <2>1. /\ \A a \in Addr : R!Queued(a)' = R!Queued(a)
        /\ \A a \in Addr \ {b} : tokens'[a] = tokens[a]
        /\ tokens'[b] = 0 \/ tokens'[b] = tokens[b] - 1
    BY <1>0, <1>5 DEF R!TypeOK, LockHeld, R!TryAcquire, R!Cansemacquire, R!Queued
  <2>2. /\ \A a \in Addr \ {b} : R!Carriers(a)' = R!Carriers(a)
        /\ \/ R!Carriers(b)' = R!Carriers(b)
           \/ g \in R!Carriers(b) /\ R!Carriers(b)' = R!Carriers(b) \ {g}
    BY <1>0, <1>5 DEF R!TypeOK, LockHeld, R!TryAcquire, R!Carriers
  <2>3. Cardinality(R!Carriers(b)') \in {Cardinality(R!Carriers(b)), Cardinality(R!Carriers(b)) - 1}
        /\ Cardinality(R!Carriers(b)') \in Nat
    BY <2>1, <2>2, SemCarriers, FS_Subset, FS_CardinalityType
  <2>4. R!Queued(b) # {} => tokens'[b] <= Cardinality(R!Carriers(b)')
    BY <1>1, <2>1, <2>3, SemCarriers DEF TokensKnown
  <2>. QED BY <2>1, <2>2, <2>4 DEF TokensKnown
<1>6. ASSUME NEW g \in G, R!LockRoot(g) \/ R!Leave(g) PROVE TokensKnown'
  <2>1. UNCHANGED <<tokens, sudogs, addr>> /\ stage[g] \in {"lock", "leave"}
        /\ \E l \in {"recheck", "idle"} : R!Goto(g, l)
    BY <1>6 DEF R!LockRoot, R!Leave
  <2>2. \A a \in Addr : R!Queued(a)' = R!Queued(a) /\ R!Carriers(a)' = R!Carriers(a)
    BY <1>0, <2>1 DEF R!TypeOK, R!Queued, R!Carriers
  <2>. QED BY <1>1, <2>1, <2>2, SemStillKnown
<1>7. ASSUME NEW g \in G, R!Recheck(g) PROVE TokensKnown'
  <2>1. addr[g] \in Addr /\ addr' = addr /\ stage[g] = "recheck"
    BY <1>0, <1>7 DEF LockHeld, R!Recheck
  <2>2. CASE R!Cansemacquire(g)
    <3>1. \A a \in Addr : tokens'[a] <= tokens[a]
      BY <1>0, <1>1, <2>1, <2>2 DEF R!TypeOK, R!Cansemacquire
    <3>2. sudogs' = sudogs /\ R!Goto(g, "leave")
      BY <1>7, <2>2, SemFoundToken
    <3>3. \A a \in Addr : R!Queued(a)' = R!Queued(a) /\ R!Carriers(a)' = R!Carriers(a)
      BY <1>0, <2>1, <3>2 DEF R!TypeOK, R!Queued, R!Carriers
    <3>. QED BY <1>1, <3>1, <3>3, SemStillKnown
  <2>3. CASE ~R!Cansemacquire(g)
    <3>. DEFINE n == Len(sudogs)
    <3>1. /\ tokens[addr[g]] = 0 /\ tokens' = tokens /\ R!Goto(g, "parked") /\ n \in Nat
          /\ DOMAIN sudogs = 1..n /\ DOMAIN sudogs' = 1..n + 1
          /\ \A i \in 1..n : sudogs'[i] = sudogs[i]
          /\ sudogs'[n + 1] = <<g, addr[g]>>
      BY <1>7, <2>3, SemParked
    <3>. HIDE DEF n
    <3>2. ASSUME NEW a \in Addr, a # addr[g], NEW i \in R!Queued(a)' PROVE R!Queued(a) # {}
      <4>1. i \in 1..n + 1 /\ sudogs'[i][2] = a /\ i # n + 1
        BY <3>1, <3>2 DEF R!Queued
      <4>2. i \in 1..n
        BY <3>1, <4>1
      <4>. QED BY <3>1, <4>1, <4>2 DEF R!Queued
    <3>3. \A a \in Addr : R!Carriers(a)' = R!Carriers(a)
      BY <1>0, <2>1, <3>1 DEF R!TypeOK, R!Carriers
    <3>. QED BY <1>1, <3>1, <3>2, <3>3, SemStillKnown
  <2>. QED BY <2>2, <2>3
<1>8. ASSUME NEW g \in G, R!LoadNwait(g) PROVE TokensKnown'
  <2>1. UNCHANGED <<tokens, sudogs, addr>> /\ stage[g] = "loadnwait"
        /\ R!Goto(g, IF nwait = 0 THEN "idle" ELSE "search")
    BY <1>8 DEF R!LoadNwait
  <2>2. \A a \in Addr : R!Queued(a)' = R!Queued(a)
    BY <2>1 DEF R!Queued
  <2>3. CASE nwait = 0
    <3>1. Len(sudogs) \in Nat /\ DOMAIN sudogs = 1..Len(sudogs)
      BY <1>0, LenProperties DEF R!TypeOK
    <3>2. nwait = Len(sudogs) + (IF rootlock = NoG THEN 0 ELSE 1)
      BY DEF SemInv, RootCounted
    <3>3. Len(sudogs) = 0
      BY <2>3, <3>1, <3>2
    <3>4. \A a \in Addr : R!Queued(a) = {}
      BY <3>1, <3>3 DEF R!Queued
    <3>. QED BY <2>2, <3>4, SemStillKnown
  <2>4. CASE nwait # 0
    <3>1. \A a \in Addr : R!Carriers(a)' = R!Carriers(a)
      BY <1>0, <2>1, <2>4 DEF R!TypeOK, R!Carriers
    <3>. QED BY <1>1, <2>1, <2>2, <3>1, SemStillKnown
  <2>. QED BY <2>3, <2>4
<1>9. ASSUME NEW g \in G, R!Search(g) PROVE TokensKnown'
  <2>1. stage[g] = "search" /\ UNCHANGED <<tokens, addr>> /\ addr[g] \in Addr
    BY <1>0, <1>9 DEF LockHeld, R!Search
  <2>2. CASE R!Queued(addr[g]) = {}
    <3>. PICK b \in Addr : b = addr[g]
      BY <2>1
    <3>1. sudogs' = sudogs /\ R!Goto(g, "idle") /\ R!Queued(b) = {}
      BY <1>9, <2>2 DEF R!Search
    <3>2. \A a \in Addr : R!Queued(a)' = R!Queued(a)
      BY <3>1 DEF R!Queued
    <3>3. \A a \in Addr \ {b} : R!Carriers(a)' = R!Carriers(a)
      BY <1>0, <2>1, <3>1 DEF R!TypeOK, R!Carriers
    <3>4. \A a \in Addr : tokens'[a] = tokens[a]
      BY <2>1
    <3>. QED BY <1>1, <3>1, <3>2, <3>3, <3>4, SemStillKnown
  <2>3. ASSUME NEW i \in R!Queued(addr[g]), sudogs' = R!RemoveAt(sudogs, i), R!Goto(g, "ready")
        PROVE  TokensKnown'
    <3>1. \A a \in Addr : R!Carriers(a)' = R!Carriers(a)
      BY <1>0, <2>1, <2>3 DEF R!TypeOK, R!Carriers
    <3>2. ASSUME NEW a \in Addr, NEW j \in R!Queued(a)' PROVE R!Queued(a) # {}
      <4>. DEFINE k == IF j < i THEN j ELSE j + 1
      <4>1. j \in DOMAIN sudogs' /\ sudogs'[j][2] = a
        BY <3>2 DEF R!Queued
      <4>2. k \in DOMAIN sudogs /\ sudogs'[j] = sudogs[k]
        <5>1. /\ DOMAIN sudogs = 1..Len(sudogs) /\ Len(sudogs) \in Nat
              /\ DOMAIN sudogs' = 1..Len(sudogs) - 1
              /\ \A l \in 1..Len(sudogs) - 1 : sudogs'[l] = sudogs[IF l < i THEN l ELSE l + 1]
          BY <2>3, SemTaken
        <5>. QED BY <4>1, <5>1
      <4>. QED BY <4>1, <4>2 DEF R!Queued
    <3>. QED BY <1>1, <2>1, <3>1, <3>2, SemStillKnown
  <2>. QED BY <1>9, <2>2, <2>3 DEF R!Search
<1>10. ASSUME NEW g \in G, R!Goready(g) PROVE TokensKnown'
  <2>. PICK b \in Addr : b = addr[g]
    BY <1>0, <1>10 DEF LockHeld, R!Goready
  <2>1. /\ stage[g] = "ready" /\ readied[g] \in G /\ stage[readied[g]] = "parked" /\ addr[readied[g]] = b
        /\ stage' = [stage EXCEPT ![g] = "idle", ![readied[g]] = "woken"]
        /\ UNCHANGED <<tokens, sudogs, addr>>
    BY <1>0, <1>10 DEF LockHeld, WaitersParked, R!Goready
  <2>2. /\ \A a \in Addr : R!Queued(a)' = R!Queued(a)
        /\ \A a \in Addr \ {b} : R!Carriers(a)' = R!Carriers(a)
        /\ g \in R!Carriers(b) /\ readied[g] \notin R!Carriers(b)
        /\ R!Carriers(b)' = (R!Carriers(b) \ {g}) \cup {readied[g]}
    BY <1>0, <2>1 DEF R!TypeOK, R!Queued, R!Carriers
  <2>3. Cardinality(R!Carriers(b)') = Cardinality(R!Carriers(b))
    <3>. DEFINE S == R!Carriers(b) \ {g}
    <3>1. IsFiniteSet(S) /\ Cardinality(S) = Cardinality(R!Carriers(b)) - 1
      BY <2>1, <2>2, SemCarriers, FS_RemoveElement
    <3>2. readied[g] \notin S /\ R!Carriers(b)' = S \cup {readied[g]}
      BY <2>2
    <3>. HIDE DEF S
    <3>3. Cardinality(S \cup {readied[g]}) = Cardinality(S) + 1
      BY <3>1, <3>2, FS_AddElement
    <3>. QED BY <2>1, <3>1, <3>2, <3>3, SemCarriers
  <2>. QED BY <2>1, <2>2, <2>3 DEF TokensKnown
<1>. QED
  BY <1>2, <1>3, <1>4, <1>5, <1>6, <1>7, <1>8, <1>9, <1>10, SemSteps

LEMMA SemCounts == SemInv => R!NwaitCounts /\ R!ReadyFindsParked
<1>. SUFFICES ASSUME SemInv PROVE R!NwaitCounts /\ R!ReadyFindsParked
  OBVIOUS
<1>0. \A S : R!Cardinality(S) = Cardinality(S)
  BY Zenon DEF R!Cardinality, Cardinality
<1>1. R!NwaitCounts
  <2>1. CASE rootlock = NoG
    <3>1. R!At("recheck") \cup R!At("leave") = {}
      BY <2>1 DEF SemInv, RootNames, LockHeld, R!At
    <3>. QED BY <1>0, <2>1, <3>1, FS_EmptySet DEF SemInv, RootCounted, R!NwaitCounts
  <2>2. CASE rootlock # NoG
    <3>1. R!At("recheck") \cup R!At("leave") = {rootlock}
      BY <2>2 DEF SemInv, R!TypeOK, LockHeld, R!At
    <3>. QED BY <1>0, <2>2, <3>1, FS_Singleton DEF SemInv, RootCounted, R!NwaitCounts
  <2>. QED BY <2>1, <2>2
<1>2. R!ReadyFindsParked
  BY DEF SemInv, WaitersParked, R!ReadyFindsParked, R!At
<1>. QED BY <1>1, <1>2

-----------------------------------------------------------------------------
\* The variables keep their types: nwait, which semacquire and semrelease lower
\* without a test, never goes below zero (sema.go:105, 139).
THEOREM SemTypeCorrect == ASSUME RootNames PROVE R!Spec => []R!TypeOK
<1>1. SemInv => R!TypeOK
  BY DEF SemInv
<1>. QED BY <1>1, SemInvHolds, PTL DEF R!Spec

\* No wakeup is missed (sema.go:95, 120), however many goroutines and addresses
\* there are: who sleeps on an address with tokens sleeps only as long as at
\* least that many goroutines of that address are awake and know of them.
THEOREM NoWakeupMissed ==
  ASSUME RootNames, IsFiniteSet(G)
  PROVE  R!Spec => []R!NoMissedWakeup
<1>1. TokensKnown /\ SemInv /\ SemInv' /\ [R!Next]_(R!vars) => TokensKnown'
  BY SemTokensKnown
<1>2. SemInv /\ TokensKnown => R!NoMissedWakeup
  <2>1. \A S : R!Cardinality(S) = Cardinality(S)
    BY Zenon DEF R!Cardinality, Cardinality
  <2>. QED BY <2>1, SemCounts DEF SemInv, TokensKnown, R!NoMissedWakeup
<1>3. R!SafeSpec => []TokensKnown
  BY <1>1, SemInit, SemInvHolds, PTL DEF R!SafeSpec
<1>. QED BY <1>2, <1>3, SemInvHolds, PTL DEF R!Spec

\* Semaphore's steps are what semacquire and semrelease do to the tokens and
\* to those who want one, whatever the collisions in the root; its liveness is
\* checked by MCSema.
THEOREM RefinesSemaphore == ASSUME RootNames PROVE R!Spec => RA!SafeSpec
<1>. DEFINE In == {"easy", "lock", "recheck", "parked", "woken"}
            W == [g \in G |-> IF stage[g] \in In THEN addr[g] ELSE NoAddr]
<1>1. R!Init => RA!Init
  BY DEF R!Init, RA!Init
<1>2. ASSUME SemInv, [R!Next]_(R!vars) PROVE RA!Next \/ UNCHANGED <<tokens, W>>
  <2>. USE DEF R!Goto
  <2>0. R!TypeOK /\ LockHeld /\ WaitersParked
    BY <1>2 DEF SemInv
  <2>1. CASE UNCHANGED R!vars
    BY <2>1 DEF R!vars
  <2>2. ASSUME NEW g \in G, NEW a \in Addr, R!Semacquire(g, a) PROVE RA!Wait(g, a)
    BY <2>0, <2>2 DEF SemInv, RootNames, R!TypeOK, R!Semacquire, RA!Wait
  <2>3. ASSUME NEW g \in G, NEW a \in Addr, R!Semrelease(g, a) PROVE RA!Release(a)
    BY <2>0, <2>3 DEF R!TypeOK, R!Semrelease, RA!Release
  <2>4. ASSUME NEW g \in G, stage[g] \in In, addr[g] \in Addr, R!Cansemacquire(g), addr' = addr,
               NEW l \in {"idle", "leave"}, R!Goto(g, l)
        PROVE  RA!Next
    <3>. PICK a \in Addr : a = addr[g]
      BY <2>4
    <3>1. RA!Acquire(g, a)
      BY <2>0, <2>4 DEF R!TypeOK, R!Cansemacquire, RA!Acquire
    <3>. QED BY <3>1 DEF RA!Next
  <2>5. ASSUME NEW g \in G, addr' = addr, tokens' = tokens, NEW l \in R!PC, R!Goto(g, l),
               stage[g] \in In <=> l \in In
        PROVE  UNCHANGED <<tokens, W>>
    BY <2>0, <2>5 DEF R!TypeOK
  <2>6. ASSUME NEW g \in G, R!TryAcquire(g)
        PROVE  RA!Next \/ UNCHANGED <<tokens, W>>
    <3>1. stage[g] \in In /\ addr[g] \in Addr /\ addr' = addr
      BY <2>0, <2>6 DEF LockHeld, R!TryAcquire
    <3>. QED BY <2>4, <2>5, <2>6, <3>1 DEF R!TryAcquire, R!PC
  <2>7. ASSUME NEW g \in G, R!Recheck(g)
        PROVE  RA!Next \/ UNCHANGED <<tokens, W>>
    <3>1. stage[g] \in In /\ addr[g] \in Addr /\ addr' = addr
      BY <2>0, <2>7 DEF LockHeld, R!Recheck
    <3>. QED BY <2>4, <2>5, <2>7, <3>1 DEF R!Recheck, R!PC
  <2>8. ASSUME NEW g \in G, R!LockRoot(g) \/ R!Leave(g) \/ R!LoadNwait(g) \/ R!Search(g)
        PROVE  UNCHANGED <<tokens, W>>
    BY <2>5, <2>8 DEF R!LockRoot, R!Leave, R!LoadNwait, R!Search, R!PC
  <2>9. ASSUME NEW g \in G, R!Goready(g) PROVE UNCHANGED <<tokens, W>>
    <3>1. /\ stage[g] = "ready" /\ readied[g] \in G /\ stage[readied[g]] = "parked"
          /\ stage' = [stage EXCEPT ![g] = "idle", ![readied[g]] = "woken"]
          /\ UNCHANGED <<tokens, addr>>
      BY <2>0, <2>9 DEF WaitersParked, R!Goready
    <3>. QED BY <2>0, <3>1 DEF R!TypeOK
  <2>10. ASSUME NEW g \in G, NEW a \in Addr, RA!Wait(g, a) \/ RA!Release(a)
         PROVE  RA!Next
    BY <2>10 DEF RA!Next
  <2>. HIDE DEF W
  <2>11. ASSUME NEW g \in G, R!TryAcquire(g) \/ R!Recheck(g)
         PROVE  RA!Next \/ UNCHANGED <<tokens, W>>
    BY <2>6, <2>7, <2>11
  <2>12. ASSUME NEW g \in G, NEW a \in Addr, R!Semacquire(g, a) \/ R!Semrelease(g, a)
         PROVE  RA!Next
    BY <2>2, <2>3, <2>10, <2>12
  <2>13. CASE \E g \in G : R!LockRoot(g) \/ R!Leave(g) \/ R!LoadNwait(g) \/ R!Search(g) \/ R!Goready(g)
    BY <2>8, <2>9, <2>13
  <2>14. \/ UNCHANGED R!vars
         \/ \E g \in G, a \in Addr : R!Semacquire(g, a) \/ R!Semrelease(g, a)
         \/ \E g \in G : R!TryAcquire(g) \/ R!Recheck(g)
         \/ \E g \in G : R!LockRoot(g) \/ R!Leave(g) \/ R!LoadNwait(g) \/ R!Search(g) \/ R!Goready(g)
    BY <1>2, SemSteps
  <2>. QED
    BY <2>1, <2>11, <2>12, <2>13, <2>14
<1>3. SemInv /\ [R!Next]_(R!vars) => [RA!Next]_<<tokens, W>>
  BY <1>2
<1>. QED
  BY <1>1, <1>3, SemInvHolds, PTL DEF R!Spec, R!SafeSpec, RA!SafeSpec

=============================================================================
