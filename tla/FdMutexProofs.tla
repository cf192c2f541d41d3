---------------------------- MODULE FdMutexProofs ----------------------------
(***************************************************************************)
(* What MCFdMutex checks for four goroutines and counters up to 3, proved  *)
(* for any counters and any goroutines: one reader and one writer; and for *)
(* finitely many goroutines: the reference count is the number of users,   *)
(* the panics of Decref and RWUnlock are out of reach, and the descriptor  *)
(* is destroyed once, when nobody uses it.                                 *)
(***************************************************************************)
EXTENDS FdMutex, FiniteSetTheorems, TLAPS

\* Who is to destroy the descriptor.
Destroyer(g) == pc[g] = "destroy" \/ (pc[g] = "release" /\ last[g])

\* Close: one goroutine has set the closed bit, and it keeps its reference until
\* the I/O is unblocked.
CloseKeepsReference ==
  /\ \A g \in G : pc[g] \in {"wake", "evict", "decref"} => closed
  /\ \A g, h \in G : pc[g] = "wake" /\ pc[h] \in {"wake", "evict"} => g = h
  /\ closed => evicted \/ \E g \in G : pc[g] \in {"wake", "evict"}

\* What DestroyedUnused rests on: to destroy the descriptor is up to one
\* goroutine, once the last reference to the closed descriptor is gone, and that
\* is gone for good.
DestroyedOnce ==
  /\ \A g \in G : last[g] => pc[g] \in {"release", "destroy"}
  /\ \A g \in G : Destroyer(g) => closed /\ ref = 0 /\ open
  /\ \A g, h \in G : Destroyer(g) /\ Destroyer(h) => g = h
  /\ ~open => closed /\ ref = 0

IInv == TypeOK /\ OneHolder /\ CloseKeepsReference /\ DestroyedOnce

LEMMA InitIInv == Init => IInv
<1>. SUFFICES ASSUME Init PROVE IInv
  OBVIOUS
<1>1. None \in [Mode -> Nat] /\ None \in [Mode -> 0..Mask]
  BY MaskAssumption DEF None
<1>2. TypeOK
  <2>1. left \in [G -> [Mode -> Nat]] /\ sema \in [Mode -> Nat] /\ wait \in [Mode -> 0..Mask]
    BY <1>1 DEF Init
  <2>2. pc \in [G -> PC] /\ mode \in [G -> Mode] /\ last \in [G -> BOOLEAN]
    BY DEF Init, PC, Mode
  <2>3. ref \in 0..Mask /\ lock \in [Mode -> BOOLEAN]
    BY MaskAssumption DEF Init
  <2>. QED BY <2>1, <2>2, <2>3 DEF Init, TypeOK
<1>3. OneHolder /\ CloseKeepsReference /\ DestroyedOnce
  BY DEF Init, OneHolder, At, CloseKeepsReference, DestroyedOnce, Destroyer
<1>. QED
  BY <1>2, <1>3 DEF IInv

\* The next step as one of its actions; the lemmas about steps split on it.
LEMMA Steps ==
  ASSUME [Next]_vars
  PROVE  \/ UNCHANGED vars
         \/ \E g \in G : \/ Incref(g) \/ IncrefAndClose(g) \/ Wake(g) \/ Evict(g)
                         \/ Decref(g)
         \/ \E g \in G : \/ RWUnlock(g) \/ Semacquire(g) \/ Semrelease(g)
                         \/ Destroy(g)
         \/ \E g \in G, m \in Mode : RWLock(g, m)
         \/ \E g \in G : pc[g] = "woken" /\ RWLock(g, mode[g])
  BY DEF Next, Call, Run

LEMMA NextTypeOK == TypeOK /\ [Next]_vars => TypeOK'
<1>. SUFFICES ASSUME TypeOK, [Next]_vars PROVE TypeOK'
  OBVIOUS
<1>. USE DEF Goto, word, Full, Fail
<1>t. /\ lock \in [Mode -> BOOLEAN] /\ wait \in [Mode -> 0..Mask]
      /\ ref \in 0..Mask /\ Mask \in Nat /\ sema \in [Mode -> Nat]
      /\ mode \in [G -> Mode] /\ last \in [G -> BOOLEAN]
  BY MaskAssumption DEF TypeOK
<1>u. pc \in [G -> PC] /\ left \in [G -> [Mode -> Nat]]
  BY DEF TypeOK
<1>1. CASE UNCHANGED vars
  BY <1>1 DEF TypeOK, vars
<1>p. ASSUME NEW g \in G, NEW l \in PC, Goto(g, l) PROVE pc' \in [G -> PC]
  BY <1>u, <1>p
<1>2. ASSUME NEW g \in G, Incref(g) PROVE TypeOK'
  <2>1. ref' \in 0..Mask
    BY <1>2, <1>t DEF Incref
  <2>2. pc' \in [G -> PC]
    BY <1>2, <1>p DEF Incref, PC
  <2>. QED BY <1>2, <2>1, <2>2 DEF Incref, TypeOK
<1>3. ASSUME NEW g \in G, IncrefAndClose(g) PROVE TypeOK'
  <2>1. wait' \in [Mode -> 0..Mask] /\ left' \in [G -> [Mode -> Nat]]
    BY <1>3, <1>t, <1>u DEF IncrefAndClose, None
  <2>2. ref' \in 0..Mask
    BY <1>3, <1>t DEF IncrefAndClose
  <2>3. pc' \in [G -> PC]
    BY <1>3, <1>p DEF IncrefAndClose, PC
  <2>. QED BY <1>3, <2>1, <2>2, <2>3 DEF IncrefAndClose, TypeOK
<1>4. ASSUME NEW g \in G, Wake(g) PROVE TypeOK'
  <2>1. ASSUME NEW m \in Mode, left[g][m] > 0,
               left' = [left EXCEPT ![g][m] = @ - 1]
        PROVE  left' \in [G -> [Mode -> Nat]]
    <3>1. left[g] \in [Mode -> Nat] /\ left[g][m] - 1 \in Nat
      BY <2>1, <1>u
    <3>2. [left[g] EXCEPT ![m] = @ - 1] \in [Mode -> Nat]
      BY <3>1
    <3>3. left' = [left EXCEPT ![g] = [left[g] EXCEPT ![m] = @ - 1]]
      BY <2>1
    <3>. QED BY <1>u, <3>2, <3>3
  <2>2. left' \in [G -> [Mode -> Nat]]
    BY <1>4, <1>u, <2>1 DEF Wake
  <2>3. sema' \in [Mode -> Nat]
    BY <1>4, <1>t DEF Wake
  <2>4. pc' \in [G -> PC]
    BY <1>4, <1>p, <1>u DEF Wake, PC
  <2>. QED BY <1>4, <2>2, <2>3, <2>4 DEF Wake, TypeOK
<1>5. ASSUME NEW g \in G, Evict(g) \/ Destroy(g) PROVE TypeOK'
  <2>1. last' \in [G -> BOOLEAN]
    BY <1>5, <1>t DEF Evict, Destroy
  <2>2. pc' \in [G -> PC]
    BY <1>5, <1>p DEF Evict, Destroy, PC
  <2>. QED BY <1>5, <2>1, <2>2 DEF Evict, Destroy, TypeOK
<1>6. ASSUME NEW g \in G, Decref(g) PROVE TypeOK'
  <2>1. ref' \in 0..Mask
    BY <1>6, <1>t DEF Decref
  <2>2. pc' \in [G -> PC]
    BY <1>6, <1>p DEF Decref, PC
  <2>. QED BY <1>6, <2>1, <2>2 DEF Decref, TypeOK
<1>7. ASSUME NEW g \in G, Semacquire(g) \/ Semrelease(g) PROVE TypeOK'
  <2>1. sema' \in [Mode -> Nat]
    BY <1>7, <1>t DEF Semacquire, Semrelease
  <2>2. pc' \in [G -> PC]
    BY <1>7, <1>p DEF Semacquire, Semrelease, PC
  <2>. QED BY <1>7, <2>1, <2>2 DEF Semacquire, Semrelease, TypeOK
<1>8. ASSUME NEW g \in G, RWUnlock(g) PROVE TypeOK'
  <2>1. lock' \in [Mode -> BOOLEAN] /\ ref' \in 0..Mask
    BY <1>8, <1>t DEF RWUnlock
  <2>2. last' \in [G -> BOOLEAN]
    BY <1>8, <1>t DEF RWUnlock, LastReference
  <2>3. wait' \in [Mode -> 0..Mask]
    BY <1>8, <1>t DEF RWUnlock
  <2>4. pc' \in [G -> PC]
    BY <1>8, <1>p DEF RWUnlock, PC
  <2>. QED BY <1>8, <2>1, <2>2, <2>3, <2>4 DEF RWUnlock, TypeOK
<1>9. ASSUME NEW g \in G, NEW m \in Mode, RWLock(g, m) PROVE TypeOK'
  <2>0. \/ ref' = ref /\ lock' = lock
        \/ ref # Mask /\ ref' = ref + 1 /\ lock' = [lock EXCEPT ![m] = TRUE]
    BY <1>9 DEF RWLock
  <2>5. ref' \in 0..Mask
    BY <1>t, <2>0
  <2>1. lock' \in [Mode -> BOOLEAN]
    BY <1>t, <2>0
  <2>2. wait' \in [Mode -> 0..Mask]
    BY <1>9, <1>t DEF RWLock
  <2>3. mode' \in [G -> Mode]
    BY <1>9, <1>t DEF RWLock
  <2>4. pc' \in [G -> PC]
    BY <1>9, <1>p DEF RWLock, PC
  <2>. QED BY <1>9, <2>1, <2>2, <2>3, <2>4, <2>5 DEF RWLock, TypeOK
<1>. QED
  BY <1>1, <1>2, <1>3, <1>4, <1>5, <1>6, <1>7, <1>8, <1>9, <1>t, Steps

\* A lock bit is set by who finds it clear, and cleared by its holder.
LEMMA NextOneHolder == TypeOK /\ OneHolder /\ [Next]_vars => OneHolder'
<1>. SUFFICES ASSUME TypeOK, OneHolder, [Next]_vars PROVE OneHolder'
  OBVIOUS
<1>. USE DEF OneHolder, At, Goto, word, Fail
<1>t. pc \in [G -> PC] /\ lock \in [Mode -> BOOLEAN] /\ mode \in [G -> Mode]
  BY DEF TypeOK
<1>1. CASE UNCHANGED vars
  BY <1>1 DEF vars
<1>2. ASSUME NEW g \in G, NEW l, l # "io", pc[g] # "io", Goto(g, l), lock' = lock,
             mode' = mode
      PROVE  OneHolder'
  BY <1>2, <1>t
<1>3. ASSUME NEW g \in G, Incref(g) \/ IncrefAndClose(g) PROVE OneHolder'
  BY <1>2, <1>3 DEF Incref, IncrefAndClose
<1>4. ASSUME NEW g \in G, Wake(g) \/ Evict(g) \/ Decref(g) PROVE OneHolder'
  <2>1. CASE UNCHANGED pc
    BY <1>4, <2>1 DEF Wake, Evict, Decref
  <2>. QED BY <1>2, <1>4, <2>1 DEF Wake, Evict, Decref
<1>5. ASSUME NEW g \in G, Semacquire(g) \/ Semrelease(g) \/ Destroy(g)
      PROVE OneHolder'
  BY <1>2, <1>5 DEF Semacquire, Semrelease, Destroy
<1>6. ASSUME NEW g \in G, RWUnlock(g) PROVE OneHolder'
  <2>1. \A h \in G \ {g} : pc'[h] = pc[h]
    BY <1>6, <1>t DEF RWUnlock
  <2>2. pc'[g] # "io" /\ mode' = mode /\ lock' = [lock EXCEPT ![mode[g]] = FALSE]
    BY <1>6, <1>t DEF RWUnlock
  <2>. QED BY <1>6, <1>t, <2>1, <2>2 DEF RWUnlock
<1>7. ASSUME NEW g \in G, NEW m \in Mode, RWLock(g, m) PROVE OneHolder'
  <2>1. pc[g] # "io" /\ \A h \in G \ {g} : mode'[h] = mode[h] /\ pc'[h] = pc[h]
    BY <1>7, <1>t DEF RWLock
  <2>2. CASE pc'[g] = "io"
    <3>1. mode'[g] = m /\ ~lock[m] /\ lock' = [lock EXCEPT ![m] = TRUE]
      BY <1>7, <1>t, <2>2 DEF RWLock
    <3>. QED BY <1>t, <2>1, <2>2, <3>1
  <2>3. CASE pc'[g] # "io"
    <3>1. lock' = lock
      BY <1>7, <1>t, <2>3 DEF RWLock
    <3>. QED BY <1>t, <2>1, <2>3, <3>1
  <2>. QED BY <2>2, <2>3
<1>. QED
  BY <1>1, <1>3, <1>4, <1>5, <1>6, <1>7, <1>t, Steps

\* The one who sets the closed bit is on its way to Evict until it has been there.
LEMMA NextCloseKeepsReference ==
  TypeOK /\ CloseKeepsReference /\ [Next]_vars => CloseKeepsReference'
<1>. SUFFICES ASSUME TypeOK, CloseKeepsReference, [Next]_vars
              PROVE CloseKeepsReference'
  OBVIOUS
<1>. USE DEF CloseKeepsReference, Goto, word, Fail
<1>t. pc \in [G -> PC]
  BY DEF TypeOK
<1>1. CASE UNCHANGED vars
  BY <1>1 DEF vars
<1>2. ASSUME NEW g \in G, NEW l, l \notin {"wake", "evict", "decref"},
             pc[g] \notin {"wake", "evict"}, Goto(g, l),
             closed' = closed, evicted' = evicted
      PROVE  CloseKeepsReference'
  BY <1>2, <1>t
<1>3. ASSUME NEW g \in G, Incref(g) \/ Decref(g) PROVE CloseKeepsReference'
  BY <1>2, <1>3 DEF Incref, Decref
<1>4. ASSUME NEW g \in G, IncrefAndClose(g) PROVE CloseKeepsReference'
  <2>1. CASE closed' = closed
    BY <1>2, <1>4, <1>t, <2>1 DEF IncrefAndClose
  <2>2. CASE closed' # closed
    BY <1>4, <1>t, <2>2 DEF IncrefAndClose
  <2>. QED BY <2>1, <2>2
<1>5. ASSUME NEW g \in G, Wake(g) \/ Evict(g) PROVE CloseKeepsReference'
  BY <1>5, <1>t DEF Wake, Evict
<1>6. ASSUME NEW g \in G, Semacquire(g) \/ Semrelease(g) \/ Destroy(g)
      PROVE CloseKeepsReference'
  BY <1>2, <1>6 DEF Semacquire, Semrelease, Destroy
<1>7. ASSUME NEW g \in G, RWUnlock(g) PROVE CloseKeepsReference'
  <2>. DEFINE l == IF wait[mode[g]] > 0 THEN "release"
                   ELSE IF last'[g] THEN "destroy" ELSE "idle"
  <2>1. Goto(g, l) /\ pc[g] = "io" /\ closed' = closed /\ evicted' = evicted
    BY <1>7 DEF RWUnlock
  <2>. QED BY <1>2, <2>1
<1>8. ASSUME NEW g \in G, NEW m \in Mode, RWLock(g, m) PROVE CloseKeepsReference'
  <2>1. closed' = closed /\ evicted' = evicted /\ pc[g] \in {"idle", "woken"}
    BY <1>8 DEF RWLock
  <2>2. \E l \in {"idle", "io", "sleep"} : Goto(g, l)
    BY <1>8 DEF RWLock
  <2>. QED BY <1>2, <2>1, <2>2
<1>. QED
  BY <1>1, <1>3, <1>4, <1>5, <1>6, <1>7, <1>8, Steps DEF TypeOK

\* Nobody takes a reference to a closed descriptor, so its last one is given up
\* once.
LEMMA NextDestroyedOnce ==
  TypeOK /\ DestroyedOnce /\ [Next]_vars => DestroyedOnce'
<1>. SUFFICES ASSUME TypeOK, DestroyedOnce, [Next]_vars PROVE DestroyedOnce'
  OBVIOUS
<1>. USE DEF DestroyedOnce, Destroyer, Goto, word, Fail
<1>t. /\ pc \in [G -> PC] /\ last \in [G -> BOOLEAN] /\ mode \in [G -> Mode]
      /\ ref \in 0..Mask /\ closed \in BOOLEAN /\ open \in BOOLEAN
  BY DEF TypeOK
<1>1. CASE UNCHANGED vars
  BY <1>1 DEF vars
<1>2. ASSUME NEW g \in G, NEW l, l \notin {"release", "destroy"},
             pc[g] \notin {"release", "destroy"}, Goto(g, l), last' = last,
             open' = open, \/ closed' = closed /\ ref' = ref
                          \/ ~closed
      PROVE  DestroyedOnce'
  BY <1>2, <1>t
<1>3. ASSUME NEW g \in G, Incref(g) \/ IncrefAndClose(g) PROVE DestroyedOnce'
  BY <1>2, <1>3 DEF Incref, IncrefAndClose
<1>4. ASSUME NEW g \in G, Wake(g) PROVE DestroyedOnce'
  <2>1. CASE UNCHANGED pc
    BY <1>4, <2>1 DEF Wake
  <2>. QED BY <1>2, <1>4, <2>1 DEF Wake
<1>5. ASSUME NEW g \in G, Evict(g) \/ Semacquire(g) PROVE DestroyedOnce'
  BY <1>2, <1>5 DEF Evict, Semacquire
<1>6. ASSUME NEW g \in G, Decref(g) PROVE DestroyedOnce'
  BY <1>6, <1>t DEF Decref, LastReference
<1>7. ASSUME NEW g \in G, RWUnlock(g) PROVE DestroyedOnce'
  <2>1. ref > 0 /\ ref' = ref - 1 /\ closed' = closed /\ open' = open /\ pc[g] = "io"
    BY <1>7 DEF RWUnlock
  <2>2. \A h \in G : ~Destroyer(h)
    BY <1>t, <2>1
  <2>3. \A h \in G \ {g} : pc'[h] = pc[h] /\ last'[h] = last[h]
    BY <1>7, <1>t DEF RWUnlock
  <2>4. last'[g] <=> closed /\ ref' = 0
    BY <1>7, <1>t DEF RWUnlock, LastReference
  <2>5. pc'[g] \in {"release", "destroy", "idle"}
    BY <1>7, <1>t DEF RWUnlock
  <2>6. /\ last'[g] => pc'[g] \in {"release", "destroy"}
        /\ pc'[g] = "destroy" => last'[g]
    BY <1>7, <1>t DEF RWUnlock
  <2>. QED BY <1>t, <2>1, <2>2, <2>3, <2>4, <2>5, <2>6
<1>8. ASSUME NEW g \in G, Semrelease(g) PROVE DestroyedOnce'
  BY <1>8, <1>t DEF Semrelease
<1>9. ASSUME NEW g \in G, Destroy(g) PROVE DestroyedOnce'
  BY <1>9, <1>t DEF Destroy
<1>10. ASSUME NEW g \in G, NEW m \in Mode, RWLock(g, m) PROVE DestroyedOnce'
  <2>1. /\ open' = open /\ last' = last /\ pc[g] \in {"idle", "woken"}
        /\ \/ closed' = closed /\ ref' = ref
           \/ ~closed
    BY <1>10 DEF RWLock
  <2>2. \E l \in {"idle", "io", "sleep"} : Goto(g, l)
    BY <1>10 DEF RWLock
  <2>. QED BY <1>2, <2>1, <2>2
<1>. QED
  BY <1>1, <1>3, <1>4, <1>5, <1>6, <1>7, <1>8, <1>9, <1>10, Steps DEF TypeOK

LEMMA IInvHolds == SafeSpec => []IInv
<1>1. IInv /\ [Next]_vars => IInv'
  BY NextTypeOK, NextOneHolder, NextCloseKeepsReference, NextDestroyedOnce DEF IInv
<1>. QED
  BY InitIInv, <1>1, PTL DEF SafeSpec

\* The word's counters stay in their bits, and everything else in its type.
THEOREM TypeCorrect == Spec => []TypeOK
  BY IInvHolds, PTL DEF Spec, IInv

\* One reader and one writer at a time, for any goroutines.
THEOREM MutualExclusion == Spec => []OneHolder
  BY IInvHolds, PTL DEF Spec, IInv

-----------------------------------------------------------------------------
\* Counting the users of the descriptor.
Users == {g \in G : pc[g] \in RefPC}

LEMMA UsersMove ==
  ASSUME IsFiniteSet(G), TypeOK, NEW g \in G, NEW l, Goto(g, l)
  PROVE  /\ Cardinality(Users) \in Nat
         /\ Cardinality(Users)' =
              Cardinality(Users) + (IF l \in RefPC /\ pc[g] \notin RefPC THEN 1 ELSE 0)
                                 - (IF l \notin RefPC /\ pc[g] \in RefPC THEN 1 ELSE 0)
<1>1. IsFiniteSet(Users) /\ Cardinality(Users) \in Nat
  BY FS_Subset, FS_CardinalityType DEF Users
<1>2. g \in Users <=> pc[g] \in RefPC
  BY DEF Users
<1>4. CASE l \in RefPC
  <2>1. Users' = Users \cup {g}
    BY <1>4 DEF Users, Goto, TypeOK
  <2>2. Cardinality(Users \cup {g}) =
          IF g \in Users THEN Cardinality(Users) ELSE Cardinality(Users) + 1
    BY <1>1, FS_AddElement
  <2>. QED BY <1>1, <1>2, <1>4, <2>1, <2>2
<1>5. CASE l \notin RefPC
  <2>1. Users' = Users \ {g}
    BY <1>5 DEF Users, Goto, TypeOK
  <2>2. Cardinality(Users \ {g}) =
          IF g \in Users THEN Cardinality(Users) - 1 ELSE Cardinality(Users)
    BY <1>1, FS_RemoveElement
  <2>. QED BY <1>1, <1>2, <1>5, <2>1, <2>2
<1>. QED
  BY <1>4, <1>5

LEMMA NextCounted ==
  ASSUME IsFiniteSet(G), TypeOK, RefsCounted, [Next]_vars
  PROVE  RefsCounted'
<1>. USE DEF word, Fail
<1>0. RefsCounted <=> ref = Cardinality(Users)
  BY DEF RefsCounted, Users
<1>1. CASE UNCHANGED vars
  BY <1>1 DEF vars, RefsCounted
<1>t. ref \in Nat
  BY MaskAssumption DEF TypeOK
<1>2. ASSUME NEW g \in G, NEW l, Goto(g, l),
             ref' = ref + (IF l \in RefPC /\ pc[g] \notin RefPC THEN 1 ELSE 0)
                        - (IF l \notin RefPC /\ pc[g] \in RefPC THEN 1 ELSE 0)
      PROVE  RefsCounted'
  <2>1. ref' = Cardinality(Users)'
    BY <1>0, <1>2, <1>t, UsersMove
  <2>. QED BY <2>1 DEF RefsCounted, Users
<1>3. ASSUME NEW g \in G, Incref(g) PROVE RefsCounted'
  BY <1>2, <1>3, <1>t DEF Incref, RefPC
<1>4. ASSUME NEW g \in G, IncrefAndClose(g) PROVE RefsCounted'
  BY <1>2, <1>4, <1>t DEF IncrefAndClose, RefPC
<1>5. ASSUME NEW g \in G, Wake(g) \/ Evict(g) PROVE RefsCounted'
  <2>1. CASE UNCHANGED pc
    BY <1>5, <2>1 DEF Wake, Evict, RefsCounted
  <2>2. CASE ~UNCHANGED pc
    BY <1>2, <1>5, <1>t, <2>2 DEF Wake, Evict, RefPC
  <2>. QED BY <2>1, <2>2
<1>6. ASSUME NEW g \in G, Decref(g) PROVE RefsCounted'
  BY <1>2, <1>6, <1>t DEF Decref, RefPC
<1>7. ASSUME NEW g \in G, Semacquire(g) \/ Semrelease(g) \/ Destroy(g)
      PROVE RefsCounted'
  BY <1>2, <1>7, <1>t DEF Semacquire, Semrelease, Destroy, RefPC
<1>8. ASSUME NEW g \in G, RWUnlock(g) PROVE RefsCounted'
  <2>. DEFINE l == IF wait[mode[g]] > 0 THEN "release"
                   ELSE IF last'[g] THEN "destroy" ELSE "idle"
  <2>1. Goto(g, l) /\ pc[g] = "io" /\ ref' = ref - 1
    BY <1>8 DEF RWUnlock
  <2>. QED BY <1>2, <1>t, <2>1 DEF RefPC
<1>9. ASSUME NEW g \in G, NEW m \in Mode, RWLock(g, m) PROVE RefsCounted'
  <2>1. pc[g] \in {"idle", "woken"}
    BY <1>9 DEF RWLock
  <2>2. \/ Goto(g, "io") /\ ref' = ref + 1
        \/ \E l \in {"idle", "sleep"} : Goto(g, l) /\ ref' = ref
    BY <1>9 DEF RWLock
  <2>. QED BY <1>2, <1>t, <2>1, <2>2 DEF RefPC
<1>. QED
  BY <1>1, <1>3, <1>4, <1>5, <1>6, <1>7, <1>8, <1>9, Steps DEF TypeOK

LEMMA CountedHolds ==
  ASSUME IsFiniteSet(G)
  PROVE  SafeSpec => [](IInv /\ RefsCounted)
<1>1. Init => RefsCounted
  <2>. SUFFICES ASSUME Init PROVE RefsCounted
    OBVIOUS
  <2>1. {g \in G : pc[g] \in RefPC} = {}
    BY DEF Init, RefPC
  <2>. QED BY <2>1, FS_EmptySet DEF Init, RefsCounted
<1>2. IInv /\ RefsCounted /\ [Next]_vars => RefsCounted'
  BY NextCounted DEF IInv
<1>. QED
  BY IInvHolds, <1>1, <1>2, PTL DEF SafeSpec

\* The reference count is the number of users, for any finite number of
\* goroutines and whether or not it is at its limit.
THEOREM ReferencesAreCounted ==
  ASSUME IsFiniteSet(G)
  PROVE  Spec => []RefsCounted
  BY CountedHolds, PTL DEF Spec

LEMMA UsersHaveReference ==
  ASSUME IsFiniteSet(G), RefsCounted, NEW g \in G, pc[g] \in RefPC
  PROVE  ref > 0
<1>1. IsFiniteSet(Users) /\ Cardinality(Users) \in Nat /\ g \in Users
  BY FS_Subset, FS_CardinalityType DEF Users
<1>2. Cardinality(Users) # 0
  BY <1>1, FS_EmptySet
<1>. QED
  BY <1>1, <1>2 DEF RefsCounted, Users

\* The panics of Decref and RWUnlock, "inconsistent fdMutex", are dead: whoever
\* calls them finds a reference, and RWUnlock its lock bit, in the word.
PanicsAreDead == \A g \in G :
  /\ pc[g] \in {"misc", "decref", "io"} => ref > 0
  /\ pc[g] = "io" => lock[mode[g]]

\* Neither panic is reached (fd_mutex.go: Decref, RWUnlock), however calls interleave.
THEOREM NeverInconsistent ==
  ASSUME IsFiniteSet(G)
  PROVE  Spec => []PanicsAreDead
<1>1. IInv /\ RefsCounted => PanicsAreDead
  BY UsersHaveReference DEF IInv, TypeOK, OneHolder, At, PanicsAreDead, RefPC
<1>. QED
  BY CountedHolds, <1>1, PTL DEF Spec

\* fd.sysfd is closed once, by one goroutine, when nobody uses it any more, after
\* Close has unblocked the I/O.
THEOREM ClosedUnused ==
  ASSUME IsFiniteSet(G)
  PROVE  Spec => []DestroyedUnused
<1>1. IInv /\ RefsCounted => DestroyedUnused
  <2>. SUFFICES ASSUME IInv, RefsCounted PROVE DestroyedUnused
    OBVIOUS
  <2>. USE DEF IInv, DestroyedOnce, Destroyer
  <2>1. closed /\ ref = 0 => evicted /\ \A h \in G : pc[h] \notin RefPC
    BY UsersHaveReference DEF CloseKeepsReference, RefPC
  <2>2. ~open => \A g \in G : pc[g] # "destroy"
    OBVIOUS
  <2>3. \A g, h \in G : pc[g] = "destroy" /\ pc[h] = "destroy" => g = h
    OBVIOUS
  <2>. QED BY <2>1, <2>2, <2>3 DEF DestroyedUnused
<1>. QED
  BY CountedHolds, <1>1, PTL DEF Spec

-----------------------------------------------------------------------------
\* Counting the waiters of either kind.
In(k, m) == {g \in G : pc[g] = k /\ mode[g] = m}

\* The releases that Close has still to make.
ToWake(m) == IF At("wake") = {} THEN 0
             ELSE left[CHOOSE g \in At("wake") : TRUE][m]

Counted(m) == Cardinality(In("sleep", m)) =
                wait[m] + sema[m] + Cardinality(In("release", m)) + ToWake(m)

\* How the number of those in k with mode m changes when g goes to l with mode n.
Moved(k, m, g, l, n) ==
  Cardinality(In(k, m))' =
    Cardinality(In(k, m))
      + (IF (l = k /\ n = m) /\ ~(pc[g] = k /\ mode[g] = m) THEN 1 ELSE 0)
      - (IF ~(l = k /\ n = m) /\ pc[g] = k /\ mode[g] = m THEN 1 ELSE 0)

LEMMA InMoves ==
  ASSUME IsFiniteSet(G), TypeOK, NEW g \in G, NEW l, NEW n \in Mode, Goto(g, l),
         mode' = [mode EXCEPT ![g] = n], NEW k, NEW m \in Mode
  PROVE  Moved(k, m, g, l, n)
<1>. USE DEF Moved
<1>1. IsFiniteSet(In(k, m)) /\ Cardinality(In(k, m)) \in Nat
  BY FS_Subset, FS_CardinalityType DEF In
<1>2. g \in In(k, m) <=> pc[g] = k /\ mode[g] = m
  BY DEF In
<1>3. CASE l = k /\ n = m
  <2>1. In(k, m)' = In(k, m) \cup {g}
    BY <1>3 DEF In, Goto, TypeOK
  <2>2. Cardinality(In(k, m) \cup {g}) =
          IF g \in In(k, m) THEN Cardinality(In(k, m)) ELSE Cardinality(In(k, m)) + 1
    BY <1>1, FS_AddElement
  <2>. QED BY <1>1, <1>2, <1>3, <2>1, <2>2
<1>4. CASE ~(l = k /\ n = m)
  <2>1. In(k, m)' = In(k, m) \ {g}
    BY <1>4 DEF In, Goto, TypeOK
  <2>2. Cardinality(In(k, m) \ {g}) =
          IF g \in In(k, m) THEN Cardinality(In(k, m)) - 1 ELSE Cardinality(In(k, m))
    BY <1>1, FS_RemoveElement
  <2>. QED BY <1>1, <1>2, <1>4, <2>1, <2>2
<1>. QED
  BY <1>3, <1>4

LEMMA WakerIsOne ==
  ASSUME CloseKeepsReference, NEW m \in Mode
  PROVE  /\ \A g \in G : pc[g] = "wake" => ToWake(m) = left[g][m]
         /\ (\A g \in G : pc[g] # "wake") => ToWake(m) = 0
  BY DEF CloseKeepsReference, ToWake, At

LEMMA NextWaitersCounted ==
  ASSUME IsFiniteSet(G), IInv, IInv', NEW m \in Mode, Counted(m), [Next]_vars
  PROVE  Counted(m)'
<1>. USE DEF word, Fail
<1>w. /\ \A g \in G : pc[g] = "wake" => ToWake(m) = left[g][m]
      /\ (\A g \in G : pc[g] # "wake") => ToWake(m) = 0
      /\ \A g \in G : pc'[g] = "wake" => ToWake(m)' = left'[g][m]
      /\ (\A g \in G : pc'[g] # "wake") => ToWake(m)' = 0
  BY WakerIsOne DEF IInv, CloseKeepsReference, ToWake, At
<1>t. /\ pc \in [G -> PC] /\ mode \in [G -> Mode] /\ wait \in [Mode -> Nat]
      /\ sema \in [Mode -> Nat] /\ left \in [G -> [Mode -> Nat]]
  BY MaskAssumption DEF IInv, TypeOK
<1>n. ToWake(m) \in Nat
  BY <1>t DEF ToWake, At
<1>s. \A g \in G : mode[g] \in Mode /\ mode = [mode EXCEPT ![g] = mode[g]]
  BY <1>t
<1>1. CASE UNCHANGED vars
  <2>1. In("sleep", m)' = In("sleep", m) /\ In("release", m)' = In("release", m)
    BY <1>1 DEF vars, In
  <2>2. ToWake(m)' = ToWake(m)
    BY <1>1 DEF vars, ToWake, At
  <2>. QED BY <1>1, <2>1, <2>2 DEF vars, Counted
<1>c. Cardinality(In("sleep", m)) \in Nat /\ Cardinality(In("release", m)) \in Nat
  BY FS_Subset, FS_CardinalityType DEF In
\* A step of g that has nothing to do with the wakeups of Close.
<1>2. ASSUME NEW g \in G, NEW l, NEW n \in Mode, Goto(g, l),
             mode' = [mode EXCEPT ![g] = n], left' = left,
             l # "wake", pc[g] # "wake"
      PROVE  /\ ToWake(m)' = ToWake(m)
             /\ Moved("sleep", m, g, l, n) /\ Moved("release", m, g, l, n)
  <2>1. ToWake(m)' = ToWake(m)
    BY <1>2, <1>t, <1>w DEF Goto
  <2>. QED BY <1>2, <2>1, InMoves DEF IInv
<1>3. ASSUME NEW g \in G, NEW l, l \notin {"sleep", "release", "wake"},
             pc[g] \notin {"sleep", "release", "wake"}, Goto(g, l),
             UNCHANGED <<mode, left, wait, sema>>
      PROVE  Counted(m)'
  <2>1. /\ ToWake(m)' = ToWake(m)
        /\ Cardinality(In("sleep", m))' = Cardinality(In("sleep", m))
        /\ Cardinality(In("release", m))' = Cardinality(In("release", m))
    BY <1>2, <1>3, <1>s, <1>c DEF Moved
  <2>. QED BY <1>3, <2>1 DEF Counted
<1>4. ASSUME NEW g \in G, Incref(g) \/ Evict(g) \/ Decref(g) \/ Destroy(g)
      PROVE Counted(m)'
  BY <1>3, <1>4 DEF Incref, Evict, Decref, Destroy
<1>5. ASSUME NEW g \in G, IncrefAndClose(g) PROVE Counted(m)'
  <2>1. CASE closed' = closed
    BY <1>3, <1>5, <2>1 DEF IncrefAndClose
  <2>2. CASE closed' # closed
    <3>1. /\ Goto(g, "wake") /\ pc[g] = "idle" /\ UNCHANGED <<mode, sema>>
          /\ wait'[m] = 0 /\ left'[g][m] = wait[m] /\ ~closed
      BY <1>5, <1>t, <2>2 DEF IncrefAndClose, None
    <3>2. \A h \in G : pc[h] # "wake"
      BY <3>1 DEF IInv, CloseKeepsReference
    <3>3. ToWake(m) = 0 /\ ToWake(m)' = wait[m]
      BY <1>t, <1>w, <3>1, <3>2 DEF Goto
    <3>4. /\ Cardinality(In("sleep", m))' = Cardinality(In("sleep", m))
          /\ Cardinality(In("release", m))' = Cardinality(In("release", m))
      BY <1>c, <1>s, <3>1, InMoves DEF IInv, Moved
    <3>. QED BY <1>c, <1>t, <3>1, <3>3, <3>4 DEF Counted
  <2>. QED BY <2>1, <2>2
<1>6. ASSUME NEW g \in G, Wake(g) PROVE Counted(m)'
  <2>1. ASSUME NEW n \in Mode, left[g][n] > 0, UNCHANGED <<pc, mode, wait>>,
               sema' = [sema EXCEPT ![n] = @ + 1],
               left' = [left EXCEPT ![g][n] = @ - 1]
        PROVE  Counted(m)'
    <3>1. In("sleep", m)' = In("sleep", m) /\ In("release", m)' = In("release", m)
      BY <2>1 DEF In
    <3>3. ToWake(m) = left[g][m] /\ ToWake(m)' = left'[g][m]
      BY <1>6, <1>w, <2>1 DEF Wake
    <3>4. left[g] \in [Mode -> Nat] /\ left[g][m] \in Nat /\ sema[m] \in Nat
      BY <1>t
    <3>5. /\ left'[g][m] = left[g][m] - (IF m = n THEN 1 ELSE 0)
          /\ sema'[m] = sema[m] + (IF m = n THEN 1 ELSE 0)
      BY <1>t, <2>1, <3>4
    <3>. QED BY <1>c, <1>t, <2>1, <3>1, <3>3, <3>4, <3>5 DEF Counted
  <2>2. CASE left[g] = None /\ Goto(g, "evict") /\ UNCHANGED <<mode, wait, sema, left>>
    <3>1. ToWake(m) = 0
      BY <1>6, <1>w, <2>2 DEF Wake, None
    <3>2. \A h \in G : pc'[h] # "wake"
      BY <1>6, <1>t, <2>2 DEF Goto, Wake, IInv, CloseKeepsReference
    <3>3. /\ Cardinality(In("sleep", m))' = Cardinality(In("sleep", m))
          /\ Cardinality(In("release", m))' = Cardinality(In("release", m))
      BY <1>6, <1>c, <1>s, <2>2, InMoves DEF Wake, IInv, Moved
    <3>. QED BY <1>w, <2>2, <3>1, <3>2, <3>3 DEF Counted
  <2>. QED BY <1>6, <2>1, <2>2 DEF Wake
<1>7. ASSUME NEW g \in G, Semacquire(g) \/ Semrelease(g) PROVE Counted(m)'
  <2>1. CASE Semacquire(g)
    <3>1. /\ Goto(g, "woken") /\ pc[g] = "sleep" /\ UNCHANGED <<mode, left, wait>>
          /\ sema[mode[g]] > 0 /\ sema' = [sema EXCEPT ![mode[g]] = @ - 1]
      BY <2>1 DEF Semacquire
    <3>2. sema'[m] = sema[m] - (IF mode[g] = m THEN 1 ELSE 0)
      BY <1>s, <1>t, <3>1
    <3>3. /\ ToWake(m)' = ToWake(m)
          /\ Cardinality(In("sleep", m))' =
               Cardinality(In("sleep", m)) - (IF mode[g] = m THEN 1 ELSE 0)
          /\ Cardinality(In("release", m))' = Cardinality(In("release", m))
      BY <1>2, <1>s, <1>c, <3>1 DEF Moved
    <3>. QED BY <1>c, <1>n, <1>t, <3>1, <3>2, <3>3 DEF Counted
  <2>2. CASE Semrelease(g)
    <3>1. /\ pc[g] = "release" /\ UNCHANGED <<mode, left, wait>>
          /\ \E l \in {"destroy", "idle"} : Goto(g, l)
          /\ sema' = [sema EXCEPT ![mode[g]] = @ + 1]
      BY <2>2 DEF Semrelease
    <3>2. sema'[m] = sema[m] + (IF mode[g] = m THEN 1 ELSE 0)
      BY <1>s, <1>t, <3>1
    <3>3. /\ ToWake(m)' = ToWake(m)
          /\ Cardinality(In("sleep", m))' = Cardinality(In("sleep", m))
          /\ Cardinality(In("release", m))' =
               Cardinality(In("release", m)) - (IF mode[g] = m THEN 1 ELSE 0)
      BY <1>2, <1>s, <1>c, <3>1 DEF Moved
    <3>. QED BY <1>c, <1>n, <1>t, <3>1, <3>2, <3>3 DEF Counted
  <2>. QED BY <1>7, <2>1, <2>2
<1>8. ASSUME NEW g \in G, RWUnlock(g) PROVE Counted(m)'
  <2>1. pc[g] = "io" /\ UNCHANGED <<mode, left, sema>>
    BY <1>8 DEF RWUnlock
  <2>2. CASE wait[mode[g]] > 0
    <3>1. Goto(g, "release") /\ wait' = [wait EXCEPT ![mode[g]] = @ - 1]
      BY <1>8, <2>2 DEF RWUnlock
    <3>2. wait'[m] = wait[m] - (IF mode[g] = m THEN 1 ELSE 0)
      BY <1>s, <1>t, <2>2, <3>1
    <3>3. /\ ToWake(m)' = ToWake(m)
          /\ Cardinality(In("sleep", m))' = Cardinality(In("sleep", m))
          /\ Cardinality(In("release", m))' =
               Cardinality(In("release", m)) + (IF mode[g] = m THEN 1 ELSE 0)
      BY <1>2, <1>s, <1>c, <2>1, <3>1 DEF Moved
    <3>. QED BY <1>c, <1>n, <1>t, <2>1, <3>2, <3>3 DEF Counted
  <2>3. CASE ~(wait[mode[g]] > 0)
    <3>1. wait' = wait /\ \E l \in {"destroy", "idle"} : Goto(g, l)
      BY <1>8, <2>3 DEF RWUnlock
    <3>. QED BY <1>3, <2>1, <3>1
  <2>. QED BY <2>2, <2>3
<1>9. ASSUME NEW g \in G, NEW n \in Mode, RWLock(g, n) PROVE Counted(m)'
  <2>1. /\ pc[g] \notin {"sleep", "release", "wake"} /\ left' = left /\ sema' = sema
        /\ mode' = [mode EXCEPT ![g] = n]
    BY <1>9 DEF RWLock
  <2>2. \/ wait' = wait /\ \E l \in {"idle", "io"} : Goto(g, l)
        \/ wait' = [wait EXCEPT ![n] = @ + 1] /\ Goto(g, "sleep")
    BY <1>9 DEF RWLock
  <2>3. CASE wait' = wait /\ \E l \in {"idle", "io"} : Goto(g, l)
    <3>1. PICK l \in {"idle", "io"} : Goto(g, l)
      BY <2>3
    <3>2. ToWake(m)' = ToWake(m) /\ Moved("sleep", m, g, l, n) /\ Moved("release", m, g, l, n)
      BY <1>2, <2>1, <3>1
    <3>3. /\ Cardinality(In("sleep", m))' = Cardinality(In("sleep", m))
          /\ Cardinality(In("release", m))' = Cardinality(In("release", m))
      BY <1>c, <2>1, <3>1, <3>2 DEF Moved
    <3>. QED BY <2>1, <2>3, <3>2, <3>3 DEF Counted
  <2>4. CASE wait' = [wait EXCEPT ![n] = @ + 1] /\ Goto(g, "sleep")
    <3>1. wait'[m] = wait[m] + (IF n = m THEN 1 ELSE 0)
      BY <1>t, <2>4
    <3>2. /\ ToWake(m)' = ToWake(m)
          /\ Moved("sleep", m, g, "sleep", n) /\ Moved("release", m, g, "sleep", n)
      BY <1>2, <2>1, <2>4
    <3>3. /\ Cardinality(In("sleep", m))' =
               Cardinality(In("sleep", m)) + (IF n = m THEN 1 ELSE 0)
          /\ Cardinality(In("release", m))' = Cardinality(In("release", m))
      BY <1>c, <2>1, <3>2 DEF Moved
    <3>. QED BY <1>c, <1>n, <1>t, <2>1, <3>1, <3>2, <3>3 DEF Counted
  <2>. QED BY <2>2, <2>3, <2>4
<1>. QED
  BY <1>1, <1>4, <1>5, <1>6, <1>7, <1>8, <1>9, Steps DEF IInv, TypeOK

\* Each sleeper is counted once: by the word, by a token in its semaphore, by an
\* unlocker about to release it, or by Close about to; for any finite number of
\* goroutines.
THEOREM WaitersAreCounted ==
  ASSUME IsFiniteSet(G)
  PROVE  Spec => []WaitersCounted
<1>. DEFINE AllCounted == \A m \in Mode : Counted(m)
<1>1. Init => AllCounted
  <2>. SUFFICES ASSUME Init, NEW m \in Mode PROVE Counted(m)
    OBVIOUS
  <2>1. In("sleep", m) = {} /\ In("release", m) = {} /\ At("wake") = {}
    BY DEF Init, In, At
  <2>. QED BY <2>1, FS_EmptySet DEF Init, None, Counted, ToWake
<1>2. IInv /\ IInv' /\ AllCounted /\ [Next]_vars => AllCounted'
  BY NextWaitersCounted
<1>3. AllCounted <=> WaitersCounted
  <2>1. \A m \in Mode : /\ {g \in At("sleep") : mode[g] = m} = In("sleep", m)
                         /\ {g \in At("release") : mode[g] = m} = In("release", m)
    BY DEF At, In
  <2>. QED BY <2>1 DEF WaitersCounted, Counted, ToWake
<1>. QED
  BY IInvHolds, <1>1, <1>2, <1>3, PTL DEF Spec, SafeSpec

=============================================================================
