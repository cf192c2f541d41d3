------------------------------ MODULE Semaphore ------------------------------
(***************************************************************************)
(* What runtime.semacquire and semrelease promise sync and net: a counter  *)
(* per address, an acquire that waits until it can take a token, a release *)
(* that adds one.  No order among waiters, and none is handed a token: who *)
(* comes by when there is one may take it.  Sema implements this module;   *)
(* Mutex, RWMutex, WaitGroup and FdMutex use their semaphores through it.  *)
(***************************************************************************)
EXTENDS Naturals

CONSTANTS
  G,         \* goroutines
  Addr,      \* semaphore addresses
  NoAddr     \* no address

VARIABLES
  sem,       \* *addr, the tokens of each address
  waiting    \* the address each goroutine is acquiring, or NoAddr

Init == /\ sem = [a \in Addr |-> 0]
        /\ waiting = [g \in G |-> NoAddr]

Wait(g, a) == /\ waiting[g] = NoAddr
              /\ waiting' = [waiting EXCEPT ![g] = a]
              /\ UNCHANGED sem

Acquire(g, a) == /\ waiting[g] = a
                 /\ sem[a] > 0
                 /\ sem' = [sem EXCEPT ![a] = @ - 1]
                 /\ waiting' = [waiting EXCEPT ![g] = NoAddr]

Release(a) == /\ sem' = [sem EXCEPT ![a] = @ + 1]
              /\ UNCHANGED waiting

Next == \E a \in Addr : Release(a) \/ \E g \in G : Wait(g, a) \/ Acquire(g, a)

SafeSpec == Init /\ [][Next]_<<sem, waiting>>

\* Tokens and waiters do not stay side by side forever.
Spec == SafeSpec /\ WF_<<sem, waiting>>(\E g \in G, a \in Addr : Acquire(g, a))

=============================================================================
