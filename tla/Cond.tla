-------------------------------- MODULE Cond --------------------------------
(***************************************************************************)
(* sync/cond.go over runtime/sema.go's syncSema: condition variables.      *)
(* Wait counts itself in c.waiters and then acquires from the syncSema;    *)
(* Signal and Broadcast take waiters off the count and then release as     *)
(* many.  Between the two halves of each the other may come first, so the  *)
(* queue holds either sleeping acquirers or releasers that wait for theirs.*)
(***************************************************************************)
EXTENDS Naturals, FiniteSetsExt, SequencesExt

CONSTANTS
  G,         \* goroutines
  NoG        \* no goroutine

ASSUME NoGAssumption == NoG \notin G

VARIABLES
  holder,    \* who holds c.L, a Lock
  waiters,   \* c.waiters
  queue,     \* c.sema.head ..; a sudog as <<g, nrelease>>, an acquirer's is 0
  pc,        \* where each goroutine is
  old,       \* signalImpl's local variable old
  all,       \* signalImpl's argument
  wake       \* in syncsemacquire, the releaser to ready

vars == <<holder, waiters, queue, pc, old, all, wake>>

\* "out", or "in" possession of c.L; Wait: "unlock", "acquire", "parked",
\* "ready", "relock"; signalImpl: "load", "cas", "release", "paired", after
\* which the caller is back Outside, since it may call with or without c.L.
PC == {"out", "in", "unlock", "acquire", "parked", "ready", "relock", "load",
       "cas", "release", "paired"}

Goto(g, l) == pc' = [pc EXCEPT ![g] = l]
Outside(g) == IF holder = g THEN "in" ELSE "out"

\* signalImpl's variables are dead: the model resets them.
Forget(g) == old' = [old EXCEPT ![g] = 0] /\ all' = [all EXCEPT ![g] = FALSE]

TypeOK ==
  /\ holder \in G \cup {NoG}
  /\ waiters \in Nat
  /\ queue \in Seq(G \X Nat)
  /\ pc \in [G -> PC]
  /\ old \in [G -> Nat] /\ all \in [G -> BOOLEAN]
  /\ wake \in [G -> G \cup {NoG}]

Init ==
  /\ holder = NoG
  /\ waiters = 0
  /\ queue = <<>>
  /\ pc = [g \in G |-> "out"]
  /\ old = [g \in G |-> 0] /\ all = [g \in G |-> FALSE]
  /\ wake = [g \in G |-> NoG]

-----------------------------------------------------------------------------
\* c.L.Lock by a client, and by Wait before it returns.
LockL(g) ==
  /\ pc[g] \in {"out", "relock"} /\ holder = NoG
  /\ holder' = g
  /\ Goto(g, "in")
  /\ UNCHANGED <<waiters, queue, old, all, wake>>

\* c.L.Unlock by a client, and by Wait.
UnlockL(g) ==
  /\ pc[g] \in {"in", "unlock"}
  /\ holder' = NoG
  /\ Goto(g, IF pc[g] = "in" THEN "out" ELSE "acquire")
  /\ UNCHANGED <<waiters, queue, old, all, wake>>

Wait(g) ==
  /\ pc[g] = "in"
  /\ waiters' = waiters + 1
  /\ Goto(g, "unlock")
  /\ UNCHANGED <<holder, queue, old, all, wake>>

\* How many acquires the head of the queue has to release: 0 for an acquirer.
Pending == IF queue = <<>> THEN 0 ELSE Head(queue)[2]

\* Mutant: enqueue as an acquirer even when a release is pending.
SyncsemacquireParks(g) ==
  /\ pc[g] = "acquire"
  /\ queue' = Append(queue, <<g, 0>>)
  /\ Goto(g, "parked")
  /\ UNCHANGED <<holder, waiters, old, all, wake>>

\* syncsemacquire, all under c.sema.lock: consume a pending release, and ready
\* its releaser when that was the last of it, or enqueue itself and park.
Syncsemacquire(g) ==
  /\ pc[g] = "acquire"
  /\ \/ /\ Pending > 1
        /\ queue' = [queue EXCEPT ![1][2] = @ - 1]
        /\ Goto(g, "relock")
        /\ UNCHANGED wake
     \/ /\ Pending = 1
        /\ queue' = Tail(queue)
        /\ wake' = [wake EXCEPT ![g] = Head(queue)[1]]
        /\ Goto(g, "ready")
     \/ /\ Pending = 0
        /\ queue' = Append(queue, <<g, 0>>)
        /\ Goto(g, "parked")
        /\ UNCHANGED wake
  /\ UNCHANGED <<holder, waiters, old, all>>

\* goready(wake.g), after the unlock.
Goready(g) ==
  /\ pc[g] = "ready"
  /\ pc' = [pc EXCEPT ![g] = "relock", ![wake[g]] = Outside(wake[g])]
  /\ wake' = [wake EXCEPT ![g] = NoG]
  /\ UNCHANGED <<holder, waiters, queue, old, all>>

-----------------------------------------------------------------------------
Signal(g, toAll) ==
  /\ pc[g] \in {"out", "in"}
  /\ all' = [all EXCEPT ![g] = toAll]
  /\ Goto(g, "load")
  /\ UNCHANGED <<holder, waiters, queue, old, wake>>

Load(g) ==
  /\ pc[g] = "load"
  /\ \/ waiters = 0 /\ Goto(g, Outside(g)) /\ Forget(g)
     \/ /\ waiters # 0
        /\ old' = [old EXCEPT ![g] = waiters]
        /\ Goto(g, "cas")
        /\ UNCHANGED all
  /\ UNCHANGED <<holder, waiters, queue, wake>>

\* old - new: how many signalImpl takes off the count, and releases.
Take(g) == IF all[g] THEN old[g] ELSE 1

CasWaiters(g) ==
  /\ pc[g] = "cas"
  /\ \/ /\ waiters = old[g]
        /\ waiters' = old[g] - Take(g)
        /\ Goto(g, "release")
     \/ /\ waiters # old[g]
        /\ Goto(g, "load")
        /\ UNCHANGED waiters
  /\ UNCHANGED <<holder, queue, old, all, wake>>

Acquirers == IF Pending = 0 THEN Len(queue) ELSE 0

\* Mutant: what the sleepers did not take is dropped.
SyncsemreleaseDrops(g) ==
  /\ pc[g] = "release"
  /\ LET k == Min({Take(g), Acquirers})
         hs == {queue[i][1] : i \in 1..k}
     IN /\ queue' = SubSeq(queue, k + 1, Len(queue))
        /\ pc' = [h \in G |-> IF h \in hs THEN "relock"
                              ELSE IF h = g THEN Outside(g) ELSE pc[h]]
        /\ Forget(g)
  /\ UNCHANGED <<holder, waiters, wake>>

\* syncsemrelease(&c.sema, old-new), all under c.sema.lock: wake sleeping
\* acquirers; with some left to release, enqueue itself and park.
Syncsemrelease(g) ==
  /\ pc[g] = "release"
  /\ LET k == Min({Take(g), Acquirers})
         hs == {queue[i][1] : i \in 1..k}
         rest == SubSeq(queue, k + 1, Len(queue))
     IN /\ queue' = IF k < Take(g) THEN Append(rest, <<g, Take(g) - k>>) ELSE rest
        /\ pc' = [h \in G |-> IF h \in hs THEN "relock"
                              ELSE IF h # g THEN pc[h]
                              ELSE IF k < Take(g) THEN "paired" ELSE Outside(g)]
        /\ Forget(g)
  /\ UNCHANGED <<holder, waiters, wake>>

Call(g) == \/ Wait(g) \/ \E toAll \in BOOLEAN : Signal(g, toAll)
           \/ pc[g] = "out" /\ LockL(g)
           \/ pc[g] = "in" /\ UnlockL(g)
Run(g) == \/ pc[g] = "unlock" /\ UnlockL(g)
          \/ Syncsemacquire(g) \/ Goready(g)
          \/ Load(g) \/ CasWaiters(g) \/ Syncsemrelease(g)
Relock(g) == pc[g] = "relock" /\ LockL(g)

Next == \E g \in G : Call(g) \/ Run(g) \/ Relock(g)

\* Goroutines inside Wait, Signal and Broadcast run.
Spec == Init /\ [][Next]_vars /\ \A g \in G : WF_vars(Run(g))

-----------------------------------------------------------------------------
\* The wakeups that signalImpl took off the count and has not handed out yet: each
\* releaser's, numbered.
Granted ==
  (UNION {{g} \X (1 .. Take(g)) : g \in {h \in G : pc[h] = "release"}})
    \cup (UNION {{s[1]} \X (1 .. s[2]) : s \in ToSet(queue)})

\* goready and syncsemrelease ready parked goroutines, each once.
ReadyFindsParked ==
  /\ \A i, j \in DOMAIN queue : queue[i][1] = queue[j][1] => i = j
  /\ \A i \in DOMAIN queue :
       pc[queue[i][1]] = IF queue[i][2] = 0 THEN "parked" ELSE "paired"
  /\ \A g \in G : pc[g] = "ready" => /\ pc[wake[g]] = "paired"
                                     /\ \A i \in DOMAIN queue : queue[i][1] # wake[g]

\* The goroutines the count stands for, and those on their way to be woken.
Waiting == {g \in G : pc[g] \in {"unlock", "acquire", "parked"}}

\* Every goroutine in Wait that has not been woken is counted once: by waiters,
\* or by a Signal or Broadcast that owes a wakeup.  So Wait cannot return unless
\* awoken (cond.go:40), and no wakeup is made twice or dropped; the wakeups under
\* way are of goroutines that are parked.
WakeupsCounted ==
  /\ TypeOK
  /\ ReadyFindsParked
  /\ Cardinality(Waiting) = waiters + Cardinality(Granted)

\* A releaser that waits for its acquirers gets them: they are all in Wait.
ReleasersReturn == \A g \in G : pc[g] = "paired" ~> pc[g] # "paired"

=============================================================================
