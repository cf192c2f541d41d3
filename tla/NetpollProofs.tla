---------------------------- MODULE NetpollProofs ----------------------------
(***************************************************************************)
(* What MCNetpoll checks for one reader, one poller and a clock of two     *)
(* ticks, proved for both modes, any threads that call netpoll, any calls  *)
(* of SetDeadline, any time and any number of descriptors that use the     *)
(* pollDesc one after the other.                                           *)
(***************************************************************************)
EXTENDS Netpoll, TLAPS

Holds(p) == at[p] \in {"expire", "unblock"}

\* Each party has modes to unblock where its code says so, and one at a time has pd.lock.
Parties ==
  /\ \A p \in {"set", "close"} : at[p] # "expire"
  /\ \A p \in Pollers : at[p] \notin {"expire", "lock"}
  /\ \A p \in Party : /\ todo[p] # {} <=> Holds(p)
                      /\ at[p] \in {"idle", "lock"} => got[p] = {}
                      /\ at[p] = "ready" => got[p] # {}
  /\ \A p, q \in Party \ Pollers : Holds(p) /\ Holds(q) => p = q

\* A semaphore holds an announcement or a goroutine only while that goroutine is in
\* netpollblock.
Semaphores ==
  /\ \A m \in Mode :
       /\ gp[m] = "wait" => m \in IOMode /\ io[m] \in {"recheck", "commit", "xchg"}
       /\ gp[m] = "G" => m \in IOMode /\ io[m] = "parked"
  /\ ReadyFindsParked

\* A descriptor is open, then closed, then unblocked, then not used; seq has room for
\* the Close that must come, and for the SetDeadline that has been called.
Life ==
  /\ closing => closed
  /\ at["close"] = "lock" <=> closed /\ ~closing
  /\ ~closed => at["close"] = "idle"
  /\ ~open => closed /\ ~InUse
  /\ 1 <= seq /\ (~closing => seq < MaxSeq)
  /\ at["set"] = "lock" /\ ~closing => seq + 1 < MaxSeq
  /\ arg["set"].n \in Int64

\* A timer in the heap is for the deadlines of its modes.
Queued(k) ==
  /\ ~closing /\ timer[k].seq = seq
  /\ timer[k].f = {k} \/ (k = "r" /\ timer[k].f = Mode)
  /\ \A m \in timer[k].f : deadline[m] = timer[k].when /\ deadline[m] > 0

\* The timer that fires is that of the last SetDeadline.
Current == arg["timer"].n = seq

\* Its deadlines are over; it marks each before it unblocks its goroutine.
Firing ==
  /\ ~closing
  /\ \A k \in Mode : timer[k].queued => timer[k].f \cap arg["timer"].f = {}
  /\ at["timer"] = "unblock" => deadline[First(todo["timer"])] < 0
  /\ \A m \in arg["timer"].f :
       /\ deadline[m] # 0 /\ deadline[m] <= now
       /\ timer[m].f # {} \/ deadline[m] < 0 \/ (m = "w" /\ "r" \in arg["timer"].f)
       /\ at["timer"] = "lock" => deadline[m] > 0
       /\ m \in todo["timer"] => \/ deadline[m] > 0
                                 \/ at["timer"] = "unblock" /\ m = First(todo["timer"])
       /\ Holds("timer") /\ m \notin todo["timer"] => deadline[m] < 0

Timers ==
  /\ arg["timer"].n \in 0..seq
  /\ at["timer"] \in {"idle", "ready"} => arg["timer"] = NoArg
  /\ at["timer"] = "lock" => arg["timer"].f # {}
  /\ Holds("timer") => Current /\ todo["timer"] \subseteq arg["timer"].f
  /\ \A k \in Mode : timer[k].queued => Queued(k)
  /\ timer["r"].queued /\ timer["w"].queued => timer["r"].f \cap timer["w"].f = {}
  /\ Current => Firing

\* A deadline to come has a timer, in the heap or on its way.
Watched ==
  \A m \in Mode : deadline[m] > 0 /\ ~closing =>
    \/ \E k \in Mode : /\ timer[k].queued /\ m \in timer[k].f
                       /\ timer[k].when = deadline[m] /\ timer[k].seq = seq
    \/ Current /\ m \in arg["timer"].f

\* What arrives after the read that failed is reported, or has been.
DataSeen ==
  \A m \in IOMode : data[m] /\ io[m] \notin {"idle", "io"} =>
                      edge[m] \/ (\E p \in Pollers : m \in todo[p]) \/ gp[m] = "ready"

\* Who parks, or is going to, knows of no error, or will be unblocked.
ErrorSeen ==
  \A m \in IOMode : CheckErr(m) /\ (gp[m] = "G" \/ (gp[m] = "wait" /\ io[m] = "commit"))
                      => \E p \in Party \ Pollers : m \in todo[p]

IInv ==
  /\ TypeOK /\ Parties /\ Semaphores /\ Life
  /\ Timers /\ Watched /\ TimeoutsHonest /\ DataSeen /\ ErrorSeen

-----------------------------------------------------------------------------
\* The next step as one of its actions; the lemmas about steps split on it.
LEMMA Steps ==
  ASSUME [Next]_vars
  PROVE  \/ UNCHANGED vars \/ Tick
         \/ \E m \in IOMode : Arrive(m) \/ Prepare(m) \/ TryIO(m) \/ Check(m)
         \/ \E m \in IOMode : Block(m) \/ Recheck(m) \/ Commit(m) \/ Xchg(m)
         \/ \E d \in Deadlines : SetDeadline(d)
         \/ \E m \in Mode : Fire(m)
         \/ Close \/ Destroy \/ Open \/ \E p \in Pollers : Epollwait(p)
         \/ SetLocked \/ TimerLocked \/ CloseLocked \/ Expire
         \/ \E p \in Party : Unblock(p) \/ Goready(p)
  BY DEF Next, Wait, Locked, Run

LEMMA FirstIn ==
  ASSUME NEW S \in SUBSET Mode, S # {}
  PROVE  First(S) \in S /\ First(S) \in Mode
  BY DEF First, Mode

LEMMA EachIn ==
  ASSUME NEW S, NEW x \in S
  PROVE  Each(x) \in [Mode -> S] /\ \A m \in Mode : Each(x)[m] = x
  BY DEF Each

\* SetDeadline's deadlines and timers: each deadline to come gets a timer, a timer is
\* for one mode, or for both, and no mode has two.
LEMMA NewDeadlines ==
  ASSUME TypeOK, arg["set"].n \in Int64
  PROVE  NewDeadline \in [Mode -> -1..MaxTime]
<1>1. MaxTime \in Nat /\ now \in Nat
  BY NetpollAssumption DEF TypeOK
<1>. QED BY <1>1 DEF TypeOK, NewDeadline, Int64

\* What setDeadlineImpl stores is an int64, whatever the time it is called with.
LEMMA NanoIn ==
  ASSUME NEW d \in Deadlines
  PROVE  Nano(d.t) \in Int64 /\ d.f \in SUBSET Mode
<1>1. MaxTime \in Nat \ {0} /\ d.f \in SUBSET Mode /\ d.t \in -MaxTime - 1..2 * MaxTime + 1
  BY NetpollAssumption
<1>. QED BY <1>1 DEF Nano, Int64

LEMMA NewTimers ==
  ASSUME NEW dl \in [Mode -> -1..MaxTime], NEW s \in 0..MaxSeq
  PROVE  /\ NewTimer(dl, s) \in [Mode -> Timer]
         /\ \A k \in Mode : LET t == NewTimer(dl, s)[k] IN
              t.queued => /\ t.seq = s /\ (t.f = {k} \/ (k = "r" /\ t.f = Mode))
                          /\ \A m \in t.f : dl[m] = t.when /\ dl[m] > 0
         /\ NewTimer(dl, s)["r"].queued /\ NewTimer(dl, s)["w"].queued
              => NewTimer(dl, s)["r"].f \cap NewTimer(dl, s)["w"].f = {}
         /\ \A m \in Mode : dl[m] > 0 => \E k \in Mode : LET t == NewTimer(dl, s)[k] IN
              t.queued /\ m \in t.f /\ t.when = dl[m] /\ t.seq = s
<1>. DEFINE both == dl["r"] > 0 /\ dl["r"] = dl["w"]
            tm == NewTimer(dl, s)
            Start(f, m) == [f |-> f, when |-> dl[m], seq |-> s, queued |-> TRUE]
<1>0. /\ Mode = {"r", "w"} /\ MaxTime \in Nat /\ MaxSeq \in Nat
      /\ \A m \in Mode : dl[m] \in -1..MaxTime
  BY NetpollAssumption DEF Mode
<1>1. CASE both
  <2>1. tm["r"] = Start(Mode, "r") /\ tm["w"] = NoTimer /\ tm = [m \in Mode |-> tm[m]]
    BY <1>1 DEF NewTimer, Mode
  <2>2. NoTimer \in Timer /\ ~NoTimer.queued /\ Start(Mode, "r") \in Timer
    BY <1>0, <1>1 DEF NoTimer, Timer
  <2>. HIDE DEF tm
  <2>3. tm \in [Mode -> Timer]
    BY <1>0, <2>1, <2>2
  <2>4. \A k \in Mode : tm[k].queued =>
          /\ k = "r" /\ tm[k].seq = s /\ tm[k].f = Mode
          /\ \A m \in tm[k].f : dl[m] = tm[k].when /\ dl[m] > 0
    BY <1>0, <1>1, <2>1, <2>2
  <2>5. \A m \in Mode : dl[m] > 0 =>
          tm["r"].queued /\ m \in tm["r"].f /\ tm["r"].when = dl[m] /\ tm["r"].seq = s
    BY <1>0, <1>1, <2>1
  <2>. QED BY <1>0, <2>3, <2>4, <2>5 DEF tm
<1>2. CASE ~both
  <2>1. /\ \A m \in Mode : tm[m] = IF dl[m] > 0 THEN Start({m}, m) ELSE NoTimer
        /\ tm = [m \in Mode |-> tm[m]]
    BY <1>2 DEF NewTimer
  <2>2. NoTimer \in Timer /\ ~NoTimer.queued
    BY <1>0 DEF NoTimer, Timer
  <2>3. \A m \in Mode : dl[m] > 0 => Start({m}, m) \in Timer
    BY <1>0 DEF Timer
  <2>. HIDE DEF tm
  <2>4. tm \in [Mode -> Timer]
    BY <2>1, <2>2, <2>3
  <2>5. ASSUME NEW k \in Mode PROVE
          tm[k].queued => /\ tm[k].seq = s /\ tm[k].f = {k}
                          /\ \A m \in tm[k].f : dl[m] = tm[k].when /\ dl[m] > 0
    BY <1>0, <2>1, <2>2
  <2>6. ASSUME NEW m \in Mode, dl[m] > 0
        PROVE  tm[m].queued /\ m \in tm[m].f /\ tm[m].when = dl[m] /\ tm[m].seq = s
    BY <2>1, <2>6
  <2>7. tm["r"].queued /\ tm["w"].queued => tm["r"].f \cap tm["w"].f = {}
    BY <1>0, <2>5
  <2>. QED BY <2>4, <2>5, <2>6, <2>7 DEF tm
<1>. QED BY <1>1, <1>2

\* netpollunblock by p of m, and what p does next.
Takes(p, m) ==
  /\ m = First(todo[p]) /\ m \in Mode /\ at[p] = "unblock"
  /\ gp'[m] = IF gp[m] = "ready" \/ p \in Pollers THEN "ready" ELSE "nil"
  /\ \A k \in Mode : k # m => gp'[k] = gp[k]
  /\ got'[p] = IF gp[m] = "G" THEN got[p] \cup {m} ELSE got[p]
  /\ todo'[p] = todo[p] \ {m}
  /\ at'[p] = IF todo'[p] # {} THEN IF p = "timer" THEN "expire" ELSE "unblock"
              ELSE IF got'[p] = {} THEN "idle" ELSE "ready"
  /\ \A q \in Party : q # p => got'[q] = got[q] /\ todo'[q] = todo[q] /\ at'[q] = at[q]
  /\ arg' = IF todo'[p] # {} THEN arg ELSE Drop(p)
  /\ gp' = [k \in Mode |-> gp'[k]] /\ got' = [q \in Party |-> got'[q]]
  /\ todo' = [q \in Party |-> todo'[q]] /\ at' = [q \in Party |-> at'[q]]
  /\ UNCHANGED <<fd, pd, kernel, io>>

LEMMA Unblocked ==
  ASSUME TypeOK, Parties, NEW p \in Party, Unblock(p)
  PROVE  \E m \in todo[p] : Takes(p, m)
<1>1. todo[p] # {} /\ todo[p] \in SUBSET Mode /\ at[p] = "unblock"
  BY DEF Unblock, Parties, TypeOK, Holds
<1>2. PICK m \in todo[p] : m = First(todo[p]) /\ m \in Mode
  BY <1>1, FirstIn
<1>3. /\ gp' = [gp EXCEPT ![m] = IF @ = "ready" \/ p \in Pollers THEN "ready" ELSE "nil"]
      /\ got' = [got EXCEPT ![p] = IF gp[m] = "G" THEN @ \cup {m} ELSE @]
      /\ todo' = [todo EXCEPT ![p] = @ \ {m}]
      /\ at' = [at EXCEPT ![p] = IF todo'[p] = {} THEN IF got'[p] = {} THEN "idle" ELSE "ready"
                                 ELSE IF p = "timer" THEN "expire" ELSE "unblock"]
      /\ arg' = IF todo'[p] = {} THEN Drop(p) ELSE arg
      /\ UNCHANGED <<fd, pd, kernel, io>>
  BY <1>2 DEF Unblock, Enter
<1>. QED BY <1>1, <1>2, <1>3 DEF TypeOK, Takes

\* goready by p of the goroutine of m.
Readies(p, m) ==
  /\ m \in Mode /\ at[p] = "ready"
  /\ io' = [io EXCEPT ![m] = "xchg"]
  /\ got'[p] = got[p] \ {m}
  /\ at'[p] = IF got'[p] = {} THEN "idle" ELSE "ready"
  /\ \A q \in Party : q # p => got'[q] = got[q] /\ at'[q] = at[q]
  /\ got' = [q \in Party |-> got'[q]] /\ at' = [q \in Party |-> at'[q]]
  /\ UNCHANGED <<fd, pd, gp, kernel, todo, arg>>

LEMMA Readied ==
  ASSUME TypeOK, Parties, NEW p \in Party, Goready(p)
  PROVE  \E m \in got[p] : Readies(p, m)
<1>1. got[p] # {} /\ got[p] \in SUBSET Mode /\ at[p] = "ready"
  BY DEF Goready, Parties, TypeOK
<1>2. PICK m \in got[p] : m = First(got[p]) /\ m \in Mode
  BY <1>1, FirstIn
<1>3. /\ io' = [io EXCEPT ![m] = "xchg"] /\ got' = [got EXCEPT ![p] = @ \ {m}]
      /\ at' = [at EXCEPT ![p] = IF got'[p] = {} THEN "idle" ELSE "ready"]
      /\ UNCHANGED <<fd, pd, gp, kernel, todo, arg>>
  BY <1>2 DEF Goready, Goto, Enter
<1>. QED BY <1>1, <1>2, <1>3 DEF TypeOK, Readies

LEMMA NextTypeOK ==
  ASSUME IInv, [Next]_vars
  PROVE  TypeOK'
<1>. USE DEF fd, pd, kernel, party
<1>0. TypeOK /\ Parties /\ Semaphores /\ Life /\ Timers /\ TimeoutsHonest
  BY DEF IInv
<1>1. MaxTime \in Nat \ {0} /\ MaxSeq \in Nat \ {0, 1} /\ IOMode \subseteq Mode
  BY NetpollAssumption
<1>2. CASE UNCHANGED vars
  BY <1>0, <1>2 DEF TypeOK, vars
<1>3. CASE Tick
  BY <1>0, <1>1, <1>3 DEF TypeOK, Tick
<1>4. ASSUME NEW m \in IOMode, Arrive(m) \/ Prepare(m) \/ TryIO(m) \/ Check(m)
      PROVE  TypeOK'
  <2>1. CASE Arrive(m)
    BY <1>0, <1>1, <2>1 DEF TypeOK, Arrive
  <2>2. CASE Prepare(m)
    BY <1>0, <1>1, <2>2 DEF TypeOK, Prepare, Goto
  <2>3. CASE TryIO(m)
    BY <1>0, <1>1, <2>3 DEF TypeOK, TryIO, Goto
  <2>4. CASE Check(m)
    BY <1>0, <1>1, <2>4 DEF TypeOK, Check, Goto
  <2>. QED BY <1>4, <2>1, <2>2, <2>3, <2>4
<1>5. ASSUME NEW m \in IOMode, Block(m) \/ Recheck(m) \/ Commit(m) \/ Xchg(m)
      PROVE  TypeOK'
  BY <1>0, <1>1, <1>5 DEF TypeOK, Block, Recheck, Commit, Xchg, Goto
<1>6. NoArg \in [f : SUBSET Mode, n : Int64 \cup 0..MaxSeq] /\ NoTimer \in Timer
  BY <1>1 DEF NoArg, NoTimer, Timer
<1>7. ASSUME NEW d \in Deadlines, SetDeadline(d) PROVE TypeOK'
  <2>1. [f |-> d.f, n |-> Nano(d.t)] \in [f : SUBSET Mode, n : Int64 \cup 0..MaxSeq]
    BY NanoIn
  <2>. QED BY <1>0, <1>7, <2>1 DEF TypeOK, SetDeadline, Enter, Party
<1>8. ASSUME NEW m \in Mode, Fire(m) PROVE TypeOK'
  <2>1. /\ timer[m] \in Timer /\ [NoTimer EXCEPT !.f = timer[m].f] \in Timer
        /\ [f |-> timer[m].f, n |-> timer[m].seq] \in [f : SUBSET Mode, n : Int64 \cup 0..MaxSeq]
    BY <1>0, <1>6 DEF TypeOK, Timer, NoTimer
  <2>2. /\ timer' = [timer EXCEPT ![m] = [NoTimer EXCEPT !.f = timer[m].f]]
        /\ arg' = [arg EXCEPT !["timer"] = [f |-> timer[m].f, n |-> timer[m].seq]]
        /\ at' = [at EXCEPT !["timer"] = "lock"]
        /\ UNCHANGED <<fd, closing, seq, deadline, due, gp, kernel, io, todo, got>>
    BY <1>8 DEF Fire, Enter
  <2>. QED BY <1>0, <2>1, <2>2 DEF TypeOK, Party
<1>. DEFINE none == Each(0)
            off == Each(FALSE)
            nils == Each("nil")
<1>18. /\ none \in [Mode -> -1..MaxTime] /\ none \in [Mode -> Int64]
      /\ off \in [Mode -> BOOLEAN] /\ nils \in [Mode -> {"nil", "ready", "wait", "G"}]
  <2>1. 0 \in -1..MaxTime /\ 0 \in Int64
    BY <1>1 DEF Int64
  <2>. QED BY <2>1, EachIn
<1>. HIDE DEF none, off, nils
<1>19. CASE Close
  BY <1>0, <1>19 DEF TypeOK, Close, Enter
<1>9. CASE Destroy
  <2>1. /\ open' = FALSE /\ deadline' = none /\ due' = none /\ data' = off /\ edge' = off
        /\ UNCHANGED <<closed, closing, seq, timer, gp, now, io, party, arg>>
    BY <1>9 DEF Destroy, none, off
  <2>. QED BY <1>0, <1>18, <2>1 DEF TypeOK
<1>10. CASE Open
  <2>1. /\ open' = TRUE /\ closed' = FALSE /\ closing' = FALSE /\ seq + 1 < MaxSeq
        /\ seq' = seq + 1 /\ gp' = nils /\ deadline' = none /\ due' = none
        /\ UNCHANGED <<timer, kernel, io, party, arg>>
    BY <1>10 DEF Open, none, nils
  <2>2. seq' \in 0..MaxSeq
    BY <1>0, <1>1, <2>1 DEF TypeOK
  <2>. QED BY <1>0, <1>18, <2>1, <2>2 DEF TypeOK
<1>11. ASSUME NEW p \in Pollers, Epollwait(p) PROVE TypeOK'
  <2>1. /\ \E S \in SUBSET Mode : todo' = [todo EXCEPT ![p] = S]
        /\ \E l \in {"idle", "unblock"} : at' = [at EXCEPT ![p] = l]
        /\ edge' = off
        /\ UNCHANGED <<fd, pd, gp, now, data, io, got, arg>>
    BY <1>11 DEF Epollwait, Enter, off
  <2>2. todo' \in [Party -> SUBSET Mode]
    BY <1>0, <2>1 DEF TypeOK
  <2>3. at' \in [Party -> {"idle", "lock", "expire", "unblock", "ready"}]
    BY <1>0, <2>1 DEF TypeOK
  <2>. QED BY <1>0, <1>18, <2>1, <2>2, <2>3 DEF TypeOK
<1>12. CASE SetLocked
  <2>1. arg' \in [{"set", "timer"} -> [f : SUBSET Mode, n : Int64 \cup 0..MaxSeq]]
    BY <1>0, <1>6, <1>12 DEF TypeOK, SetLocked, Drop
  <2>2. CASE closing
    BY <1>0, <1>12, <2>1, <2>2 DEF TypeOK, SetLocked, Enter
  <2>3. CASE ~closing
    <3>1. /\ at["set"] = "lock" /\ seq' = seq + 1 /\ deadline' = NewDeadline
          /\ timer' = NewTimer(deadline', seq')
          /\ due' = [m \in Mode |-> IF m \in arg["set"].f THEN arg["set"].n ELSE due[m]]
          /\ todo' = [todo EXCEPT !["set"] = {m \in Mode : NewDeadline[m] < 0}]
          /\ \E l \in {"idle", "unblock"} : at' = [at EXCEPT !["set"] = l]
          /\ UNCHANGED <<fd, closing, gp, kernel, io, got>>
      BY <1>12, <2>3 DEF SetLocked, Enter
    <3>2. seq' \in 0..MaxSeq /\ arg["set"].n \in Int64
      BY <1>0, <1>1, <2>3, <3>1 DEF Life, TypeOK
    <3>3. deadline' \in [Mode -> -1..MaxTime] /\ timer' \in [Mode -> Timer]
      <4>1. NewDeadline \in [Mode -> -1..MaxTime]
        BY <1>0, <3>2, NewDeadlines
      <4>2. PICK s \in 0..MaxSeq : s = seq'
        BY <3>2
      <4>. QED BY <3>1, <4>1, <4>2, NewTimers
    <3>4. due' \in [Mode -> Int64]
      BY <1>0, <3>1, <3>2 DEF TypeOK
    <3>5. at' \in [Party -> {"idle", "lock", "expire", "unblock", "ready"}]
      BY <1>0, <3>1 DEF TypeOK
    <3>6. todo' \in [Party -> SUBSET Mode]
      BY <1>0, <3>1 DEF TypeOK
    <3>. QED BY <1>0, <2>1, <3>1, <3>2, <3>3, <3>4, <3>5, <3>6 DEF TypeOK
  <2>. QED BY <2>2, <2>3
<1>13. CASE TimerLocked
  <2>1. arg["timer"].f \in SUBSET Mode
    BY <1>0 DEF TypeOK
  <2>. QED BY <1>0, <1>6, <1>13, <2>1 DEF TypeOK, TimerLocked, Enter, Drop
<1>14. CASE CloseLocked
  <2>1. seq' \in 0..MaxSeq
    BY <1>0, <1>1, <1>14 DEF Life, TypeOK, CloseLocked
  <2>. QED BY <1>0, <1>6, <1>14, <2>1 DEF TypeOK, CloseLocked, Enter, Each
<1>15. CASE Expire
  <2>1. PICK m \in Mode : m = First(todo["timer"])
    BY <1>0, <1>15, FirstIn DEF TypeOK, Parties, Expire, Party, Holds
  <2>2. /\ deadline' = [deadline EXCEPT ![m] = -1] /\ timer' = [timer EXCEPT ![m].f = {}]
        /\ at' = [at EXCEPT !["timer"] = "unblock"]
        /\ UNCHANGED <<fd, closing, seq, due, gp, kernel, io, todo, got, arg>>
    BY <1>15, <2>1 DEF Expire, Enter
  <2>3. timer' \in [Mode -> Timer]
    <3>1. timer \in [Mode -> Timer] /\ [timer[m] EXCEPT !.f = {}] \in Timer
      <4>1. timer \in [Mode -> Timer]
        BY <1>0 DEF TypeOK
      <4>2. timer[m] \in Timer
        BY <4>1
      <4>. QED BY <4>1, <4>2 DEF Timer
    <3>2. timer' = [timer EXCEPT ![m] = [timer[m] EXCEPT !.f = {}]]
      BY <2>2
    <3>. QED BY <3>1, <3>2
  <2>4. deadline' \in [Mode -> -1..MaxTime]
    <3>1. -1 \in -1..MaxTime /\ deadline \in [Mode -> -1..MaxTime]
      BY <1>0, <1>1 DEF TypeOK
    <3>. QED BY <2>2, <3>1
  <2>5. at' \in [Party -> {"idle", "lock", "expire", "unblock", "ready"}]
    BY <1>0, <2>2 DEF TypeOK
  <2>. QED BY <1>0, <2>2, <2>3, <2>4, <2>5 DEF TypeOK
<1>16. ASSUME NEW p \in Party, Unblock(p) PROVE TypeOK'
  <2>1. PICK m \in todo[p] : Takes(p, m)
    BY <1>0, <1>16, Unblocked
  <2>2. arg' \in [{"set", "timer"} -> [f : SUBSET Mode, n : Int64 \cup 0..MaxSeq]]
    BY <1>0, <1>6, <2>1 DEF TypeOK, Drop, Takes
  <2>3. gp' \in [Mode -> {"nil", "ready", "wait", "G"}]
    <3>1. \A k \in Mode : gp'[k] \in {"nil", "ready", "wait", "G"}
      BY <1>0, <2>1 DEF TypeOK, Takes
    <3>. QED BY <2>1, <3>1 DEF Takes
  <2>4. got' \in [Party -> SUBSET Mode] /\ todo' \in [Party -> SUBSET Mode]
    <3>1. \A q \in Party : got'[q] \in SUBSET Mode /\ todo'[q] \in SUBSET Mode
      BY <1>0, <2>1 DEF TypeOK, Takes
    <3>. QED BY <2>1, <3>1 DEF Takes
  <2>5. at' \in [Party -> {"idle", "lock", "expire", "unblock", "ready"}]
    <3>1. \A q \in Party : at'[q] \in {"idle", "lock", "expire", "unblock", "ready"}
      BY <1>0, <2>1 DEF TypeOK, Takes
    <3>. QED BY <2>1, <3>1 DEF Takes
  <2>. QED BY <1>0, <2>1, <2>2, <2>3, <2>4, <2>5 DEF TypeOK, Takes
<1>17. ASSUME NEW p \in Party, Goready(p) PROVE TypeOK'
  <2>1. PICK m \in got[p] : Readies(p, m)
    BY <1>0, <1>17, Readied
  <2>2. got' \in [Party -> SUBSET Mode]
    <3>1. \A q \in Party : got'[q] \in SUBSET Mode
      BY <1>0, <2>1 DEF TypeOK, Readies
    <3>. QED BY <2>1, <3>1 DEF Readies
  <2>3. at' \in [Party -> {"idle", "lock", "expire", "unblock", "ready"}]
    <3>1. \A q \in Party : at'[q] \in {"idle", "lock", "expire", "unblock", "ready"}
      BY <1>0, <2>1 DEF TypeOK, Readies
    <3>. QED BY <2>1, <3>1 DEF Readies
  <2>4. io' \in [IOMode -> {"idle", "io", "check", "block", "recheck", "commit",
                            "parked", "xchg"}]
    BY <1>0, <2>1 DEF TypeOK, Readies
  <2>. QED BY <1>0, <2>1, <2>2, <2>3, <2>4 DEF TypeOK, Readies
<1>. QED
  BY <1>2, <1>3, <1>4, <1>5, <1>7, <1>8, <1>19, <1>9, <1>10, <1>11, <1>12, <1>13, <1>14,
     <1>15, <1>16, <1>17, Steps

\* One of SetDeadline, Close and the timer has pd.lock, and keeps it while it unblocks.
LEMMA NextParties ==
  ASSUME IInv, [Next]_vars
  PROVE  Parties'
<1>. USE DEF fd, pd, kernel, party
<1>0. /\ TypeOK /\ Parties /\ Timers
      /\ at \in [Party -> {"idle", "lock", "expire", "unblock", "ready"}]
      /\ todo \in [Party -> SUBSET Mode] /\ got \in [Party -> SUBSET Mode]
      /\ Party = {"set", "close", "timer"} \cup Pollers
      /\ Pollers \cap {"set", "close", "timer"} = {}
  BY PollersAssumption DEF IInv, TypeOK, Party
<1>1. CASE UNCHANGED <<at, todo, got>>
  BY <1>0, <1>1 DEF Parties, Holds
\* p, which is not at work on any mode, goes to l with the modes S, with pd.lock or not.
<1>2. ASSUME NEW p \in Party, NEW l, NEW S \in SUBSET Mode, at' = [at EXCEPT ![p] = l],
             todo' = [todo EXCEPT ![p] = S], UNCHANGED got, at[p] \in {"idle", "lock"},
             \/ l \in {"idle", "lock"} /\ S = {} /\ (p \notin Pollers \/ l = "idle")
             \/ l = "unblock" /\ S # {} /\ (p \in Pollers \/ Free)
             \/ l = "expire" /\ S # {} /\ p = "timer" /\ Free
      PROVE  Parties'
  <2>1. /\ \A q \in Party : q # p => at'[q] = at[q] /\ todo'[q] = todo[q]
        /\ at'[p] = l /\ todo'[p] = S
    BY <1>0, <1>2
  <2>2. \A q \in Party : /\ todo'[q] # {} <=> at'[q] \in {"expire", "unblock"}
                         /\ at'[q] \in {"idle", "lock"} => got'[q] = {}
                         /\ at'[q] = "ready" => got'[q] # {}
    BY <1>0, <1>2, <2>1 DEF Parties, Holds
  <2>3. /\ \A q \in {"set", "close"} : at'[q] # "expire"
        /\ \A q \in Pollers : at'[q] \notin {"expire", "lock"}
    BY <1>0, <1>2, <2>1 DEF Parties
  <2>4. \A q, r \in Party \ Pollers :
           at'[q] \in {"expire", "unblock"} /\ at'[r] \in {"expire", "unblock"} => q = r
    BY <1>0, <1>2, <2>1 DEF Parties, Holds, Free
  <2>. QED BY <2>2, <2>3, <2>4 DEF Parties, Holds
<1>3. CASE UNCHANGED vars \/ Tick \/ Destroy \/ Open
  BY <1>1, <1>3 DEF vars, Tick, Destroy, Open
<1>4. ASSUME NEW m \in IOMode, Arrive(m) \/ Prepare(m) \/ TryIO(m) \/ Check(m)
      PROVE  UNCHANGED <<at, todo, got>>
  BY <1>4 DEF Arrive, Prepare, TryIO, Check
<1>5. ASSUME NEW m \in IOMode, Block(m) \/ Recheck(m) \/ Commit(m) \/ Xchg(m)
      PROVE  UNCHANGED <<at, todo, got>>
  BY <1>5 DEF Block, Recheck, Commit, Xchg
<1>6. \A p \in Party : at[p] \in {"idle", "lock"} => todo[p] = {} /\ [todo EXCEPT ![p] = {}] = todo
  BY <1>0 DEF Parties, Holds
<1>7. ASSUME NEW d \in Deadlines, SetDeadline(d) PROVE Parties'
  BY <1>0, <1>2, <1>6, <1>7 DEF SetDeadline, Enter
<1>8. ASSUME NEW m \in Mode, Fire(m) PROVE Parties'
  BY <1>0, <1>2, <1>6, <1>8 DEF Fire, Enter
<1>9. CASE Close
  BY <1>0, <1>2, <1>6, <1>9 DEF Close, Enter
<1>10. ASSUME NEW p \in Pollers, Epollwait(p) PROVE Parties'
  <2>1. PICK S \in SUBSET Mode : /\ todo' = [todo EXCEPT ![p] = S]
                                 /\ at' = [at EXCEPT ![p] = IF S = {} THEN "idle" ELSE "unblock"]
    <3>1. PICK S \in SUBSET Mode : /\ todo' = [todo EXCEPT ![p] = S]
                                   /\ at' = [at EXCEPT ![p] = IF S = {} THEN "idle" ELSE "unblock"]
      BY <1>10 DEF Epollwait, Enter
    <3>. QED BY <3>1
  <2>2. at[p] = "idle" /\ UNCHANGED got
    BY <1>10 DEF Epollwait
  <2>. QED BY <1>0, <1>2, <2>1, <2>2
<1>11. CASE SetLocked
  <2>1. at["set"] = "lock" /\ Free /\ UNCHANGED got
    BY <1>11 DEF SetLocked
  <2>2. \E S \in SUBSET Mode : /\ todo' = [todo EXCEPT !["set"] = S]
                               /\ at' = [at EXCEPT !["set"] = IF S = {} THEN "idle" ELSE "unblock"]
    <3>1. CASE closing
      BY <1>0, <1>6, <1>11, <2>1, <3>1 DEF SetLocked, Enter
    <3>2. CASE ~closing
      <4>1. PICK S \in SUBSET Mode : S = {m \in Mode : NewDeadline[m] < 0}
        OBVIOUS
      <4>2. todo' = [todo EXCEPT !["set"] = S]
        BY <1>11, <3>2, <4>1 DEF SetLocked
      <4>3. todo'["set"] = S
        BY <1>0, <4>2
      <4>. QED BY <1>11, <3>2, <4>2, <4>3 DEF SetLocked, Enter
    <3>. QED BY <3>1, <3>2
  <2>. QED BY <1>0, <1>2, <2>1, <2>2
<1>12. CASE TimerLocked
  <2>1. at["timer"] = "lock" /\ Free /\ UNCHANGED got
    BY <1>12 DEF TimerLocked
  <2>2. CASE UNCHANGED todo /\ at' = [at EXCEPT !["timer"] = "idle"]
    BY <1>0, <1>2, <1>6, <2>1, <2>2
  <2>3. CASE /\ todo' = [todo EXCEPT !["timer"] = arg["timer"].f]
             /\ at' = [at EXCEPT !["timer"] = "expire"]
    <3>1. PICK S \in SUBSET Mode : S = arg["timer"].f /\ S # {}
      BY <1>0, <2>1 DEF Timers, TypeOK
    <3>. QED BY <1>0, <1>2, <2>1, <2>3, <3>1
  <2>. QED BY <1>12, <2>2, <2>3 DEF TimerLocked, Enter
<1>13. CASE CloseLocked
  <2>1. Mode \in SUBSET Mode /\ Mode # {}
    BY DEF Mode
  <2>. QED BY <1>0, <1>2, <1>13, <2>1 DEF CloseLocked, Enter
<1>14. CASE Expire
  <2>1. at' = [at EXCEPT !["timer"] = "unblock"] /\ at["timer"] = "expire" /\ UNCHANGED <<todo, got>>
    BY <1>14 DEF Expire, Enter
  <2>2. \A q \in Party : (at'[q] \in {"expire", "unblock"}) <=> (at[q] \in {"expire", "unblock"})
    BY <1>0, <2>1
  <2>3. \A q \in Party : q # "timer" => at'[q] = at[q]
    BY <1>0, <2>1
  <2>4. at'["timer"] = "unblock"
    BY <1>0, <2>1
  <2>. QED BY <1>0, <2>1, <2>2, <2>3, <2>4 DEF Parties, Holds
<1>15. ASSUME NEW p \in Party, Unblock(p) PROVE Parties'
  <2>1. PICK m \in todo[p] : Takes(p, m)
    BY <1>0, <1>15, Unblocked
  <2>2. \A q \in Party : /\ todo'[q] # {} <=> at'[q] \in {"expire", "unblock"}
                         /\ at'[q] \in {"idle", "lock"} => got'[q] = {}
                         /\ at'[q] = "ready" => got'[q] # {}
    BY <1>0, <2>1 DEF Parties, Holds, Takes
  <2>3. /\ \A q \in {"set", "close"} : at'[q] # "expire"
        /\ \A q \in Pollers : at'[q] \notin {"expire", "lock"}
    BY <1>0, <2>1 DEF Parties, Takes
  <2>4. \A q \in Party : at'[q] \in {"expire", "unblock"} => at[q] \in {"expire", "unblock"}
    BY <2>1 DEF Takes
  <2>. QED BY <1>0, <2>2, <2>3, <2>4 DEF Parties, Holds
<1>16. ASSUME NEW p \in Party, Goready(p) PROVE Parties'
  <2>1. /\ at[p] = "ready" /\ at'[p] = (IF got'[p] = {} THEN "idle" ELSE "ready")
        /\ \A q \in Party : q # p => got'[q] = got[q] /\ at'[q] = at[q]
        /\ UNCHANGED todo
    <3>1. PICK m \in got[p] : Readies(p, m)
      BY <1>0, <1>16, Readied
    <3>. QED BY <3>1 DEF Readies
  <2>2. \A q \in Party : /\ todo'[q] # {} <=> at'[q] \in {"expire", "unblock"}
                         /\ at'[q] \in {"idle", "lock"} => got'[q] = {}
                         /\ at'[q] = "ready" => got'[q] # {}
    BY <1>0, <2>1 DEF Parties, Holds
  <2>3. /\ \A q \in {"set", "close"} : at'[q] # "expire"
        /\ \A q \in Pollers : at'[q] \notin {"expire", "lock"}
    BY <1>0, <2>1 DEF Parties
  <2>4. \A q \in Party : at'[q] \in {"expire", "unblock"} => at[q] \in {"expire", "unblock"}
    BY <2>1
  <2>. QED BY <1>0, <2>2, <2>3, <2>4 DEF Parties, Holds
<1>. QED
  BY <1>1, <1>3, <1>4, <1>5, <1>7, <1>8, <1>9, <1>10, <1>11, <1>12, <1>13, <1>14, <1>15,
     <1>16, Steps

\* Only its own goroutine announces a wait on a semaphore, or parks on it.
LEMMA NextSemaphores ==
  ASSUME IInv, [Next]_vars
  PROVE  Semaphores'
<1>. USE DEF fd, pd, kernel, party
<1>0. /\ TypeOK /\ Parties /\ Semaphores /\ Life /\ IOMode \subseteq Mode
      /\ gp \in [Mode -> {"nil", "ready", "wait", "G"}] /\ got \in [Party -> SUBSET Mode]
      /\ io \in [IOMode -> {"idle", "io", "check", "block", "recheck", "commit",
                            "parked", "xchg"}]
  BY NetpollAssumption DEF IInv, TypeOK
<1>1. CASE UNCHANGED <<gp, io, got>>
  BY <1>0, <1>1 DEF Semaphores, ReadyFindsParked
\* The goroutine of m, which is not parked, goes to l and leaves x in its semaphore.
<1>2. ASSUME NEW m \in IOMode, NEW l, NEW x, io' = [io EXCEPT ![m] = l],
             gp' = [gp EXCEPT ![m] = x], UNCHANGED got, io[m] # "parked",
             x = "wait" => l \in {"recheck", "commit", "xchg"},
             x = "G" => l = "parked", l = "parked" => x = "G"
      PROVE  Semaphores'
  <2>1. /\ \A k \in Mode : gp'[k] = IF k = m THEN x ELSE gp[k]
        /\ \A k \in IOMode : io'[k] = IF k = m THEN l ELSE io[k]
    BY <1>0, <1>2
  <2>2. \A p \in Party : m \notin got[p]
    BY <1>0, <1>2 DEF Semaphores, ReadyFindsParked
  <2>3. ReadyFindsParked'
    BY <1>0, <1>2, <2>1, <2>2 DEF Semaphores, ReadyFindsParked
  <2>. QED BY <1>0, <1>2, <2>1, <2>3 DEF Semaphores
<1>3. CASE UNCHANGED vars \/ Tick \/ Close \/ Destroy \/ \E p \in Pollers : Epollwait(p)
  BY <1>1, <1>3 DEF vars, Tick, Close, Destroy, Epollwait
<1>4. CASE SetLocked \/ TimerLocked \/ CloseLocked \/ Expire
  BY <1>1, <1>4 DEF SetLocked, TimerLocked, CloseLocked, Expire
<1>5. ASSUME NEW d \in Deadlines, SetDeadline(d) PROVE Semaphores'
  BY <1>1, <1>5 DEF SetDeadline
<1>6. ASSUME NEW m \in Mode, Fire(m) PROVE Semaphores'
  BY <1>1, <1>6 DEF Fire
<1>7. ASSUME NEW m \in IOMode PROVE gp = [gp EXCEPT ![m] = gp[m]]
  BY <1>0
<1>8. ASSUME NEW m \in IOMode, Arrive(m) \/ Prepare(m) \/ TryIO(m) \/ Check(m)
      PROVE  Semaphores'
  <2>1. CASE Arrive(m)
    BY <1>1, <2>1 DEF Arrive
  <2>2. CASE Prepare(m)
    BY <1>2, <2>2 DEF Prepare, Goto
  <2>3. CASE TryIO(m) \/ Check(m)
    <3>1. /\ io[m] \in {"io", "check"} /\ UNCHANGED <<gp, got>>
          /\ \E l \in {"idle", "check", "block"} : io' = [io EXCEPT ![m] = l]
      BY <2>3 DEF TryIO, Check, Goto
    <3>2. gp[m] \notin {"wait", "G"}
      BY <1>0, <3>1 DEF Semaphores
    <3>. QED BY <1>2, <1>7, <3>1, <3>2
  <2>. QED BY <1>8, <2>1, <2>2, <2>3
<1>9. ASSUME NEW m \in IOMode, Block(m) \/ Recheck(m) \/ Commit(m) \/ Xchg(m)
      PROVE  Semaphores'
  <2>1. CASE Block(m)
    BY <1>2, <2>1 DEF Block, Goto
  <2>2. CASE Recheck(m)
    <3>1. /\ io[m] = "recheck" /\ UNCHANGED <<gp, got>>
          /\ \E l \in {"xchg", "commit"} : io' = [io EXCEPT ![m] = l]
      BY <2>2 DEF Recheck, Goto
    <3>2. gp[m] # "G"
      BY <1>0, <3>1 DEF Semaphores
    <3>. QED BY <1>2, <1>7, <3>1, <3>2
  <2>3. CASE Commit(m)
    <3>1. CASE gp[m] = "wait"
      BY <1>2, <2>3, <3>1 DEF Commit, Goto
    <3>2. CASE gp[m] # "wait"
      <4>1. io[m] = "commit" /\ io' = [io EXCEPT ![m] = "xchg"] /\ UNCHANGED <<gp, got>>
        BY <2>3, <3>2 DEF Commit, Goto
      <4>2. gp[m] # "G"
        BY <1>0, <4>1 DEF Semaphores
      <4>. QED BY <1>2, <1>7, <3>2, <4>1, <4>2
    <3>. QED BY <3>1, <3>2
  <2>4. CASE Xchg(m)
    BY <1>2, <2>4 DEF Xchg, Goto
  <2>. QED BY <1>9, <2>1, <2>2, <2>3, <2>4
\* A pollDesc is reused when nobody uses it.
<1>10. CASE Open
  <2>1. /\ \A m \in IOMode : io[m] = "idle"
        /\ \A m \in Mode : gp'[m] = "nil" /\ UNCHANGED <<io, got>>
    BY <1>0, <1>10 DEF Open, Life, InUse, Each
  <2>2. \A p \in Party : got[p] = {}
    BY <1>0, <2>1 DEF Semaphores, ReadyFindsParked
  <2>3. UNCHANGED <<io, got>>
    BY <1>10 DEF Open
  <2>4. ReadyFindsParked'
    BY <2>2, <2>3 DEF ReadyFindsParked
  <2>. QED BY <2>1, <2>4 DEF Semaphores
<1>11. ASSUME NEW p \in Party, Unblock(p) PROVE Semaphores'
  <2>1. PICK m \in todo[p] : Takes(p, m)
    BY <1>0, <1>11, Unblocked
  <2>2. ReadyFindsParked'
    <3>1. SUFFICES ASSUME NEW q \in Party, NEW k \in got'[q]
          PROVE  /\ k \in IOMode /\ io'[k] = "parked" /\ gp'[k] # "G"
                 /\ \A r \in Party \ {q} : k \notin got'[r]
      BY DEF ReadyFindsParked
    <3>2. CASE k \in got[q]
      <4>1. /\ k \in IOMode /\ io[k] = "parked" /\ gp[k] # "G" /\ k \in Mode
            /\ \A r \in Party \ {q} : k \notin got[r]
        BY <1>0, <3>2 DEF Semaphores, ReadyFindsParked
      <4>2. gp'[k] # "G" /\ \A r \in Party \ {q} : k \notin got'[r]
        BY <1>0, <2>1, <4>1 DEF Takes
      <4>. QED BY <2>1, <4>1, <4>2 DEF Takes
    <3>3. CASE k \notin got[q]
      <4>1. q = p /\ k = m /\ gp[m] = "G"
        BY <2>1, <3>1, <3>3 DEF Takes
      <4>2. m \in IOMode /\ io[m] = "parked" /\ \A r \in Party : m \notin got[r]
        BY <1>0, <2>1, <4>1 DEF Semaphores, ReadyFindsParked, Takes
      <4>. QED BY <2>1, <4>1, <4>2 DEF Takes
    <3>. QED BY <3>2, <3>3
  <2>3. \A k \in Mode :
          /\ gp'[k] = "wait" => k \in IOMode /\ io'[k] \in {"recheck", "commit", "xchg"}
          /\ gp'[k] = "G" => k \in IOMode /\ io'[k] = "parked"
    BY <1>0, <2>1 DEF Semaphores, Takes
  <2>. QED BY <2>2, <2>3 DEF Semaphores
<1>12. ASSUME NEW p \in Party, Goready(p) PROVE Semaphores'
  <2>1. PICK m \in got[p] : Readies(p, m)
    BY <1>0, <1>12, Readied
  <2>2. /\ m \in IOMode /\ io[m] = "parked" /\ gp[m] # "G"
        /\ \A q \in Party : m \notin got'[q]
    BY <1>0, <2>1 DEF Semaphores, ReadyFindsParked, Readies
  <2>3. \A k \in IOMode : io'[k] = IF k = m THEN "xchg" ELSE io[k]
    BY <1>0, <2>1 DEF Readies
  <2>4. ReadyFindsParked'
    BY <1>0, <2>1, <2>2, <2>3 DEF Semaphores, ReadyFindsParked, Readies
  <2>. QED BY <1>0, <2>1, <2>2, <2>3, <2>4 DEF Semaphores, Readies
<1>. QED
  BY <1>3, <1>4, <1>5, <1>6, <1>8, <1>9, <1>10, <1>11, <1>12, Steps

\* Close runs once for each descriptor, and a pollDesc that is reused is not in use.
LEMMA NextLife ==
  ASSUME IInv, [Next]_vars
  PROVE  Life'
<1>. USE DEF fd, pd, kernel, party
<1>0. /\ TypeOK /\ Parties /\ Semaphores /\ Life /\ IOMode \subseteq Mode
      /\ seq \in Nat /\ MaxSeq \in Nat \ {0, 1}
      /\ at \in [Party -> {"idle", "lock", "expire", "unblock", "ready"}]
      /\ open \in BOOLEAN /\ closed \in BOOLEAN /\ closing \in BOOLEAN
      /\ Party = {"set", "close", "timer"} \cup Pollers
      /\ Pollers \cap {"set", "close", "timer"} = {}
      /\ DOMAIN arg = {"set", "timer"}
  BY NetpollAssumption, PollersAssumption DEF IInv, TypeOK, Party
<1>1. CASE UNCHANGED <<open, closed, closing, seq, at, io, arg>>
  BY <1>0, <1>1 DEF Life, InUse
\* While the descriptor is open only seq, and who has called what, change.
<1>2. ASSUME open, UNCHANGED <<open, closed, closing, seq, arg>>, at'["close"] = at["close"],
             at'["set"] = "lock" => at["set"] = "lock"
      PROVE  Life'
  BY <1>0, <1>2 DEF Life
<1>3. CASE UNCHANGED vars \/ Tick \/ \E p \in Pollers : Epollwait(p)
  <2>1. CASE UNCHANGED vars \/ Tick
    BY <1>1, <2>1 DEF vars, Tick
  <2>2. ASSUME NEW p \in Pollers, Epollwait(p) PROVE Life'
    <3>1. /\ UNCHANGED <<open, closed, closing, seq, io, arg>>
          /\ at'["close"] = at["close"] /\ at'["set"] = at["set"]
      BY <1>0, <2>2 DEF Epollwait, Enter
    <3>. QED BY <1>0, <3>1 DEF Life, InUse
  <2>. QED BY <1>3, <2>1, <2>2
<1>4. ASSUME NEW m \in IOMode, Arrive(m) \/ Prepare(m) \/ TryIO(m) \/ Check(m)
      PROVE  Life'
  <2>1. CASE Arrive(m)
    BY <1>1, <2>1 DEF Arrive
  <2>2. CASE Prepare(m) \/ TryIO(m) \/ Check(m)
    <3>1. open /\ UNCHANGED <<open, closed, closing, seq, arg, at>>
      BY <1>0, <2>2 DEF Prepare, TryIO, Check, Life, InUse
    <3>. QED BY <1>2, <3>1
  <2>. QED BY <1>4, <2>1, <2>2
<1>5. ASSUME NEW m \in IOMode, Block(m) \/ Recheck(m) \/ Commit(m) \/ Xchg(m)
      PROVE  Life'
  <2>1. open /\ UNCHANGED <<open, closed, closing, seq, arg, at>>
    BY <1>0, <1>5 DEF Block, Recheck, Commit, Xchg, Life, InUse
  <2>. QED BY <1>2, <2>1
<1>6. ASSUME NEW d \in Deadlines, SetDeadline(d) PROVE Life'
  <2>1. /\ open /\ ~closed /\ seq + 1 < MaxSeq /\ at'["close"] = at["close"]
        /\ arg'["set"].n = Nano(d.t) /\ UNCHANGED <<open, closed, closing, seq>>
    BY <1>0, <1>6 DEF SetDeadline, Enter
  <2>2. Nano(d.t) \in Int64
    BY NanoIn
  <2>. QED BY <1>0, <2>1, <2>2 DEF Life
\* The timer's steps.
<1>7. ASSUME UNCHANGED <<open, closed, closing, seq, io>>, at'["close"] = at["close"],
             at'["set"] = at["set"], arg'["set"] = arg["set"] \/ arg'["set"] = NoArg
      PROVE  Life'
  BY <1>0, <1>7, NetpollAssumption DEF Life, InUse, NoArg, Int64
<1>8. ASSUME NEW m \in Mode, Fire(m) PROVE Life'
  BY <1>0, <1>7, <1>8 DEF Fire, Enter
<1>9. CASE TimerLocked \/ Expire
  BY <1>0, <1>7, <1>9 DEF TimerLocked, Expire, Enter, Drop
<1>10. CASE Close
  BY <1>0, <1>10 DEF Close, Enter, Life
<1>11. CASE CloseLocked
  <2>1. /\ open /\ closed /\ ~closing /\ closing' = TRUE /\ seq' = seq + 1
        /\ at' = [at EXCEPT !["close"] = "unblock"]
        /\ UNCHANGED <<open, closed, arg>>
    BY <1>0, <1>11 DEF CloseLocked, Enter, Life, InUse
  <2>. QED BY <1>0, <2>1 DEF Life
<1>12. CASE SetLocked
  <2>1. /\ open /\ at["set"] = "lock" /\ at'["set"] # "lock" /\ at'["close"] = at["close"]
        /\ UNCHANGED <<open, closed, closing>>
        /\ arg'["set"] = NoArg
        /\ \/ UNCHANGED seq
           \/ seq' = seq + 1 /\ ~closing
    BY <1>0, <1>12 DEF SetLocked, Enter, Life, InUse, Drop
  <2>2. NoArg.n \in Int64
    BY NetpollAssumption DEF NoArg, Int64
  <2>. QED BY <1>0, <2>1, <2>2 DEF Life
<1>13. CASE Destroy
  <2>1. open' = FALSE /\ closed /\ ~InUse /\ UNCHANGED <<closed, closing, seq, io, at, arg>>
    BY <1>13 DEF Destroy
  <2>. QED BY <1>0, <2>1 DEF Life, InUse
<1>14. CASE Open
  <2>1. /\ ~open /\ open' = TRUE /\ closed' = FALSE /\ closing' = FALSE /\ seq + 1 < MaxSeq
        /\ seq' = seq + 1 /\ UNCHANGED <<io, at, arg>>
    BY <1>14 DEF Open
  <2>2. at["set"] = "idle" /\ at["close"] = "idle"
    BY <1>0, <2>1 DEF Life, InUse
  <2>. QED BY <1>0, <2>1, <2>2 DEF Life
<1>15. ASSUME NEW p \in Party, Unblock(p) PROVE Life'
  <2>1. /\ at[p] = "unblock" /\ at'[p] \notin {"lock"}
        /\ \A q \in Party : q # p => at'[q] = at[q]
        /\ arg'["set"] = arg["set"] \/ arg'["set"] = NoArg
        /\ UNCHANGED <<open, closed, closing, seq, io>>
    <3>1. PICK m \in todo[p] : Takes(p, m)
      BY <1>0, <1>15, Unblocked
    <3>2. arg'["set"] = arg["set"] \/ arg'["set"] = NoArg
      BY <1>0, <3>1 DEF Drop, Takes
    <3>. QED BY <3>1, <3>2 DEF Takes
  <2>2. p \in {"timer"} \cup Pollers \/ open
    BY <1>0, <2>1 DEF Life, InUse
  <2>3. CASE p \in {"timer"} \cup Pollers
    BY <1>0, <1>7, <2>1, <2>3
  <2>4. CASE p \in {"set", "close"} /\ open
    <3>1. /\ at["close"] = "lock" <=> at'["close"] = "lock"
          /\ at["close"] = "idle" => at'["close"] = "idle"
          /\ at'["set"] = "lock" => at["set"] = "lock"
      BY <1>0, <2>1
    <3>2. NoArg.n \in Int64
      BY NetpollAssumption DEF NoArg, Int64
    <3>. QED BY <1>0, <2>1, <2>4, <3>1, <3>2 DEF Life, Takes
  <2>. QED BY <1>0, <2>2, <2>3, <2>4
<1>16. ASSUME NEW p \in Party, Goready(p) PROVE Life'
  <2>1. /\ open /\ at[p] = "ready" /\ at'[p] \notin {"lock"}
        /\ \A q \in Party : q # p => at'[q] = at[q]
        /\ UNCHANGED <<open, closed, closing, seq, arg>>
    <3>1. PICK m \in got[p] : Readies(p, m)
      BY <1>0, <1>16, Readied
    <3>2. m \in IOMode /\ io[m] = "parked"
      BY <1>0, <3>1 DEF Semaphores, ReadyFindsParked, Readies
    <3>3. open
      BY <1>0, <3>2 DEF Life, InUse
    <3>. QED BY <1>0, <3>1, <3>3 DEF Readies
  <2>2. /\ at["close"] = "lock" <=> at'["close"] = "lock"
        /\ at["close"] = "idle" => at'["close"] = "idle"
        /\ at'["set"] = "lock" => at["set"] = "lock"
    BY <1>0, <2>1
  <2>. QED BY <1>0, <2>1, <2>2 DEF Life
<1>. QED
  BY <1>3, <1>4, <1>5, <1>6, <1>8, <1>9, <1>10, <1>11, <1>12, <1>13, <1>14, <1>15, <1>16,
     Steps

\* The timers of the last SetDeadline, and none but those, are worth heeding.
LEMMA NextTimers ==
  ASSUME IInv, [Next]_vars
  PROVE  Timers'
<1>. USE DEF fd, pd, kernel, party
<1>0. /\ TypeOK /\ Parties /\ Semaphores /\ Life /\ Timers /\ IOMode \subseteq Mode
      /\ seq \in Nat /\ arg["timer"].n \in Nat /\ now \in Nat /\ MaxTime \in Nat
      /\ \A m \in Mode : deadline[m] \in Int
      /\ DOMAIN arg = {"set", "timer"} /\ "timer" \in Party /\ Mode = {"r", "w"}
      /\ at \in [Party -> {"idle", "lock", "expire", "unblock", "ready"}]
      /\ todo \in [Party -> SUBSET Mode]
      /\ Party = {"set", "close", "timer"} \cup Pollers
      /\ Pollers \cap {"set", "close", "timer"} = {}
  BY NetpollAssumption, PollersAssumption DEF IInv, TypeOK, Party, Mode, Timers
<1>1. NoArg.n = 0 /\ seq >= 1
  BY <1>0 DEF NoArg, Life
<1>2. /\ Current => ~closing
      /\ closing => ~Holds("timer") /\ \A k \in Mode : ~timer[k].queued
  BY <1>0 DEF Timers, Firing, Queued
\* What the timer and the deadlines do not notice.
<1>3. ASSUME UNCHANGED <<closing, seq, deadline, timer>>, arg'["timer"] = arg["timer"],
             at'["timer"] = at["timer"], todo'["timer"] = todo["timer"],
             now' = now \/ now' = now + 1
      PROVE  Timers'
  <2>1. Current' <=> Current
    BY <1>3 DEF Current
  <2>2. \A k \in Mode : Queued(k)' <=> Queued(k)
    BY <1>3 DEF Queued
  <2>3. \A m \in Mode : deadline[m] <= now => deadline[m] <= now'
    BY <1>0, <1>3
  <2>4. Firing => Firing'
    <3>1. arg["timer"].f \subseteq Mode
      BY <1>0 DEF TypeOK
    <3>. QED BY <1>3, <2>3, <3>1 DEF Firing, Holds
  <2>. QED BY <1>0, <1>3, <2>1, <2>2, <2>4 DEF Timers, Holds
\* The timer on its way, if any, is stale.
<1>4. ASSUME at'["timer"] \notin {"expire", "unblock"},
             arg'["timer"].n \in 0..seq', arg'["timer"].n # seq',
             at'["timer"] \in {"idle", "ready"} => arg'["timer"] = NoArg,
             at'["timer"] = "lock" => arg'["timer"].f # {},
             \A k \in Mode : timer'[k].queued => Queued(k)',
             timer'["r"].queued /\ timer'["w"].queued => timer'["r"].f \cap timer'["w"].f = {}
      PROVE  Timers'
  BY <1>4 DEF Timers, Holds, Current
<1>5. CASE UNCHANGED vars \/ Tick \/ Close \/ \E p \in Pollers : Epollwait(p)
  BY <1>0, <1>3, <1>5 DEF vars, Tick, Close, Epollwait, Enter
<1>6. ASSUME NEW m \in IOMode, Arrive(m) \/ Prepare(m) \/ TryIO(m) \/ Check(m)
      PROVE  Timers'
  BY <1>3, <1>6 DEF Arrive, Prepare, TryIO, Check
<1>7. ASSUME NEW m \in IOMode, Block(m) \/ Recheck(m) \/ Commit(m) \/ Xchg(m)
      PROVE  Timers'
  BY <1>3, <1>7 DEF Block, Recheck, Commit, Xchg
<1>8. ASSUME NEW d \in Deadlines, SetDeadline(d) PROVE Timers'
  BY <1>0, <1>3, <1>8 DEF SetDeadline, Enter
\* What becomes stale does so under pd.lock, which the timer does not have.
<1>9. ASSUME ~Holds("timer"), seq' \in {seq, seq + 1}, UNCHANGED <<arg["timer"], at["timer"]>>,
             seq' = seq => arg["timer"].n # seq,
             \A k \in Mode : timer'[k].queued => Queued(k)',
             timer'["r"].queued /\ timer'["w"].queued => timer'["r"].f \cap timer'["w"].f = {}
      PROVE  Timers'
  <2>1. arg'["timer"].n \in 0..seq' /\ arg'["timer"].n # seq'
    BY <1>0, <1>9 DEF Timers
  <2>. QED BY <1>0, <1>4, <1>9, <2>1 DEF Timers, Holds
<1>10. CASE Destroy \/ Open
  <2>1. closing
    BY <1>0, <1>10 DEF Destroy, Open, Life, InUse
  <2>2. seq' \in {seq, seq + 1} /\ UNCHANGED <<arg, at, timer>>
    BY <1>10 DEF Destroy, Open
  <2>. QED BY <1>0, <1>2, <1>9, <2>1, <2>2 DEF Current
<1>11. CASE CloseLocked
  <2>1. /\ ~Holds("timer") /\ seq' = seq + 1 /\ UNCHANGED <<arg, at["timer"]>>
        /\ timer' = Each(NoTimer)
    BY <1>0, <1>11 DEF CloseLocked, Free, Enter, Holds
  <2>2. \A k \in Mode : ~timer'[k].queued
    BY <2>1 DEF Each, NoTimer
  <2>. QED BY <1>0, <1>9, <2>1, <2>2
<1>12. CASE SetLocked
  <2>1. ~Holds("timer") /\ UNCHANGED <<arg["timer"], at["timer"]>>
    BY <1>0, <1>12 DEF SetLocked, Free, Enter, Holds, Drop
  <2>2. CASE closing
    <3>1. UNCHANGED <<closing, seq, deadline, timer, now, todo>>
      BY <1>12, <2>2 DEF SetLocked
    <3>. QED BY <1>3, <2>1, <3>1
  <2>3. CASE ~closing
    <3>1. /\ at["set"] = "lock" /\ seq' = seq + 1 /\ closing' = FALSE
          /\ deadline' = NewDeadline /\ timer' = NewTimer(NewDeadline, seq')
      BY <1>0, <1>12, <2>3 DEF SetLocked, TypeOK
    <3>2. PICK dl \in [Mode -> -1..MaxTime] : dl = NewDeadline
      BY <1>0, NewDeadlines DEF Life
    <3>3. PICK s \in 0..MaxSeq : s = seq'
      BY <1>0, <2>3, <3>1, NetpollAssumption DEF Life
    <3>4. timer' = NewTimer(dl, s) /\ deadline' = dl
      BY <3>1, <3>2, <3>3
    <3>5. /\ \A k \in Mode : timer'[k].queued => Queued(k)'
          /\ timer'["r"].queued /\ timer'["w"].queued => timer'["r"].f \cap timer'["w"].f = {}
      BY <3>1, <3>3, <3>4, NewTimers DEF Queued
    <3>. QED BY <1>9, <2>1, <3>1, <3>5
  <2>. QED BY <2>2, <2>3
<1>13. ASSUME NEW m \in Mode, Fire(m) PROVE Timers'
  <2>1. /\ at["timer"] = "idle" /\ timer[m].queued /\ timer[m].when <= now
        /\ timer' = [timer EXCEPT ![m] = [NoTimer EXCEPT !.f = timer[m].f]]
        /\ arg' = [arg EXCEPT !["timer"] = [f |-> timer[m].f, n |-> timer[m].seq]]
        /\ at' = [at EXCEPT !["timer"] = "lock"]
        /\ UNCHANGED <<closing, seq, deadline, now, todo>>
    BY <1>13 DEF Fire, Enter
  <2>2. Queued(m)
    BY <1>0, <2>1 DEF Timers
  <2>3. /\ arg'["timer"].f = timer[m].f /\ arg'["timer"].n = seq /\ at'["timer"] = "lock"
    BY <1>0, <2>1, <2>2 DEF Queued
  <2>4. /\ \A k \in Mode : k # m => timer'[k] = timer[k]
        /\ timer'[m].f = timer[m].f /\ ~timer'[m].queued
    BY <1>0, <2>1 DEF TypeOK, NoTimer
  <2>5. \A k \in Mode : timer'[k].queued => Queued(k)' /\ timer'[k].f \cap timer[m].f = {}
    BY <1>0, <2>1, <2>4 DEF Timers, Queued
  <2>6. Firing'
    <3>1. ASSUME NEW j \in timer[m].f
          PROVE  /\ deadline[j] > 0 /\ deadline[j] <= now
                 /\ timer'[j].f # {} \/ (j = "w" /\ "r" \in timer[m].f)
      BY <1>0, <2>1, <2>2, <2>4 DEF Queued
    <3>. QED BY <1>0, <2>1, <2>2, <2>3, <2>5, <3>1 DEF Firing, Queued, Holds
  <2>. QED BY <1>0, <2>1, <2>2, <2>3, <2>4, <2>5, <2>6 DEF Timers, Holds, Queued
<1>14. CASE TimerLocked
  <2>1. at["timer"] = "lock" /\ UNCHANGED <<closing, seq, deadline, timer, now>>
    BY <1>14 DEF TimerLocked
  <2>2. CASE arg["timer"].n # seq
    <3>1. at'["timer"] = "idle" /\ arg'["timer"] = NoArg
      BY <1>0, <1>14, <2>2 DEF TimerLocked, Enter, Drop
    <3>. QED BY <1>0, <1>1, <1>4, <2>1, <3>1 DEF Timers, Queued
  <2>3. CASE arg["timer"].n = seq
    <3>1. at'["timer"] = "expire" /\ todo'["timer"] = arg["timer"].f /\ UNCHANGED arg
      BY <1>0, <1>14, <2>3 DEF TimerLocked, Enter
    <3>2. Firing'
      BY <1>0, <2>1, <2>3, <3>1 DEF Timers, Firing, Current
    <3>. QED BY <1>0, <2>1, <2>3, <3>1, <3>2 DEF Timers, Holds, Queued, Current
  <2>. QED BY <2>2, <2>3
<1>15. CASE Expire
  <2>1. PICK m \in todo["timer"] : m = First(todo["timer"]) /\ m \in Mode
    BY <1>0, <1>15, FirstIn DEF Expire, Parties, Holds
  <2>2. /\ at["timer"] = "expire" /\ at'["timer"] = "unblock"
        /\ deadline' = [deadline EXCEPT ![m] = -1]
        /\ timer' = [timer EXCEPT ![m].f = {}]
        /\ UNCHANGED <<closing, seq, now, todo, arg>>
    BY <1>0, <1>15, <2>1 DEF Expire, Enter
  <2>3. Current /\ Firing /\ m \in arg["timer"].f
    BY <1>0, <2>1, <2>2 DEF Timers, Holds
  <2>4. /\ deadline'[m] = -1
        /\ \A k \in Mode : /\ k # m => deadline'[k] = deadline[k] /\ timer'[k] = timer[k]
                           /\ timer'[k].queued = timer[k].queued
    BY <1>0, <2>2 DEF TypeOK, Timer
  <2>5. ASSUME NEW k \in Mode, timer'[k].queued
        PROVE  k # m /\ timer'[k] = timer[k] /\ Queued(k)' /\ timer[k].f \cap arg["timer"].f = {}
    <3>1. Queued(k) /\ timer[k].f \cap arg["timer"].f = {}
      BY <1>0, <2>3, <2>4, <2>5 DEF Timers, Firing
    <3>2. k # m /\ m \notin timer[k].f
      BY <2>3, <3>1 DEF Queued
    <3>3. timer[k].f \subseteq Mode
      BY <1>0 DEF TypeOK, Timer
    <3>. QED BY <2>2, <2>4, <3>1, <3>2, <3>3 DEF Queued
  <2>6. Firing'
    <3>1. ASSUME NEW j \in arg["timer"].f
          PROVE  /\ deadline'[j] # 0 /\ deadline'[j] <= now
                 /\ timer'[j].f # {} \/ deadline'[j] < 0 \/ (j = "w" /\ "r" \in arg["timer"].f)
                 /\ j \in todo["timer"] => deadline'[j] > 0 \/ j = m
                 /\ j \notin todo["timer"] => deadline'[j] < 0
      <4>1. j \in Mode
        BY <1>0 DEF TypeOK
      <4>. QED BY <1>0, <2>2, <2>3, <2>4, <4>1 DEF Firing, Holds
    <3>. QED BY <2>1, <2>2, <2>3, <2>4, <2>5, <3>1 DEF Firing
  <2>7. timer'["r"].queued /\ timer'["w"].queued => timer'["r"].f \cap timer'["w"].f = {}
    BY <1>0, <2>5 DEF Timers
  <2>. QED BY <1>0, <2>2, <2>3, <2>5, <2>6, <2>7 DEF Timers, Holds, Current
<1>16. ASSUME NEW p \in Party, Unblock(p) PROVE Timers'
  <2>1. PICK m \in todo[p] : Takes(p, m)
    BY <1>0, <1>16, Unblocked
  <2>2. CASE p # "timer"
    BY <1>0, <1>3, <2>1, <2>2 DEF Takes, Drop
  <2>3. CASE p = "timer" /\ todo'[p] = {}
    <3>1. at'["timer"] \in {"idle", "ready"} /\ arg'["timer"] = NoArg
      BY <1>0, <2>1, <2>3 DEF Takes, Drop
    <3>. QED BY <1>0, <1>1, <1>4, <2>1, <3>1 DEF Timers, Queued, Takes
  <2>4. CASE p = "timer" /\ todo'[p] # {}
    <3>1. /\ at["timer"] = "unblock" /\ at'["timer"] = "expire" /\ m = First(todo["timer"])
          /\ todo'["timer"] = todo["timer"] \ {m} /\ UNCHANGED <<pd, now, arg>>
      BY <2>1, <2>4 DEF Takes
    <3>2. Current /\ Firing
      BY <1>0, <3>1 DEF Timers, Holds
    <3>3. Firing'
      BY <1>0, <3>1, <3>2 DEF Firing, Holds
    <3>. QED BY <1>0, <3>1, <3>2, <3>3 DEF Timers, Holds, Queued, Current
  <2>. QED BY <2>2, <2>3, <2>4
<1>17. ASSUME NEW p \in Party, Goready(p) PROVE Timers'
  <2>1. PICK m \in got[p] : Readies(p, m)
    BY <1>0, <1>17, Readied
  <2>2. CASE p # "timer"
    BY <1>0, <1>3, <2>1, <2>2 DEF Readies
  <2>3. CASE p = "timer"
    <3>1. /\ at["timer"] = "ready" /\ at'["timer"] \in {"idle", "ready"}
          /\ UNCHANGED <<pd, arg>>
      BY <2>1, <2>3 DEF Readies
    <3>. QED BY <1>0, <1>1, <1>4, <3>1 DEF Timers, Queued
  <2>. QED BY <2>2, <2>3
<1>. QED
  BY <1>5, <1>6, <1>7, <1>8, <1>10, <1>11, <1>12, <1>13, <1>14, <1>15, <1>16, <1>17, Steps

\* A timer leaves the heap to fire, and fires for all its modes before it is done.
LEMMA NextWatched ==
  ASSUME IInv, [Next]_vars
  PROVE  Watched'
<1>. USE DEF fd, pd, kernel, party
<1>0. /\ TypeOK /\ Parties /\ Semaphores /\ Life /\ Timers /\ Watched /\ IOMode \subseteq Mode
      /\ seq \in Nat /\ MaxTime \in Nat /\ \A m \in Mode : deadline[m] \in Int
      /\ DOMAIN arg = {"set", "timer"} /\ Mode = {"r", "w"}
      /\ todo \in [Party -> SUBSET Mode]
      /\ Party = {"set", "close", "timer"} \cup Pollers
      /\ Pollers \cap {"set", "close", "timer"} = {}
  BY NetpollAssumption, PollersAssumption DEF IInv, TypeOK, Party, Mode
<1>1. CASE UNCHANGED <<closing, seq, deadline, timer, arg["timer"]>>
  BY <1>0, <1>1 DEF Watched, Current
<1>2. CASE UNCHANGED vars \/ Tick \/ Close \/ \E p \in Pollers : Epollwait(p)
  BY <1>1, <1>2 DEF vars, Tick, Close, Epollwait
<1>3. ASSUME NEW m \in IOMode, Arrive(m) \/ Prepare(m) \/ TryIO(m) \/ Check(m)
      PROVE  Watched'
  BY <1>1, <1>3 DEF Arrive, Prepare, TryIO, Check
<1>4. ASSUME NEW m \in IOMode, Block(m) \/ Recheck(m) \/ Commit(m) \/ Xchg(m)
      PROVE  Watched'
  BY <1>1, <1>4 DEF Block, Recheck, Commit, Xchg
<1>5. ASSUME NEW d \in Deadlines, SetDeadline(d) PROVE Watched'
  BY <1>0, <1>1, <1>5 DEF SetDeadline
<1>6. CASE Destroy \/ Open
  BY <1>6 DEF Destroy, Open, Each, Watched
<1>7. CASE CloseLocked
  BY <1>7 DEF CloseLocked, Watched
<1>8. CASE SetLocked
  <2>1. CASE closing
    BY <1>0, <1>1, <1>8, <2>1 DEF SetLocked, Drop
  <2>2. CASE ~closing
    <3>1. /\ seq' = seq + 1 /\ deadline' = NewDeadline /\ timer' = NewTimer(NewDeadline, seq')
      BY <1>8, <2>2 DEF SetLocked
    <3>2. PICK dl \in [Mode -> -1..MaxTime] : dl = NewDeadline
      BY <1>0, NewDeadlines DEF Life
    <3>3. PICK s \in 0..MaxSeq : s = seq'
      BY <1>0, <2>2, <3>1, NetpollAssumption DEF Life
    <3>4. timer' = NewTimer(dl, s) /\ deadline' = dl
      BY <3>1, <3>2, <3>3
    <3>. QED BY <3>3, <3>4, NewTimers DEF Watched
  <2>. QED BY <2>1, <2>2
<1>9. ASSUME NEW k \in Mode, Fire(k) PROVE Watched'
  <2>1. /\ timer[k].queued /\ at["timer"] = "idle" /\ arg["timer"].n = 0
        /\ timer' = [timer EXCEPT ![k] = [NoTimer EXCEPT !.f = timer[k].f]]
        /\ arg'["timer"].f = timer[k].f /\ arg'["timer"].n = timer[k].seq
        /\ UNCHANGED <<closing, seq, deadline>>
    BY <1>0, <1>9 DEF Fire, Timers, NoArg
  <2>2. ~Current /\ Queued(k)
    BY <1>0, <2>1 DEF Timers, Current, Life
  <2>3. \A j \in Mode : j # k => timer'[j] = timer[j]
    BY <2>1
  <2>. QED BY <1>0, <2>1, <2>2, <2>3 DEF Watched, Current, Queued
<1>10. CASE TimerLocked
  <2>1. UNCHANGED <<closing, seq, deadline, timer>> /\ (~Current \/ UNCHANGED arg)
    BY <1>10 DEF TimerLocked, Current
  <2>. QED BY <1>0, <2>1 DEF Watched, Current
<1>11. CASE Expire
  <2>1. PICK m \in todo["timer"] : m = First(todo["timer"]) /\ m \in Mode
    BY <1>0, <1>11, FirstIn DEF Expire, Parties, Holds
  <2>2. /\ at["timer"] = "expire"
        /\ deadline' = [deadline EXCEPT ![m] = -1]
        /\ timer' = [timer EXCEPT ![m].f = {}]
        /\ UNCHANGED <<closing, seq, arg>>
    BY <1>11, <2>1 DEF Expire
  <2>3. /\ m \in arg["timer"].f
        /\ \A k \in Mode : timer[k].queued => Queued(k) /\ timer[k].f \cap arg["timer"].f = {}
    BY <1>0, <2>1, <2>2 DEF Timers, Holds, Firing
  <2>4. \A k \in Mode : timer[k].queued => k # m
    BY <2>3 DEF Queued
  <2>5. \A k \in Mode : k # m => deadline'[k] = deadline[k] /\ timer'[k] = timer[k]
    BY <2>2
  <2>6. deadline'[m] = -1
    BY <1>0, <2>2 DEF TypeOK
  <2>7. Current' <=> Current
    BY <2>2 DEF Current
  <2>. QED BY <1>0, <2>2, <2>4, <2>5, <2>6, <2>7 DEF Watched
<1>12. ASSUME NEW p \in Party, Unblock(p) PROVE Watched'
  <2>1. PICK m \in todo[p] : Takes(p, m)
    BY <1>0, <1>12, Unblocked
  <2>2. CASE p # "timer" \/ UNCHANGED arg
    BY <1>0, <1>1, <2>1, <2>2 DEF Takes, Drop
  <2>3. CASE p = "timer" /\ todo'[p] = {}
    <3>1. at["timer"] = "unblock" /\ m = First(todo["timer"]) /\ todo["timer"] = {m}
      BY <2>1, <2>3 DEF Takes
    <3>2. \A j \in arg["timer"].f : deadline[j] < 0
      BY <1>0, <3>1 DEF Timers, Firing, Holds
    <3>3. UNCHANGED <<closing, seq, deadline, timer>>
      BY <2>1 DEF Takes
    <3>. QED BY <1>0, <3>2, <3>3 DEF Watched
  <2>. QED BY <2>1, <2>2, <2>3 DEF Takes
<1>13. ASSUME NEW p \in Party, Goready(p) PROVE Watched'
  BY <1>1, <1>13 DEF Goready
<1>. QED
  BY <1>2, <1>3, <1>4, <1>5, <1>6, <1>7, <1>8, <1>9, <1>10, <1>11, <1>12, <1>13, Steps

\* A deadline is only declared over by the timer that was set for it.
LEMMA NextTimeoutsHonest ==
  ASSUME IInv, [Next]_vars
  PROVE  TimeoutsHonest'
<1>. USE DEF fd, pd, kernel, party
<1>0. /\ TypeOK /\ Parties /\ Life /\ Timers /\ TimeoutsHonest
      /\ now \in Nat \ {0} /\ arg["set"].n \in Int
      /\ \A m \in Mode : deadline[m] \in Int /\ due[m] \in Int
      /\ todo \in [Party -> SUBSET Mode] /\ "timer" \in Party
  BY NetpollAssumption, PollersAssumption DEF IInv, TypeOK, Party, Life, Int64
<1>1. CASE UNCHANGED <<deadline, due, now>>
  BY <1>0, <1>1 DEF TimeoutsHonest
<1>2. CASE UNCHANGED vars \/ Close \/ TimerLocked \/ CloseLocked \/ \E p \in Pollers : Epollwait(p)
  BY <1>1, <1>2 DEF vars, Close, Epollwait, TimerLocked, CloseLocked
<1>3. CASE Tick
  BY <1>0, <1>3 DEF Tick, TimeoutsHonest
<1>4. ASSUME NEW m \in IOMode, Arrive(m) \/ Prepare(m) \/ TryIO(m) \/ Check(m)
      PROVE  TimeoutsHonest'
  BY <1>1, <1>4 DEF Arrive, Prepare, TryIO, Check
<1>5. ASSUME NEW m \in IOMode, Block(m) \/ Recheck(m) \/ Commit(m) \/ Xchg(m)
      PROVE  TimeoutsHonest'
  BY <1>1, <1>5 DEF Block, Recheck, Commit, Xchg
<1>6. ASSUME NEW d \in Deadlines, SetDeadline(d) PROVE TimeoutsHonest'
  BY <1>1, <1>6 DEF SetDeadline
<1>7. ASSUME NEW m \in Mode, Fire(m) PROVE TimeoutsHonest'
  BY <1>1, <1>7 DEF Fire
<1>8. CASE Destroy \/ Open
  BY <1>8 DEF Destroy, Open, Each, TimeoutsHonest
<1>9. CASE SetLocked
  <2>1. CASE closing
    BY <1>1, <1>9, <2>1 DEF SetLocked
  <2>2. CASE ~closing
    <3>1. /\ deadline' = NewDeadline /\ now' = now
          /\ due' = [m \in Mode |-> IF m \in arg["set"].f THEN arg["set"].n ELSE due[m]]
      BY <1>9, <2>2 DEF SetLocked
    <3>. QED BY <1>0, <3>1 DEF TimeoutsHonest, NewDeadline
  <2>. QED BY <2>1, <2>2
<1>10. CASE Expire
  <2>1. PICK m \in todo["timer"] : m = First(todo["timer"]) /\ m \in Mode
    BY <1>0, <1>10, FirstIn DEF Expire, Parties, Holds
  <2>2. /\ at["timer"] = "expire" /\ deadline' = [deadline EXCEPT ![m] = -1]
        /\ UNCHANGED <<due, now>>
    BY <1>10, <2>1 DEF Expire
  <2>3. deadline[m] > 0 /\ deadline[m] <= now
    BY <1>0, <2>1, <2>2 DEF Timers, Holds, Firing
  <2>4. due[m] = deadline[m]
    BY <1>0, <2>1, <2>3 DEF TimeoutsHonest
  <2>. QED BY <1>0, <2>1, <2>2, <2>3, <2>4 DEF TimeoutsHonest, TypeOK
<1>11. ASSUME NEW p \in Party, Unblock(p) \/ Goready(p) PROVE TimeoutsHonest'
  BY <1>1, <1>11 DEF Unblock, Goready
<1>. QED
  BY <1>2, <1>3, <1>4, <1>5, <1>6, <1>7, <1>8, <1>9, <1>10, <1>11, Steps

\* Data that came after the read that failed makes the semaphore ready, at last.
LEMMA NextDataSeen ==
  ASSUME IInv, [Next]_vars
  PROVE  DataSeen'
<1>. USE DEF fd, pd, kernel, party
<1>0. /\ TypeOK /\ Parties /\ Semaphores /\ Life /\ DataSeen /\ IOMode \subseteq Mode
      /\ todo \in [Party -> SUBSET Mode] /\ Pollers \subseteq Party
      /\ gp \in [Mode -> {"nil", "ready", "wait", "G"}]
      /\ io \in [IOMode -> {"idle", "io", "check", "block", "recheck", "commit",
                            "parked", "xchg"}]
      /\ data \in [Mode -> BOOLEAN] /\ edge \in [Mode -> BOOLEAN]
  BY NetpollAssumption, PollersAssumption DEF IInv, TypeOK, Party
<1>1. ASSUME UNCHANGED <<data, edge, io, gp>>, \A p \in Pollers : todo'[p] = todo[p]
      PROVE  DataSeen'
  BY <1>1, <1>0 DEF DataSeen
\* The goroutine of m goes to l and leaves x in its semaphore.
<1>2. ASSUME NEW m \in IOMode, NEW l, NEW x, io' = [io EXCEPT ![m] = l],
             gp' = [gp EXCEPT ![m] = x], UNCHANGED <<edge, todo>>,
             \A k \in Mode : k # m => data'[k] = data[k],
             \/ l \in {"idle", "io"}
             \/ ~data'[m]
             \/ data'[m] /\ data[m] /\ io[m] \notin {"idle", "io"} /\ (x = gp[m] \/ gp[m] # "ready")
      PROVE  DataSeen'
  <2>1. /\ \A k \in IOMode : io'[k] = IF k = m THEN l ELSE io[k]
        /\ \A k \in Mode : gp'[k] = IF k = m THEN x ELSE gp[k]
    BY <1>0, <1>2
  <2>. QED BY <1>0, <1>2, <2>1 DEF DataSeen
<1>3. CASE UNCHANGED vars \/ Tick \/ Close
  BY <1>1, <1>3 DEF vars, Tick, Close
<1>4. CASE SetLocked \/ TimerLocked \/ CloseLocked \/ Expire
  <2>1. Pollers \cap {"set", "close", "timer"} = {}
    BY PollersAssumption
  <2>2. \A p \in Pollers : todo'[p] = todo[p]
    <3>1. \E q \in {"set", "close", "timer"} : \E S : \/ todo' = todo
                                                    \/ todo' = [todo EXCEPT ![q] = S]
      BY <1>4 DEF SetLocked, TimerLocked, CloseLocked, Expire
    <3>. QED BY <1>0, <2>1, <3>1
  <2>. QED BY <1>1, <1>4, <2>2 DEF SetLocked, TimerLocked, CloseLocked, Expire
<1>5. ASSUME NEW d \in Deadlines, SetDeadline(d) PROVE DataSeen'
  BY <1>1, <1>5 DEF SetDeadline
<1>6. ASSUME NEW m \in Mode, Fire(m) PROVE DataSeen'
  BY <1>1, <1>6 DEF Fire
<1>7. ASSUME NEW m \in IOMode PROVE gp = [gp EXCEPT ![m] = gp[m]]
  BY <1>0
<1>8. ASSUME NEW m \in IOMode, Arrive(m) \/ Prepare(m) \/ TryIO(m) \/ Check(m)
      PROVE  DataSeen'
  <2>1. CASE Arrive(m)
    BY <1>0, <2>1 DEF Arrive, DataSeen
  <2>2. CASE Prepare(m)
    BY <1>2, <2>2 DEF Prepare, Goto
  <2>3. CASE TryIO(m)
    <3>1. PICK l \in {"idle", "check"} :
            /\ io' = [io EXCEPT ![m] = l] /\ UNCHANGED <<gp, edge, todo>>
            /\ \A k \in Mode : k # m => data'[k] = data[k]
            /\ l = "idle" \/ ~data'[m]
      BY <1>0, <2>3 DEF TryIO, Goto
    <3>. QED BY <1>2, <1>7, <3>1
  <2>4. CASE Check(m)
    <3>1. PICK l \in {"idle", "block"} :
            io[m] = "check" /\ io' = [io EXCEPT ![m] = l] /\ UNCHANGED <<gp, data, edge, todo>>
      BY <2>4 DEF Check, Goto
    <3>2. data[m] \in BOOLEAN
      BY <1>0
    <3>. QED BY <1>2, <1>7, <3>1, <3>2
  <2>. QED BY <1>8, <2>1, <2>2, <2>3, <2>4
<1>9. ASSUME NEW m \in IOMode, Block(m) \/ Recheck(m) \/ Commit(m) \/ Xchg(m)
      PROVE  DataSeen'
  <2>1. PICK l \in {"io", "recheck", "xchg", "commit", "parked", "check"},
             x \in {"nil", "ready", "wait", "G"} :
          /\ io' = [io EXCEPT ![m] = l] /\ gp' = [gp EXCEPT ![m] = x]
          /\ UNCHANGED <<data, edge, todo>>
          /\ l = "io" \/ (io[m] \notin {"idle", "io"} /\ (x = gp[m] \/ gp[m] # "ready"))
    <3>1. CASE Block(m)
      BY <3>1 DEF Block, Goto
    <3>2. CASE Recheck(m)
      <4>1. gp[m] \in {"nil", "ready", "wait", "G"}
        BY <1>0
      <4>. QED BY <1>7, <3>2, <4>1 DEF Recheck, Goto
    <3>3. CASE Commit(m)
      <4>1. gp[m] \in {"nil", "ready", "wait", "G"}
        BY <1>0
      <4>. QED BY <1>7, <3>3, <4>1 DEF Commit, Goto
    <3>4. CASE Xchg(m)
      BY <3>4 DEF Xchg, Goto
    <3>. QED BY <1>9, <3>1, <3>2, <3>3, <3>4
  <2>2. data[m] \in BOOLEAN
    BY <1>0
  <2>. QED BY <1>2, <2>1, <2>2
<1>10. CASE Destroy
  BY <1>0, <1>10 DEF Destroy, Each, DataSeen
<1>11. CASE Open
  BY <1>0, <1>11 DEF Open, Life, InUse, DataSeen
<1>12. ASSUME NEW p \in Pollers, Epollwait(p) PROVE DataSeen'
  <2>1. PICK S \in SUBSET Mode : /\ \A m \in Mode : edge[m] /\ data[m] => m \in S
                                 /\ todo' = [todo EXCEPT ![p] = S]
    BY <1>12 DEF Epollwait
  <2>2. /\ todo'[p] = S /\ todo[p] = {} /\ UNCHANGED <<data, io, gp>>
        /\ \A q \in Pollers : q # p => todo'[q] = todo[q]
    BY <1>0, <1>12, <2>1 DEF Epollwait, Parties, Holds
  <2>. QED BY <1>0, <2>1, <2>2 DEF DataSeen
<1>13. ASSUME NEW p \in Party, Unblock(p) PROVE DataSeen'
  <2>1. PICK m \in todo[p] : Takes(p, m)
    BY <1>0, <1>13, Unblocked
  <2>2. /\ UNCHANGED <<data, edge, io>>
        /\ \A k \in Mode : gp[k] = "ready" => gp'[k] = "ready"
        /\ \A q \in Pollers : \A k \in todo[q] : k \in todo'[q] \/ gp'[k] = "ready"
    BY <1>0, <2>1 DEF Takes
  <2>. QED BY <1>0, <2>2 DEF DataSeen
<1>14. ASSUME NEW p \in Party, Goready(p) PROVE DataSeen'
  <2>1. PICK m \in got[p] : Readies(p, m)
    BY <1>0, <1>14, Readied
  <2>2. /\ m \in IOMode /\ io[m] = "parked" /\ io' = [io EXCEPT ![m] = "xchg"]
        /\ UNCHANGED <<gp, data, edge, todo>>
    BY <1>0, <2>1 DEF Readies, Semaphores, ReadyFindsParked
  <2>3. data[m] \in BOOLEAN
    BY <1>0, <2>2
  <2>. QED BY <1>2, <1>7, <2>2, <2>3
<1>. QED
  BY <1>3, <1>4, <1>5, <1>6, <1>8, <1>9, <1>10, <1>11, <1>12, <1>13, <1>14, Steps

\* Whoever sets closing, or ends a deadline, has the goroutine in mind.
LEMMA NextErrorSeen ==
  ASSUME IInv, [Next]_vars
  PROVE  ErrorSeen'
<1>. USE DEF fd, pd, kernel, party
<1>. DEFINE Waits(m) == gp[m] = "G" \/ (gp[m] = "wait" /\ io[m] = "commit")
            Known(m) == \E p \in Party \ Pollers : m \in todo[p]
<1>0. /\ TypeOK /\ Parties /\ Semaphores /\ Life /\ ErrorSeen /\ IOMode \subseteq Mode
      /\ todo \in [Party -> SUBSET Mode] /\ Party = {"set", "close", "timer"} \cup Pollers
      /\ Pollers \cap {"set", "close", "timer"} = {}
      /\ gp \in [Mode -> {"nil", "ready", "wait", "G"}]
      /\ io \in [IOMode -> {"idle", "io", "check", "block", "recheck", "commit",
                            "parked", "xchg"}]
  BY NetpollAssumption, PollersAssumption DEF IInv, TypeOK, Party
\* No new error, no new waiter, and nobody forgets whom to unblock.
<1>1. ASSUME \A m \in IOMode : CheckErr(m)' /\ Waits(m)' => CheckErr(m) /\ Waits(m),
             \A m \in IOMode, p \in Party \ Pollers : m \in todo[p] => m \in todo'[p]
      PROVE  ErrorSeen'
  BY <1>0, <1>1 DEF ErrorSeen
<1>2. CASE UNCHANGED <<closing, deadline, io, gp, todo>>
  BY <1>0, <1>2 DEF ErrorSeen, CheckErr
\* The goroutine of m goes to l, and leaves x in its semaphore.
<1>3. ASSUME NEW m \in IOMode, NEW l, NEW x, io' = [io EXCEPT ![m] = l],
             gp' = [gp EXCEPT ![m] = x], UNCHANGED <<closing, deadline, todo>>,
             CheckErr(m) /\ (x = "G" \/ (x = "wait" /\ l = "commit")) => Waits(m)
      PROVE  ErrorSeen'
  <2>1. /\ \A k \in IOMode : io'[k] = IF k = m THEN l ELSE io[k]
        /\ \A k \in Mode : gp'[k] = IF k = m THEN x ELSE gp[k]
    BY <1>0, <1>3
  <2>2. \A k \in IOMode : CheckErr(k)' <=> CheckErr(k)
    BY <1>3 DEF CheckErr
  <2>. QED BY <1>0, <1>1, <1>3, <2>1, <2>2
<1>4. CASE UNCHANGED vars \/ Tick \/ Close
  BY <1>2, <1>4 DEF vars, Tick, Close
<1>5. ASSUME NEW d \in Deadlines, SetDeadline(d) PROVE ErrorSeen'
  BY <1>2, <1>5 DEF SetDeadline
<1>6. ASSUME NEW m \in Mode, Fire(m) PROVE ErrorSeen'
  BY <1>2, <1>6 DEF Fire
<1>7. ASSUME NEW m \in IOMode PROVE gp = [gp EXCEPT ![m] = gp[m]]
  BY <1>0
<1>8. ASSUME NEW m \in IOMode, Arrive(m) \/ Prepare(m) \/ TryIO(m) \/ Check(m)
      PROVE  ErrorSeen'
  <2>1. CASE Arrive(m)
    BY <1>2, <2>1 DEF Arrive
  <2>2. CASE Prepare(m)
    BY <1>3, <2>2 DEF Prepare, Goto
  <2>3. CASE TryIO(m) \/ Check(m)
    <3>1. PICK l \in {"idle", "check", "block"} :
            io' = [io EXCEPT ![m] = l] /\ UNCHANGED <<closing, deadline, gp, todo>>
      BY <2>3 DEF TryIO, Check, Goto
    <3>. QED BY <1>3, <1>7, <3>1
  <2>. QED BY <1>8, <2>1, <2>2, <2>3
<1>9. ASSUME NEW m \in IOMode, Block(m) \/ Recheck(m) \/ Commit(m) \/ Xchg(m)
      PROVE  ErrorSeen'
  <2>1. CASE Block(m)
    BY <1>3, <2>1 DEF Block, Goto
  <2>2. CASE Recheck(m)
    <3>1. PICK l \in {"xchg", "commit"} :
            /\ io' = [io EXCEPT ![m] = l] /\ UNCHANGED <<closing, deadline, gp, todo>>
            /\ CheckErr(m) => l = "xchg"
      BY <2>2 DEF Recheck, Goto
    <3>. QED BY <1>3, <1>7, <3>1
  <2>3. CASE Commit(m)
    <3>1. CASE gp[m] = "wait"
      BY <1>3, <2>3, <3>1 DEF Commit, Goto
    <3>2. CASE gp[m] # "wait"
      <4>1. io' = [io EXCEPT ![m] = "xchg"] /\ UNCHANGED <<closing, deadline, gp, todo>>
        BY <2>3, <3>2 DEF Commit, Goto
      <4>. QED BY <1>3, <1>7, <4>1
    <3>. QED BY <3>1, <3>2
  <2>4. CASE Xchg(m)
    BY <1>3, <2>4 DEF Xchg, Goto
  <2>. QED BY <1>9, <2>1, <2>2, <2>3, <2>4
<1>10. CASE Destroy
  BY <1>0, <1>10 DEF Destroy, InUse, Semaphores, ErrorSeen
<1>11. CASE Open
  BY <1>0, <1>11 DEF Open, Each, ErrorSeen
<1>12. ASSUME NEW p \in Pollers, Epollwait(p) PROVE ErrorSeen'
  <2>1. /\ \A q \in Party \ Pollers : todo'[q] = todo[q]
        /\ UNCHANGED <<closing, deadline, io, gp>>
    BY <1>0, <1>12 DEF Epollwait
  <2>. QED BY <1>1, <2>1 DEF CheckErr
\* The error and the unblocking that it takes come in one step.
<1>13. CASE SetLocked
  <2>1. CASE closing
    BY <1>2, <1>13, <2>1 DEF SetLocked
  <2>2. CASE ~closing
    <3>1. /\ closing' = FALSE /\ deadline' = NewDeadline
          /\ todo'["set"] = {m \in Mode : NewDeadline[m] < 0}
      BY <1>0, <1>13, <2>2 DEF SetLocked, TypeOK
    <3>. QED BY <1>0, <3>1 DEF ErrorSeen, CheckErr
  <2>. QED BY <2>1, <2>2
<1>14. CASE CloseLocked
  <2>1. todo'["close"] = Mode
    BY <1>0, <1>14 DEF CloseLocked
  <2>. QED BY <1>0, <2>1 DEF ErrorSeen
<1>15. CASE TimerLocked
  <2>1. /\ todo["timer"] = {} /\ \A p \in Party : p # "timer" => todo'[p] = todo[p]
        /\ UNCHANGED <<closing, deadline, io, gp>>
    BY <1>0, <1>15 DEF TimerLocked, Parties, Holds
  <2>. QED BY <1>1, <2>1 DEF CheckErr
<1>16. CASE Expire
  <2>1. PICK m \in todo["timer"] : m = First(todo["timer"]) /\ m \in Mode
    BY <1>0, <1>16, FirstIn DEF Expire, Parties, Holds
  <2>2. /\ deadline' = [deadline EXCEPT ![m] = -1] /\ UNCHANGED <<closing, io, gp, todo>>
    BY <1>16, <2>1 DEF Expire
  <2>3. \A k \in Mode : k # m => deadline'[k] = deadline[k]
    BY <2>2
  <2>. QED BY <1>0, <2>1, <2>2, <2>3 DEF ErrorSeen, CheckErr
<1>17. ASSUME NEW p \in Party, Unblock(p) PROVE ErrorSeen'
  <2>1. PICK m \in todo[p] : Takes(p, m)
    BY <1>0, <1>17, Unblocked
  <2>2. /\ UNCHANGED <<closing, deadline, io>> /\ gp'[m] \in {"nil", "ready"}
        /\ \A k \in Mode : k # m => gp'[k] = gp[k]
        /\ \A q \in Party : \A k \in todo[q] : k # m => k \in todo'[q]
    BY <1>0, <2>1 DEF Takes
  <2>3. \A k \in IOMode : CheckErr(k)' <=> CheckErr(k)
    BY <2>2 DEF CheckErr
  <2>. QED BY <1>0, <2>2, <2>3 DEF ErrorSeen
<1>18. ASSUME NEW p \in Party, Goready(p) PROVE ErrorSeen'
  <2>1. PICK m \in got[p] : Readies(p, m)
    BY <1>0, <1>18, Readied
  <2>2. /\ m \in IOMode /\ gp[m] # "G" /\ io' = [io EXCEPT ![m] = "xchg"]
        /\ UNCHANGED <<closing, deadline, gp, todo>>
    BY <1>0, <2>1 DEF Readies, Semaphores, ReadyFindsParked
  <2>. QED BY <1>3, <1>7, <2>2
<1>. QED
  BY <1>4, <1>5, <1>6, <1>8, <1>9, <1>10, <1>11, <1>12, <1>13, <1>14, <1>15, <1>16, <1>17,
     <1>18, Steps

-----------------------------------------------------------------------------
LEMMA InitIInv ==
  ASSUME Init
  PROVE  IInv
<1>0. /\ MaxTime \in Nat \ {0} /\ MaxSeq \in Nat \ {0, 1} /\ IOMode \subseteq Mode
      /\ Party = {"set", "close", "timer"} \cup Pollers
      /\ Pollers \cap {"set", "close", "timer"} = {}
  BY NetpollAssumption, PollersAssumption DEF Party
<1>1. /\ \A m \in Mode : /\ gp[m] = "nil" /\ deadline[m] = 0 /\ due[m] = 0
                         /\ timer[m] = NoTimer /\ data[m] = FALSE /\ edge[m] = FALSE
      /\ \A m \in IOMode : io[m] = "idle"
      /\ \A p \in Party : at[p] = "idle" /\ todo[p] = {} /\ got[p] = {}
      /\ arg["set"] = NoArg /\ arg["timer"] = NoArg
      /\ open = TRUE /\ closed = FALSE /\ closing = FALSE /\ seq = 1 /\ now = 1
  BY <1>0 DEF Init, Each
<1>2. TypeOK
  <2>1. /\ gp \in [Mode -> {"nil", "ready", "wait", "G"}]
        /\ data \in [Mode -> BOOLEAN] /\ edge \in [Mode -> BOOLEAN]
    BY DEF Init, Each
  <2>2. deadline \in [Mode -> -1..MaxTime] /\ due \in [Mode -> Int64]
    <3>1. 0 \in -1..MaxTime /\ 0 \in Int64
      BY <1>0 DEF Int64
    <3>. QED BY <3>1 DEF Init, Each
  <2>3. timer \in [Mode -> Timer]
    BY <1>0 DEF Init, Each, NoTimer, Timer
  <2>4. io \in [IOMode -> {"idle", "io", "check", "block", "recheck", "commit",
                           "parked", "xchg"}]
    BY DEF Init
  <2>5. /\ at \in [Party -> {"idle", "lock", "expire", "unblock", "ready"}]
        /\ todo \in [Party -> SUBSET Mode] /\ got \in [Party -> SUBSET Mode]
    BY DEF Init
  <2>6. arg \in [{"set", "timer"} -> [f : SUBSET Mode, n : Int64 \cup 0..MaxSeq]]
    BY <1>0 DEF Init, NoArg
  <2>7. seq \in 0..MaxSeq /\ now \in 1..MaxTime
    BY <1>0, <1>1
  <2>. QED BY <1>1, <2>1, <2>2, <2>3, <2>4, <2>5, <2>6, <2>7 DEF TypeOK
<1>3. Parties /\ Semaphores
  BY <1>0, <1>1, PollersAssumption DEF Parties, Holds, Semaphores, ReadyFindsParked, Party
<1>6. Life
  <2>1. arg["set"].n \in Int64 /\ "close" \in Party /\ "set" \in Party
    BY <1>0, <1>1 DEF NoArg, Int64, Party
  <2>. QED BY <1>0, <1>1, <2>1 DEF Life, InUse
<1>4. Timers
  BY <1>0, <1>1 DEF Timers, Holds, Current, NoArg, NoTimer, Mode
<1>5. Watched /\ TimeoutsHonest /\ DataSeen /\ ErrorSeen
  BY <1>0, <1>1 DEF Watched, TimeoutsHonest, DataSeen, ErrorSeen
<1>. QED BY <1>2, <1>3, <1>4, <1>5, <1>6 DEF IInv

LEMMA AlwaysIInv == Spec => []IInv
<1>1. Init => IInv
  BY InitIInv
<1>2. IInv /\ [Next]_vars => IInv'
  BY NextTypeOK, NextParties, NextSemaphores, NextLife, NextTimers, NextWatched,
     NextTimeoutsHonest, NextDataSeen, NextErrorSeen DEF IInv
<1>. QED BY <1>1, <1>2, PTL DEF Spec, SafeSpec

\* Every variable of the model keeps its type; seq stays below the bound of the model.
THEOREM TypeCorrect == Spec => []TypeOK
<1>1. IInv => TypeOK
  BY DEF IInv
<1>. QED BY <1>1, AlwaysIInv, PTL

\* None of the throws of netpoll.go is reached, and no goroutine is made ready twice or
\* before it is parked.
THEOREM NothingThrows == Spec => []NeverThrows
<1>1. ASSUME IInv PROVE NeverThrows
  <2>0. /\ TypeOK /\ Parties /\ Semaphores /\ Life /\ Timers /\ IOMode \subseteq Mode
        /\ "timer" \in Party
        /\ gp \in [Mode -> {"nil", "ready", "wait", "G"}]
    BY <1>1, NetpollAssumption, PollersAssumption DEF IInv, TypeOK, Party
  <2>1. \A m \in IOMode : /\ io[m] = "block" => gp[m] \in {"nil", "ready"}
                          /\ io[m] = "xchg" => gp[m] # "G"
    BY <2>0 DEF Semaphores
  <2>2. ASSUME at["timer"] = "expire"
        PROVE  LET m == First(todo["timer"]) IN
                 /\ deadline[m] > 0
                 /\ timer[m].f # {} \/ (m = "w" /\ "r" \in arg["timer"].f)
    <3>1. PICK m \in todo["timer"] : m = First(todo["timer"]) /\ m \in Mode
      BY <2>0, <2>2, FirstIn DEF Parties, Holds, TypeOK
    <3>2. Firing /\ m \in arg["timer"].f
      BY <2>0, <2>2, <3>1 DEF Timers, Holds
    <3>3. deadline[m] \in Int
      BY <2>0, <3>1, NetpollAssumption DEF TypeOK
    <3>. QED BY <2>2, <3>1, <3>2, <3>3 DEF Firing
  <2>3. ~open \/ (closed /\ ~InUse) => closing /\ \A m \in Mode : gp[m] \in {"nil", "ready"}
    BY <2>0 DEF Life, InUse, Semaphores
  <2>. QED BY <2>0, <2>1, <2>2, <2>3 DEF NeverThrows, Semaphores, Life
<1>. QED BY <1>1, AlwaysIInv, PTL

\* I/O times out only when the deadline set last is over, whatever timers of earlier
\* deadlines and descriptors are still on their way.
THEOREM TimeoutsAreHonest == Spec => []TimeoutsHonest
<1>1. IInv => TimeoutsHonest
  BY DEF IInv
<1>. QED BY <1>1, AlwaysIInv, PTL

\* Every wake-up that a parked goroutine is owed, by the poller, Close, SetDeadline or a
\* timer, is on its way.
THEOREM NobodyMissed == Spec => []NothingMissed
<1>1. ASSUME IInv PROVE NothingMissed
  <2>0. /\ Semaphores /\ Timers /\ Life /\ Watched /\ DataSeen /\ ErrorSeen
        /\ IOMode \subseteq Mode /\ arg["timer"].n \in Nat /\ seq \in Nat
    BY <1>1, NetpollAssumption DEF IInv, Timers, TypeOK
  <2>1. ASSUME NEW m \in IOMode, gp[m] = "G"
        PROVE  /\ data[m] => edge[m] \/ (\E p \in Pollers : m \in todo[p])
               /\ CheckErr(m) => \E p \in Party \ Pollers : m \in todo[p]
    BY <2>0, <2>1 DEF Semaphores, DataSeen, ErrorSeen
  <2>2. Current => at["timer"] # "idle"
    BY <2>0 DEF Timers, Life, Current, NoArg
  <2>. QED BY <2>0, <2>1, <2>2 DEF NothingMissed, Watched, Current
<1>. QED BY <1>1, AlwaysIInv, PTL

=============================================================================
