------------------------------ MODULE Netpoll ------------------------------
(***************************************************************************)
(* runtime/netpoll.go: how goroutines wait for their descriptor, over      *)
(* edge-triggered epoll (netpoll_epoll.go), as netFD uses it (fd_unix.go,  *)
(* fd_poll_runtime.go).  A pollDesc has a binary semaphore for the reader  *)
(* and one for the writer.  Four parties work on them at the same time:    *)
(* the waiters, without a lock; the poller, without a lock; SetDeadline,   *)
(* Close and the expiring timers, with pd.lock.                            *)
(*                                                                         *)
(* A pollDesc is one for ever: after Close it is reused for another        *)
(* descriptor, while timers of the first may still be on their way.        *)
(* FdMutex is taken at its word: one reader and one writer, Close once,    *)
(* and the pollDesc given back when nobody uses it.                        *)
(***************************************************************************)
EXTENDS Integers

CONSTANTS
  IOMode,    \* the modes in which a goroutine does I/O
  Pollers,   \* the threads that call netpoll: findrunnable's, and sysmon
  Deadlines, \* the calls of SetDeadline: the modes, and the time on nanotime's scale
  MaxTime,   \* the greatest int64, where the clock stops
  MaxSeq     \* seq stops here: the number of SetDeadlines, Closes and reuses

Mode == {"r", "w"}

ASSUME NetpollAssumption ==
  /\ IOMode \subseteq Mode /\ MaxTime \in Nat \ {0} /\ MaxSeq \in Nat \ {0, 1}
  /\ Deadlines \subseteq [f : SUBSET Mode \ {{}}, t : -MaxTime - 1..2 * MaxTime + 1]
ASSUME PollersAssumption == Pollers \cap {"set", "close", "timer"} = {}

\* SetDeadline's caller, Close's, timerproc, and those who call netpoll.
Party == {"set", "close", "timer"} \cup Pollers

VARIABLES
  open,      \* the pollDesc belongs to a descriptor
  closed,    \* mutexClosed of that descriptor: no call begins any more
  closing,   \* pd.closing
  seq,       \* pd.seq
  gp,        \* pd.rg and pd.wg
  deadline,  \* pd.rd and pd.wd: 0 for none, -1 for expired
  timer,     \* pd.rt and pd.wt
  now,       \* nanotime()
  due,       \* history: the deadline last set for this descriptor
  data,      \* whether a read or write of the descriptor would succeed
  edge,      \* what epoll has to report
  io,        \* where the goroutine of each mode is
  at,        \* where each party is
  todo,      \* the modes it has still to unblock
  got,       \* the modes whose goroutine it has still to make ready
  arg        \* the arguments of SetDeadline, and the timer that fires

fd == <<open, closed>>
pd == <<closing, seq, deadline, timer, due>>
kernel == <<now, data, edge>>
party == <<at, todo, got>>
vars == <<fd, pd, gp, kernel, io, party, arg>>

Int64 == -MaxTime - 1..MaxTime

NoTimer == [f |-> {}, when |-> 0, seq |-> 0, queued |-> FALSE]
Timer == [f : SUBSET Mode, when : 0..MaxTime, seq : 0..MaxSeq, queued : BOOLEAN]

TypeOK ==
  /\ open \in BOOLEAN /\ closed \in BOOLEAN /\ closing \in BOOLEAN
  /\ seq \in 0..MaxSeq
  /\ gp \in [Mode -> {"nil", "ready", "wait", "G"}]
  /\ deadline \in [Mode -> -1..MaxTime] /\ due \in [Mode -> Int64]
  /\ timer \in [Mode -> Timer]
  /\ now \in 1..MaxTime
  /\ data \in [Mode -> BOOLEAN] /\ edge \in [Mode -> BOOLEAN]
  /\ io \in [IOMode -> {"idle", "io", "check", "block", "recheck", "commit",
                        "parked", "xchg"}]
  /\ at \in [Party -> {"idle", "lock", "expire", "unblock", "ready"}]
  /\ todo \in [Party -> SUBSET Mode]
  /\ got \in [Party -> SUBSET Mode]
  /\ arg \in [{"set", "timer"} -> [f : SUBSET Mode, n : Int64 \cup 0..MaxSeq]]

Each(x) == [m \in Mode |-> x]

NoArg == [f |-> {}, n |-> 0]

\* A new pollDesc, opened for a descriptor.
Init ==
  /\ open = TRUE /\ closed = FALSE /\ closing = FALSE
  /\ seq = 1 /\ gp = Each("nil")
  /\ deadline = Each(0) /\ timer = Each(NoTimer) /\ due = Each(0)
  /\ now = 1 /\ data = Each(FALSE) /\ edge = Each(FALSE)
  /\ io = [m \in IOMode |-> "idle"]
  /\ at = [p \in Party |-> "idle"]
  /\ todo = [p \in Party |-> {}] /\ got = [p \in Party |-> {}]
  /\ arg = [p \in {"set", "timer"} |-> NoArg]

-----------------------------------------------------------------------------
\* The kernel: time passes, and input, or room for output, arrives.
Tick ==
  /\ now < MaxTime /\ now' = now + 1
  /\ UNCHANGED <<fd, pd, gp, data, edge, io, party, arg>>

Arrive(m) ==
  /\ open
  /\ data' = [data EXCEPT ![m] = TRUE]
  /\ edge' = [edge EXCEPT ![m] = TRUE]
  /\ UNCHANGED <<fd, pd, gp, now, io, party, arg>>

-----------------------------------------------------------------------------
\* netFD.Read and netFD.Write, in one mode each.

\* netpollcheckerr.  It reads two fields, but deadline is fixed once closing is
\* set, so that its answer was right at one moment.
CheckErr(m) == closing \/ deadline[m] < 0

Goto(m, l) == io' = [io EXCEPT ![m] = l]

\* pollReset: an error returns; otherwise forget a readiness seen before.  What it
\* overwrites is older than the I/O that comes next.
Prepare(m) ==
  /\ io[m] = "idle" /\ open /\ ~closed /\ ~CheckErr(m)
  /\ gp' = [gp EXCEPT ![m] = "nil"]
  /\ Goto(m, "io")
  /\ UNCHANGED <<fd, pd, kernel, party, arg>>

\* The system call: all or part of what there is, or EAGAIN.
TryIO(m) ==
  /\ io[m] = "io"
  /\ \/ /\ data[m]
        /\ \E rest \in BOOLEAN : data' = [data EXCEPT ![m] = rest]
        /\ Goto(m, "idle")
     \/ /\ ~data[m]
        /\ Goto(m, "check")
        /\ UNCHANGED data
  /\ UNCHANGED <<fd, pd, gp, now, edge, party, arg>>

\* pollWait's netpollcheckerr, at first and after each netpollblock.
Check(m) ==
  /\ io[m] = "check"
  /\ Goto(m, IF CheckErr(m) THEN "idle" ELSE "block")
  /\ UNCHANGED <<fd, pd, gp, kernel, party, arg>>

\* netpollblock: consume a readiness, or announce a wait.  NeverThrows says that
\* nobody waits already.
Block(m) ==
  /\ io[m] = "block"
  /\ \/ gp[m] = "ready" /\ gp' = [gp EXCEPT ![m] = "nil"] /\ Goto(m, "io")
     \/ gp[m] = "nil" /\ gp' = [gp EXCEPT ![m] = "wait"] /\ Goto(m, "recheck")
  /\ UNCHANGED <<fd, pd, kernel, party, arg>>

\* Mutant: park without looking at closing and deadline once more.
RecheckNot(m) ==
  /\ io[m] = "recheck"
  /\ Goto(m, "commit")
  /\ UNCHANGED <<fd, pd, gp, kernel, party, arg>>

Recheck(m) ==
  /\ io[m] = "recheck"
  /\ Goto(m, IF CheckErr(m) THEN "xchg" ELSE "commit")
  /\ UNCHANGED <<fd, pd, gp, kernel, party, arg>>

\* Mutant: park whatever became of the announcement.
CommitAlways(m) ==
  /\ io[m] = "commit"
  /\ gp' = [gp EXCEPT ![m] = "G"]
  /\ Goto(m, "parked")
  /\ UNCHANGED <<fd, pd, kernel, party, arg>>

\* netpollblockcommit, called by gopark: stay parked if still announced.
Commit(m) ==
  /\ io[m] = "commit"
  /\ \/ gp[m] = "wait" /\ gp' = [gp EXCEPT ![m] = "G"] /\ Goto(m, "parked")
     \/ gp[m] # "wait" /\ Goto(m, "xchg") /\ UNCHANGED gp
  /\ UNCHANGED <<fd, pd, kernel, party, arg>>

\* Mutant: netpollblock returns and leaves its announcement behind.
XchgNot(m) ==
  /\ io[m] = "xchg"
  /\ gp' = [gp EXCEPT ![m] = IF @ = "ready" THEN "nil" ELSE @]
  /\ Goto(m, IF gp[m] = "ready" THEN "io" ELSE "check")
  /\ UNCHANGED <<fd, pd, kernel, party, arg>>

\* The end of netpollblock.
Xchg(m) ==
  /\ io[m] = "xchg"
  /\ gp' = [gp EXCEPT ![m] = "nil"]
  /\ Goto(m, IF gp[m] = "ready" THEN "io" ELSE "check")
  /\ UNCHANGED <<fd, pd, kernel, party, arg>>

-----------------------------------------------------------------------------
\* pd.lock, as Lock has it: held by those who expire and unblock, but for the
\* pollers, who go without.
Free == \A p \in Party \ Pollers : at[p] \notin {"expire", "unblock"}

Enter(p, l) == at' = [at EXCEPT ![p] = l]
\* The model resets p's arguments when they are dead.
Drop(p) == IF p \in DOMAIN arg THEN [arg EXCEPT ![p] = NoArg] ELSE arg
\* Of both modes, reading comes first.
First(S) == IF "r" \in S THEN "r" ELSE "w"

\* netpollunblock, one compare-and-swap.  After the last mode pd.lock is given
\* back, and the goroutines taken off the semaphores are made ready.
Unblock(p) ==
  /\ at[p] = "unblock"
  /\ LET m == First(todo[p]) IN
       /\ gp' = [gp EXCEPT ![m] = IF @ = "ready" \/ p \in Pollers THEN "ready" ELSE "nil"]
       /\ got' = [got EXCEPT ![p] = IF gp[m] = "G" THEN @ \cup {m} ELSE @]
  /\ todo' = [todo EXCEPT ![p] = @ \ {First(@)}]
  /\ Enter(p, IF todo'[p] = {} THEN IF got'[p] = {} THEN "idle" ELSE "ready"
              ELSE IF p = "timer" THEN "expire" ELSE "unblock")
  /\ arg' = IF todo'[p] = {} THEN Drop(p) ELSE arg
  /\ UNCHANGED <<fd, pd, kernel, io>>

Goready(p) ==
  /\ at[p] = "ready"
  /\ LET m == First(got[p]) IN
       /\ Goto(m, "xchg")
       /\ got' = [got EXCEPT ![p] = @ \ {m}]
  /\ Enter(p, IF got'[p] = {} THEN "idle" ELSE "ready")
  /\ UNCHANGED <<fd, pd, gp, kernel, todo, arg>>

-----------------------------------------------------------------------------
\* runtimeNano() + t.Sub(now) is t itself, unless the sum overflows; the zero Time
\* is 0, which means none, and so is a t that comes to 0.
Nano(t) == IF t > MaxTime THEN t - 2 * (MaxTime + 1) ELSE t

\* setDeadlineImpl for the modes d.f, between netFD's incref and decref.  The last
\* guard is a bound: it leaves room for the Close.
SetDeadline(d) ==
  /\ at["set"] = "idle" /\ open /\ ~closed
  /\ seq + 1 < MaxSeq
  /\ arg' = [arg EXCEPT !["set"] = [f |-> d.f, n |-> Nano(d.t)]]
  /\ Enter("set", "lock")
  /\ UNCHANGED <<fd, pd, gp, kernel, io, todo, got>>

\* Its deadlines: those in the past are expired from the start.
NewDeadline == LET d == arg["set"].n IN
  [m \in Mode |-> IF m \notin arg["set"].f THEN deadline[m]
                  ELSE IF d # 0 /\ d <= now THEN -1 ELSE d]

\* And its timers: one for both modes if they have the same deadline.
NewTimer(dl, s) ==
  LET Start(f, m) == [f |-> f, when |-> dl[m], seq |-> s, queued |-> TRUE]
      both == dl["r"] > 0 /\ dl["r"] = dl["w"]
  IN [m \in Mode |-> IF both THEN IF m = "r" THEN Start(Mode, m) ELSE NoTimer
                     ELSE IF dl[m] > 0 THEN Start({m}, m) ELSE NoTimer]

\* Mutant: timers already on their way stay good.
SetLockedSameSeq ==
  /\ at["set"] = "lock" /\ Free /\ ~closing
  /\ deadline' = NewDeadline /\ timer' = NewTimer(NewDeadline, seq)
  /\ due' = [m \in Mode |-> IF m \in arg["set"].f THEN arg["set"].n ELSE due[m]]
  /\ todo' = [todo EXCEPT !["set"] = {m \in Mode : NewDeadline[m] < 0}]
  /\ Enter("set", IF todo'["set"] = {} THEN "idle" ELSE "unblock")
  /\ arg' = Drop("set")
  /\ UNCHANGED <<fd, closing, seq, gp, kernel, io, got>>

SetLocked ==
  /\ at["set"] = "lock" /\ Free
  /\ \/ closing /\ Enter("set", "idle") /\ UNCHANGED <<pd, todo>>
     \/ /\ ~closing
        /\ seq' = seq + 1
        /\ deadline' = NewDeadline /\ timer' = NewTimer(NewDeadline, seq')
        /\ due' = [m \in Mode |-> IF m \in arg["set"].f THEN arg["set"].n ELSE due[m]]
        /\ todo' = [todo EXCEPT !["set"] = {m \in Mode : NewDeadline[m] < 0}]
        /\ Enter("set", IF todo'["set"] = {} THEN "idle" ELSE "unblock")
        /\ UNCHANGED closing
  /\ arg' = Drop("set")
  /\ UNCHANGED <<fd, gp, kernel, io, got>>

-----------------------------------------------------------------------------
\* timerproc takes a timer that is due off its heap, the earliest first.
Fire(m) ==
  /\ at["timer"] = "idle"
  /\ timer[m].queued /\ timer[m].when <= now
  /\ \A k \in Mode : timer[k].queued => timer[m].when <= timer[k].when
  /\ timer' = [timer EXCEPT ![m] = [NoTimer EXCEPT !.f = timer[m].f]]
  /\ arg' = [arg EXCEPT !["timer"] = [f |-> timer[m].f, n |-> timer[m].seq]]
  /\ Enter("timer", "lock")
  /\ UNCHANGED <<fd, closing, seq, deadline, due, gp, kernel, io, todo, got>>

\* netpolldeadlineimpl: a timer of an earlier SetDeadline, or of an earlier
\* descriptor, is stale.
TimerLocked ==
  /\ at["timer"] = "lock" /\ Free
  /\ \/ /\ arg["timer"].n # seq
        /\ Enter("timer", "idle") /\ arg' = Drop("timer")
        /\ UNCHANGED todo
     \/ /\ arg["timer"].n = seq
        /\ todo' = [todo EXCEPT !["timer"] = arg["timer"].f]
        /\ Enter("timer", "expire")
        /\ UNCHANGED arg
  /\ UNCHANGED <<fd, pd, gp, kernel, io, got>>

\* The deadline is marked as expired before its goroutine is unblocked.
Expire == LET m == First(todo["timer"]) IN
  /\ at["timer"] = "expire"
  /\ deadline' = [deadline EXCEPT ![m] = -1]
  /\ timer' = [timer EXCEPT ![m].f = {}]
  /\ Enter("timer", "unblock")
  /\ UNCHANGED <<fd, closing, seq, due, gp, kernel, io, todo, got, arg>>

-----------------------------------------------------------------------------
\* netFD.Close: from now on no call begins, then pollUnblock.
Close ==
  /\ at["close"] = "idle" /\ open /\ ~closed
  /\ closed' = TRUE
  /\ Enter("close", "lock")
  /\ UNCHANGED <<open, pd, gp, kernel, io, todo, got, arg>>

\* Its timers are deleted after the unblocking; one that fires before finds
\* another seq.
CloseLocked ==
  /\ at["close"] = "lock" /\ Free
  /\ closing' = TRUE /\ seq' = seq + 1
  /\ timer' = Each(NoTimer)
  /\ todo' = [todo EXCEPT !["close"] = Mode]
  /\ Enter("close", "unblock")
  /\ UNCHANGED <<fd, deadline, due, gp, kernel, io, got, arg>>

\* Somebody is between incref and decref.
InUse == at["set"] # "idle" \/ at["close"] # "idle" \/ \E m \in IOMode : io[m] # "idle"

\* pollClose, by the last user: epoll forgets the descriptor.  Its
\* deadlines are dead until Open, and the model resets them.
Destroy ==
  /\ open /\ closed /\ ~InUse
  /\ open' = FALSE
  /\ deadline' = Each(0) /\ due' = Each(0)
  /\ data' = Each(FALSE) /\ edge' = Each(FALSE)
  /\ UNCHANGED <<closed, closing, seq, timer, gp, now, io, party, arg>>

\* pollOpen, for another descriptor.  The guard on seq is a bound, not the code's.
Open ==
  /\ ~open /\ Free /\ seq + 1 < MaxSeq
  /\ open' = TRUE /\ closed' = FALSE /\ closing' = FALSE
  /\ seq' = seq + 1
  /\ gp' = Each("nil") /\ deadline' = Each(0) /\ due' = Each(0)
  /\ UNCHANGED <<timer, kernel, io, party, arg>>

\* netpoll: epoll_wait reports what became ready since the last report, or an
\* error or hang-up, which is good for both modes; then netpollready.
Epollwait(p) ==
  /\ at[p] = "idle" /\ \E m \in Mode : edge[m]
  /\ \E S \in {{m \in Mode : edge[m] /\ data[m]}, Mode} :
       /\ todo' = [todo EXCEPT ![p] = S]
       /\ Enter(p, IF S = {} THEN "idle" ELSE "unblock")
  /\ edge' = Each(FALSE)
  /\ UNCHANGED <<fd, pd, gp, now, data, io, got, arg>>

-----------------------------------------------------------------------------
Wait(m) == Check(m) \/ Block(m) \/ Recheck(m) \/ Commit(m) \/ Xchg(m)
Locked == SetLocked \/ TimerLocked \/ CloseLocked
Run(p) == Unblock(p) \/ Goready(p) \/ (p = "timer" /\ Expire)

Next ==
  \/ Tick \/ \E m \in IOMode : Arrive(m)
  \/ \E m \in IOMode : Prepare(m) \/ TryIO(m) \/ Wait(m)
  \/ \E d \in Deadlines : SetDeadline(d)
  \/ \E m \in Mode : Fire(m)
  \/ Close \/ Destroy \/ Open \/ \E p \in Pollers : Epollwait(p)
  \/ Locked \/ \E p \in Party : Run(p)

SafeSpec == Init /\ [][Next]_vars

\* Goroutines run, timers fire, and somebody calls netpoll again and again; that
\* anything arrives, or that anybody sets a deadline or closes, is not assumed.
Spec ==
  /\ SafeSpec
  /\ \A m \in IOMode : WF_vars(TryIO(m) \/ Wait(m))
  /\ \A p \in Party : WF_vars(Run(p))
  /\ WF_vars(Locked) /\ WF_vars(\E m \in Mode : Fire(m)) /\ WF_vars(\E p \in Pollers : Epollwait(p))

-----------------------------------------------------------------------------
\* A goroutine is made ready once, while it is parked and off the semaphore.
ReadyFindsParked ==
  \A p \in Party : \A m \in got[p] :
    /\ m \in IOMode /\ io[m] = "parked" /\ gp[m] # "G"
    /\ \A q \in Party \ {p} : m \notin got[q]

\* The throws of netpoll.go are dead: double wait, corrupted state, already
\* closing, inconsistent deadline, and close or reuse of a descriptor that is not
\* unblocked; and goready finds its goroutine parked.
NeverThrows ==
  /\ TypeOK
  /\ ReadyFindsParked
  /\ \A m \in IOMode : /\ io[m] = "block" => gp[m] \in {"nil", "ready"}
                       /\ io[m] = "xchg" => gp[m] # "G"
  /\ at["timer"] = "expire" => LET m == First(todo["timer"]) IN
       /\ deadline[m] > 0
       /\ timer[m].f # {} \/ (m = "w" /\ "r" \in arg["timer"].f)
  /\ at["close"] = "lock" => ~closing
  /\ ~open \/ (closed /\ ~InUse) => closing /\ \A m \in Mode : gp[m] \in {"nil", "ready"}

\* I/O times out only after the deadline that was set last, never by a timer of
\* an earlier deadline or an earlier descriptor.
TimeoutsHonest ==
  \A m \in Mode : deadline[m] = IF due[m] # 0 /\ due[m] <= now /\ deadline[m] < 0
                                THEN -1 ELSE due[m]

\* No parked goroutine is missed: what it waits for, or an error it should return
\* with, is about to unblock it; and a deadline it has is in good hands.
NothingMissed ==
  \A m \in IOMode : gp[m] = "G" =>
    /\ data[m] => edge[m] \/ \E p \in Pollers : m \in todo[p]
    /\ CheckErr(m) => \E p \in Party \ Pollers : m \in todo[p]
    /\ deadline[m] > 0 /\ ~closing =>
         \/ \E k \in Mode : /\ timer[k].queued /\ m \in timer[k].f
                            /\ timer[k].when = deadline[m] /\ timer[k].seq = seq
         \/ /\ at["timer"] # "idle"
            /\ m \in arg["timer"].f /\ arg["timer"].n = seq

\* A goroutine does not stay parked when there is data, its time is over, or its
\* descriptor is closed.
Due(m) == /\ io[m] = "parked"
          /\ closing \/ data[m] \/ (due[m] # 0 /\ due[m] <= now)
WaitEnds == \A m \in IOMode : Due(m) ~> ~Due(m)

=============================================================================
