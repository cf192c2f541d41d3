# Verification of the Go 1.6 runtime's and library's synchronisation

TLA+ models of the concurrent core of the Go 1.6 tree (`src/src/runtime`,
`src/src/sync`, `src/src/net`, `src/src/database/sql`; paths below are relative to `src/src`), TLC runs
over small instances, and TLAPS proofs for every size. `PROJECT.json` maps each
definition to the lines it translates and lists every run, theorem, hazard and
finding.

The subject is what a test can hardly reach: code of a few dozen lines each in
which several goroutines or threads change one word, one queue or one ring
buffer at the same time, some with a lock and some without, and where a wrong
order of two instructions loses a wakeup, wakes a goroutine twice, or closes a
file under somebody's feet.

## 1. Inventory

### What the repository holds

| Part | State | Operations | What is hard about it |
|---|---|---|---|
| runtime locks, `runtime/lock_futex.go` | one word per lock, the kernel's futex queue | `lock`, `unlock`, one-shot notes | three ways to take the lock, one of which overwrites the mark "somebody sleeps" |
| semaphores, `runtime/sema.go` | a counter per address, 251 roots with a lock, a waiter count and a queue | `semacquire`, `semrelease`, `syncsemacquire`, `syncsemrelease` | fast paths that skip the lock; several addresses per root |
| channels, `runtime/chan.go`, `select.go` | ring buffer, closed flag, two queues of sudogs, a lock per channel | send, receive, close, blocking or not; select over several channels | a goroutine waits in several queues with different locks; two lock-free reads decide for a non-blocking call; copies after the unlock |
| `sync.Mutex` | a word (locked, woken, waiters) and a semaphore | `Lock`, `Unlock` | spinning, barging, and a bit that says that one wakeup is on its way |
| `sync.Cond` | a waiter count and a syncSema | `Wait`, `Signal`, `Broadcast` | counting and queueing are two steps, so that a release may come before its acquire |
| `RWMutex`, `WaitGroup`, `Once`, `Pool` | words and semaphores | | the same, over Mutex and the semaphores |
| `fdMutex`, `net/fd_mutex.go`, and `netFD` | a word with two lock bits and three 20-bit counters, two semaphores | `Incref`, `IncrefAndClose`, `Decref`, `RWLock`, `RWUnlock` | Close at any time; the last user closes the descriptor |
| network poller, `runtime/netpoll.go` | `pollDesc`: two binary semaphores, two deadlines with timers, `seq`, `closing` | open, reset, wait, set deadline, unblock, close; readiness from epoll; timers | waiters and poller without a lock against deadlines and Close with it; pollDescs are reused |
| scheduler, `runtime/proc.go` | run queues, Ps, Ms, idle lists | `ready`, `findrunnable`, `handoffp`, `stopTheWorld`, `sysmon`, system calls | work stealing, spinning, stopping the world |
| garbage collector, `runtime/mgc*.go`, `mbarrier.go` | mark bits, work buffers, phases | mark, sweep, assist, write barrier, termination | concurrent with all of the above |
| memory allocator | span lists, caches | `mallocgc`, span allocation and release | mostly under locks; the sweeper races |
| timers, `runtime/time.go` | a heap, a sleeping goroutine | `addtimer`, `deltimer`, `timerproc` | a callback that runs while its timer is deleted |
| signals, `runtime/sigqueue.go` | a bit mask and a three-state word | `sigsend`, `signal_recv` | hand-over from a signal handler that may not lock |
| `database/sql` | a pool of connections, waiting requests | `conn`, `putConn`, `connectionOpener`, `Close` | limits, retries, closing while requests wait |
| `net/http` | `Transport`'s idle pool, `persistConn`'s two loops, the server's connections | round trip, cancel, reuse | a response racing a cancel or a closed connection |
| `io.Pipe`, `net/rpc`, `net/textproto.Pipeline` | small monitors | | end of one side while the other waits |
| the rest | | encodings, compression, cryptography, parsers, printers, mathematics, formats | sequential algorithms on data |

The `components` of `PROJECT.json` list all of them, with the reason where a part is
not modelled. Of the 836 files most are sequential library code without shared
state; the parts above carry the program's own concurrent logic.

### How the parts interact

- The scheduler gives everything else two operations: `gopark` puts a goroutine to
  sleep and, once it is asleep, calls a function of its caller's (give back a lock,
  or announce the goroutine in a word); `goready` makes it runnable again, and must
  find it asleep. Every module that parks has the rule "ready finds parked, and only
  once" in its invariants, since breaking it corrupts the scheduler.
- The futex lock protects the queues of `sema.go` and of channels, and `pd.lock`.
- `sync.Mutex`, `RWMutex`, `WaitGroup` and `fdMutex` sleep on the semaphores of
  `sema.go`; `sync.Cond` on its syncSema, and it calls `Lock` and `Unlock` of any
  Locker.
- The collector stops and starts the world through the scheduler, and runs one worker to
  a P; sends write into the stacks of other goroutines, which it must know of.
- `DB` sends connections to waiting clients over channels, under a `sync.Mutex`.
- `netFD.Read` and `Write` take fdMutex's read or write lock, try the system call, and
  wait in the poller; `netFD.Close` sets fdMutex's closed bit, unblocks the poller's
  waiters, and whoever drops the last reference closes the descriptor and gives its
  `pollDesc` back.

### What makes each modelled part correct

- **lock_futex**: one holder; no thread sleeps on a word that does not say so unless
  somebody awake knows; a free lock that is wanted is taken.
- **sema**: tokens are neither lost nor invented; no waiter sleeps beside a token
  that nobody is about to wake it for; waiters of another address are left alone.
- **chan, select**: every behaviour is one of bounded FIFO queues, where each call
  takes effect once between its call and its return; a select takes one of its cases
  and leaves nothing behind; calls that could proceed do; a non-blocking call gives
  up rightly.
- **Mutex**: one holder; the woken bit stands for one goroutine on its way; no
  sleeper is forgotten; the panic is dead.
- **Cond**: a wakeup taken off the count is delivered once, to somebody who waits.
- **fdMutex**: one reader and one writer; the count is the number of users; the
  descriptor is closed once, when unused; Close wakes everybody.
- **netpoll**: no wait outlasts its reason; no wakeup twice; no timeout before the
  deadline that was set last, whatever old timers are on their way.
- **scheduler**: no P and no goroutine is in two hands or lost; stopTheWorld counts each P
  once; somebody looks for work whenever somebody else wakes nobody on that account.
- **run queue**: the owner and thieves neither lose nor share a goroutine, and the ring
  stays in order, also where its indices wrap and where it overflows.
- **collector**: what a goroutine can reach is not freed; no scanned object hides an
  unmarked one; marking does not end before the work is done, and does end.
- **sql pool**: each connection has one owner and is counted once; who waits gets an answer
  if there is one to be had; the limits hold.

## 2. Modules

| Module | Models | How it relates to the code |
|---|---|---|
| `Lock` | what a lock promises | abstract: out, want, in; who gets the lock is not said |
| `FutexLock` | `runtime/lock_futex.go`, lock and unlock | one action per atomic instruction or futex call; `key` is `l.key`, `wait` the local variable |
| `Semaphore` | what semacquire and semrelease promise | abstract: a counter per address |
| `Sema` | `runtime/sema.go`, one root | one action per atomic access and per section under the root's lock |
| `Mutex` | `sync/mutex.go` | one action per load, compare-and-swap and semaphore call; the word is a record |
| `Cond` | `sync/cond.go`, and syncSema of `runtime/sema.go` | one action per atomic access and per section under the syncSema's lock |
| `ChanSpec` | what channels promise | abstract: a queue, a capacity and a closed flag per channel; calls are invoked, settled, and return |
| `Chan` | `runtime/chan.go`, `runtime/select.go` | one action per section under a channel's lock, per lock a select takes, per goroutine a close wakes, per hand-over after the unlock, and per read of a fast path |
| `ChanFast` | the comments on the fast paths of non-blocking sends and receives | `Chan` with one history variable |
| `FdMutex` | `net/fd_mutex.go`, and how `net/fd_unix.go` uses it | one action per successful compare-and-swap and per semaphore call |
| `Netpoll` | `runtime/netpoll.go` over `netpoll_epoll.go`, as `net/fd_unix.go` and `fd_poll_runtime.go` use it | one action per access to a semaphore word and per section under `pd.lock`; the kernel's arrivals and the clock are actions too |
| `Scheduler` | `runtime/proc.go`: rounds, spinning, handing over, system calls, sysmon, stopping the world | one action per atomic operation on `nmspinning` or a P's status, per operation on a queue, and per section under `sched.lock`; `th[t]` is what a thread has in its fields and local variables |
| `RunQueue` | `runqput`, `runqget`, `runqsteal` and what they call, in `runtime/proc.go` | one action per access to `runqhead`, `runqtail`, `runnext` and each copied slot; indices are modulo `W` |
| `Collector` | a cycle of the collector, `runtime/mgc.go`, `mgcmark.go`, `mgcwork.go`, `mgcsweep.go`, `mbarrier.go` | one action per pointer operation of a goroutine, per root job, per object scanned, per transition; a store and its barrier are two |
| `SqlPool` | the pool in `database/sql/sql.go` | one action per section under `db.mu`, and per receive from a channel |
| `MC...` | | instances of these for TLC |
| `SyncProofs`, `FdMutexProofs`, `ChanProofs`, `NetpollProofs`, `SchedulerProofs`, `RunQueueProofs`, `CollectorProofs`, `SqlPoolProofs` | | the proofs, each a module that extends the one it is about; `SyncProofs` extends `Mutex` and has `Cond`, `FutexLock` and `Sema` as instances |

The conventions are the same everywhere. `pc[g]` is where goroutine `g` is between two
steps; its values are listed and explained at `PC`. What the code does between two
points at which others can see or change something is one step. A section under a
lock is one step when everything it reads and writes is changed by holders of that lock
only; where the code also goes to the same word without the lock (`Sema`'s tokens,
`Netpoll`'s semaphores) the section is split at every such access. A loop around a
compare-and-swap is one step when the failing round changes nothing and reads nothing
that is kept (`fdMutex`, `cansemacquire`); where the loop keeps what it has read
(`Mutex`, `Cond`) the load and the swap are two steps. Variables of a function that
has returned are reset, so that states which differ in dead values only are one.

**Composition.** Each lower layer has an abstract module that says what it promises,
and the layer above uses the abstraction: `FutexLock` implements `Lock`, which
`Sema`, `Chan`, `Cond` and `Netpoll` assume of their locks; `Sema` implements
`Semaphore`, whose counters `Mutex` and `FdMutex` sleep on; `Mutex` implements `Lock`
again, which is `Cond`'s `c.L`; `FdMutex` promises one reader, one writer and one Close,
which `Netpoll` assumes. `Chan` implements `ChanSpec`; `SqlPool` uses channels as that says
and `db.mu` as a `Lock`. `Scheduler` takes each P's queue for a set from which an operation
removes at once, and `RunQueue` shows that the ring does so: each goroutine leaves it once
(`OnePlace`), in order (`Fifo`). `Collector` takes the world to be stopped as `Scheduler`'s
`Stopped` says. The implementations are checked
as refinements, `INSTANCE ... WITH`, the abstract specification as a property:

- `FutexLock`, `Mutex`: `Phase` says who is out, wants the lock, or has it.
- `Sema`: the tokens are the same, and who is between call and success is waiting.
- `Chan`: `Contents` reads the ring buffer in order, `Outcome` says what a call will
  return. A call is settled when the other side has claimed it, which may be
  long before it wakes up: this is the linearization point, and a hand-over of a
  value between a sender and a receiver is one abstract step. A close takes effect when
  it sets the flag, before it goes through the queues.

## 3. Runs

| Run | Instance | Asks |
|---|---|---|
| `futex_lock` | 3 threads, any number of calls | the word and the sleepers; refinement of `Lock` with liveness |
| `sema` | 3 goroutines, 2 addresses in one root, up to 2 tokens each | count, queue and wakeups; refinement of `Semaphore` with liveness |
| `mutex` | 3 goroutines, 2 spins, Unlock by others than the locker | the woken bit, the forgotten waiter, refinement of `Lock` with liveness |
| `cond` | 4 goroutines, any number of calls, with and without `c.L` | counts and wakeups; releasers return |
| `chan` | 3 goroutines with 2 calls each, a channel of capacity 0 or 1 and one of 0 | queues and parks; no cycle of locks; refinement of `ChanSpec`; lock-free receives |
| `fd_mutex` | 4 goroutines, counters up to 3 | one destroy, counted sleepers, Close wakes and destroys |
| `netpoll` | one goroutine reading, three calls of SetDeadline: for both modes, for one, and too far away; a clock of 2 ticks, up to 6 values of `seq` | no wakeup lost, doubled, or by a stale timer; no wait without reason |
| `scheduler` | 3 threads and sysmon, 2 Ps, 3 goroutines | owners of Ps and goroutines, a stopped world, attended work, no throw |
| `run_queue` | an owner that puts 6 times and a thief, 5 goroutines, rings of 4, indices modulo 16 that start at 14 | each goroutine in one place; order; no throw |
| `collector` | 2 goroutines with 2 frames, one of which receives, 2 Ps, 2 objects, 3 pointer operations | nothing lost, the tri-colour invariant, marking ends, no throw |
| `sql_pool` | 3 clients, the opener and the cleaner, 2 connections, limits of 1 and 2, a lifetime set or not | owners and counts of connections, answered requests, limits |
| `sql_pool_close` | the same, without a lifetime, so that `SetConnMaxLifetime` has no part in it | the finding below |

**Why the bounds are enough to be worth something.** The bounds are chosen by what
must be able to meet.

- `futex_lock`, `mutex`, `sema`, `cond` have no bound on the number of calls: their
  state spaces are finite by themselves, but for `MaxSem`, so that every interleaving
  of three goroutines of any length is covered. Three are what the hazards need: one
  that holds, one that sleeps, one that comes by. In `sema` the third takes
  the token for which the second was woken, and an address shares its root with another.
  `cond` has a fourth, so that two releasers meet two waiters.
  `MaxSpin` is 2 where the code has `active_spin = 4`; a goroutine may stop spinning at
  any time, since `runtime_canSpin` also depends on the load of the machine, so that more
  rounds repeat the second. The proofs cover any number.
- `chan`: two calls per goroutine let a goroutine that left a select behind come back
  for another operation while its old sudogs would still be queued. Capacity 1
  is empty, full and wrapping; a full buffer with a parked sender needs two sends.
  `AllOps` has each operation, and each fast path but that of the non-blocking
  send; two selects name the channels in opposite orders. With three goroutines a close
  finds two sleepers, so that the first runs, or the second is claimed by way of the other
  channel or by the first, before the close comes to it.
- `fd_mutex`: `Mask` is 3 instead of 2^20 - 1, so that the counters reach their limit
  with four goroutines, and Close meets sleepers of one kind and a release that is
  already on its way.
- `netpoll`: with `MaxSeq` 6 a deadline may be set (`seq` is 2), the descriptor closed (3),
  the pollDesc reopened for another (4) and given a deadline again (5), with a timer
  of the first on its way all the time: it meets a parked reader of the second. Without a
  reuse four deadlines are set one after the other. The
  goroutine reads; the writer's half of a pollDesc is symmetrical and meets the reader's
  in the deadline call for both modes, which share one timer. The clock's last tick is the
  greatest int64, so that the third call overflows. One thread calls `netpoll`; the
  theorems are about any number.
- `scheduler`: no bound on steps. Three threads are one in a system call, one that has
  taken its P, and one on its way to park or to start; sysmon is a fourth. Two Ps are one
  that works and one that is given away; `procresize` takes one of them away and back.
- `run_queue`: rings of 4 fill and overflow with 5 goroutines, where the code has 256;
  modulo 16 the indices, which start at 14, wrap after two puts, where the code has 2^32.
  `Len2 * MaxPuts` is less than `W`, so that no head comes back to the same value between
  a load and a compare-and-swap, for which the code would need 2^32 operations in between.
  `MaxPuts < W` would not do: a goroutine that is stolen enters the thief's ring without a
  put, and a steal of a whole batch moves the thief's tail on by up to `Len2 - 1`.
- `collector`: the classic races need an object that is scanned, one that is not, and
  two places to move the pointer between; `MaxOps` 3 are enough to load, to store and to
  drop. `NotStuck` needs the two Ps: one in `gcMarkDone`, one that works.
- `sql_pool`: with limits of 1 and 2 and three clients somebody waits, and a limit is
  lowered while two connections are open. `MaxIdles` is {0}, which means the default of 2;
  `SetMaxOpenConns` lowers it further. `MaxBadConnRetries` is 1 (2 in the code): first and
  last try are what `conn` tells apart.

`CHECK_DEADLOCK FALSE` stands where the system really may stop: all calls used up
(`chan`, `run_queue`, `collector`), everybody waiting for a signal (`cond`), all tokens at
their bound and everybody acquiring (`sema`), the clock and `seq` at their ends
(`netpoll`), all goroutines blocked (`scheduler`), a panic (`sql_pool`). Symmetry is used in
safety runs only.

## 4. Fairness

Weak fairness of what a goroutine does by itself inside an operation (`Run`, `Step`):
the code's own assumption is that a runnable goroutine runs. Never of a call: nobody has
to call anything, to unlock, to send, or to set a deadline. In addition:

- `Mutex`, `FdMutex`: weak fairness of "somebody acquires a token of this semaphore", as
  `Semaphore` promises and `Sema` is shown to deliver. It is promised for
  the root as a whole, which is one address in these modules' use. With several
  addresses in a root, the runtime's lock being unfair, a goroutine may be passed over
  at the root's lock for ever; nothing is promised to a single goroutine.
- `FdMutex`: I/O may block for ever, but not on an evicted descriptor, since then the
  poller returns an error (that is `Netpoll`'s `WaitEnds`).
- `Netpoll`: timers fire and somebody calls `netpoll` again and again, the scheduler's
  `findrunnable` and `sysmon`; not that input arrives.
- `Cond` gets no fairness of `c.L`, as a client may keep it; `ReleasersReturn` holds
  without it.

`Chan`, `Scheduler`, `RunQueue`, `Collector` and `SqlPool` are checked for safety, without
fairness. Where something must go on they say so as an invariant about who will see to it:
no cycle of goroutines that wait for each other's channel locks (`NoLockCycle`), a parked
goroutine's channel is not ready (`ParkedMeansNotReady`), somebody who looks at the queue
or the requests (`WorkAttended`, `NobodyStranded`), a worker or a gcMarkDone on its way,
and helpers in `getfull` that all wait only when all may leave (`NotStuck`).

What is not promised, because the code does not: that a given goroutine gets a
`sync.Mutex`, a semaphore's token or a channel's lock. This release has no starvation mode
and no hand-off.

## 5. Findings

**"It's safe for concurrent use by multiple goroutines"** (`database/sql/sql.go:213-214`, of
DB), run `sql_pool_close`. `Close` answers the requests that wait by closing their channels
(`sql.go:533-535`) and leaves them in `db.connRequests`. TLC's counterexample, with a limit of
1, is `Call`, `ConnOpen`, `Call`, `ConnRequest`, `Close`, `OpenFailed`: a client is in
`driver.Open`, another waits, and the DB is closed; when the open fails the first calls
`maybeOpenNewConnections`, which still finds a request and room under the limit and sends to
the closed `openerCh` (`sql.go:719-722`), which panics. `finalClose` of a connection may do the
same; and `putConnDBLocked` sends a connection that comes back after the Close to the closed
channel of the request (`sql.go:927-940`). All other properties of
`SqlPool` are stated for as long as nothing has panicked.

Observations that no run states:

- **`Broadcast wakes all goroutines waiting on c`** (`sync/cond.go:77`). Broadcast takes the
  count of waiters and posts so many releases to the syncSema; a waiter that has counted
  itself but has not queued yet must come and fetch its release (`runtime/sema.go:207`). A
  goroutine whose Wait began after the Broadcast may come first and take it; the older
  waiter parks, and after Broadcast has returned and no release is left it is still
  asleep. No wakeup is lost (`WakeupsCounted`), but it went to somebody else.
- **"they imply a moment between the two when the channel was both not yet closed and not
  ready for sending"** (`runtime/chan.go:145-148`). A non-blocking send reads `c.closed` and
  then, on an unbuffered channel, `c.recvq.first`. A close between the two releases the
  receiver that was parked there: first the channel was open with a receiver waiting, then
  closed, and the send gives up. The argument holds for a buffered channel, and the one
  about receives (`chan.go:387-398`) holds altogether (`RecvGivesUpRightly`).
- **"guarantees eventual maximal CPU parallelism utilization"** (`runtime/proc.go:72`).
  `Scheduler` states this as `FullyUsed`, which is no invariant. A goroutine that yields is
  put into the global queue, and nobody is woken, though a P may be idle. And in `startm` a
  thread that has raised `nmspinning` and finds no idle P lowers it again
  (`proc.go:1574-1581`); between the two another P may become idle and another goroutine be
  made ready, by a thread that wakes nobody because `nmspinning` is not 0 (seen with three
  Ps, three threads and four goroutines). The work is done as soon as some thread comes
  round (`WorkAttended`), so it is not lost.
- A client on its last try asks `conn` for a new connection and at the limit waits even
  while there are idle connections, though `sql.go:767-769` says that a request is made when
  none is available; `NobodyStranded` makes an exception for it.
- `sql.go:712` subtracts `db.pendingOpens`, which DB does not declare in this tree. The
  module checks both readings, `pendingCounted`: that it is 0, or that it is the number of
  opens asked for and not done.
- `SetConnMaxLifetime` may send on the `cleanerCh` that Close has closed, and panic, as long
  as the cleaner has not run since (`sql.go:625-630`). `SqlPool` has the step, and with
  two lifetimes, where the second is the shorter, it violates `NeverPanics` as well;
  `sql_pool_close` has no lifetime but 0, and so shows the panic above.
- `chan.go:10` says that at least one of `sendq` and `recvq` is empty, which a select that
  both sends and receives on one unbuffered channel does not respect.
- `netpoll.go:77-79` says that stale notifications are detected by `seq`, which is
  compared for timers only, not for readiness; harmless, as a goroutine woken by a stale
  readiness tries its system call and waits again.
- A deadline so far away that `runtimeNano() + t.Sub(now)` overflows
  (`net/fd_poll_runtime.go:124`) comes out negative and is over at once: the I/O times out
  before its time. `TimeoutsHonest` takes the deadline as it was stored.
- An fdMutex waiter that is woken and then panics at the limit of 2^20 references wakes
  nobody after it.

## 6. Proofs

For any set of threads or goroutines, any number of spins and any counter width;
statements that count assume finitely many of what is counted: `IsFiniteSet(G)` for
`Mutex`, `FdMutex`, `NoMissedWakeup` and `RunQueue`, finitely many goroutines and
connections for `SqlPool`, finitely many Ps (`gomaxprocs` is a number) for `Collector`, and
finitely many threads, Ps and goroutines for `Scheduler`. The other
assumptions on constants are those the modules declare, which TLC evaluates in each
run: ranges (`MaxSpin \in Nat`, `Mask \in Nat \ {0}`, `NetpollAssumption`,
`LimitsAssumption`, `SizeAssumption`, `RingAssumption`, `BoundAssumption`), that the value
that stands for "none" is none of the others, and that the threads that call `netpoll` are
none of the parties with a role of their own (`PollersAssumption`). The theorems are about the same `Spec` that
TLC checks. Where a module is an instance in `SyncProofs`, its own assumptions are
hypotheses of the theorem (`RootNames`).

**FutexLock (in SyncProofs).** The inductive invariant is `TypeOK`, `OneHolder`, `NeverThrown`,
`SleepersMark` and `SleeperRemembered`. `SleeperRemembered` alone is not inductive: a
thread that returns from a futex call is responsible for the sleepers only
because its local `wait` says "sleeping", and that is what `SleepersMark` adds. Proved:
types, mutual exclusion and the throw of `unlock` dead, no sleeper forgotten, and
that every step is a step of `Lock` or none of its business.

**Sema (in SyncProofs).** The inductive invariant is `TypeOK`, `LockHeld`, `RootCounted` and
`WaitersParked`. `nwait` is written under the root's lock and read without it, so the proof
must know at each step how it relates to the queue: `RootCounted` says that they
differ by one exactly while somebody is between adding itself and queueing or leaving.
`NoMissedWakeup` then follows by counting, for each address, the tokens against the
goroutines that carry them (`TokensKnown`): a step that adds a token adds a carrier, and a
step that takes a carrier away either takes a token or finds nobody in the queue. What is
needed of a queue with removals in the middle is proved once. Proved: types, no
wakeup missed, and that every step is a step of `Semaphore` or none of its business.

**Mutex (in SyncProofs).** The inductive invariant is `TypeOK`, `OneHolder`, `WokenIsOne`,
`AwokeSawWoken` and `NobodyForgotten`. The panic "inconsistent mutex state" compares a
word loaded earlier; it is dead because a goroutine that is awoke loaded the word after
the woken bit was set for it and nobody else clears the bit: `AwokeSawWoken`, which
needs that the bit stands for one goroutine only, `WokenIsOne`, which in turn
needs `AwokeSawWoken` at the compare-and-swap that clears it. `WaitersCounted` is
proved on top by following how a step moves one goroutine between the counted
sets. Proved: types, exclusion, one wakeup at a time, the panic dead, no waiter
forgotten, waiters counted, refinement of `Lock`.

**Cond (in SyncProofs).** The inductive invariant is `TypeOK`, `ReadyFindsParked`, `Pairing`
and `Sums`. `Sums` is the count itself: those who wait are as many as `c.waiters` and the
wakeups that a Signal or Broadcast has taken off it and not delivered. A wakeup is the pair
of its releaser and a number, so that the releases one Broadcast owes, a set of
pairs, are counted by moving single pairs. `Pairing` says that the queue of the syncSema
holds only one kind of waiter at a time and that nobody is readied by two.
`syncsemrelease` wakes as many acquirers as its count and the queue allow
in one locked section, which the code loops over; that step (`CondRelease`) takes a prefix
of the queue, all distinct, and pairs it with the first wakeups of the releaser. Proved:
`WakeupsCounted`, with `ReadyFindsParked`.

**FdMutexProofs.** The inductive invariant is `TypeOK`, `OneHolder`,
`CloseKeepsReference` and `DestroyedOnce`, and with it `RefsCounted`. That
`destroy` runs once and late rests on three facts: once closed, nobody gets a new
reference, so a count of 0 stays 0 (`DestroyedOnce`); the count is the number of users
(`RefsCounted`), so that it is not 0 before the last is gone; and the closer keeps its own
reference until it has evicted the I/O (`CloseKeepsReference`). Proved: types, the counters
within their bits, one reader and one writer, references counted, the panics
of `Decref` and `RWUnlock` dead, the descriptor destroyed once and unused, waiters
counted.

**ChanProofs.** The inductive invariant is `TypeOK` and seven parts.

- `Calling`: what a call may be where, and that `selectdone` is set only for a select that waits.
- `Queued`: a queue holds each sudog once, of a case for this channel and direction, whose
  goroutine is claimed or parked.
- `Handoffs`: who is about to wake somebody has claimed him, alone, and he is parked.
- `Waiting`: conversely, who is parked and not claimed is in all the queues of his cases.
- `Unready`: for no channel where somebody unclaimed is parked has he a peer in the buffer or
  in the other queue.
- `Barred`: in the queues of a closed channel there are only the claimed, unless the close has
  yet to go through them.
- `Locks`: a select holds the locks of its channels up to where it is, and no others; a close
  holds its own as long as it goes through the queues.

`ParkedMeansNotReady` follows from `Unready`, `Barred` and `Waiting`. `Unready` needs `Waiting`
and `Queued` at each step that changes a buffer: a send into a buffer with room could make
a receiver ready, but a receiver that is parked and not claimed is in the queue, where
`dequeue` would have found it (`ClaimFacts`). So all that is in the queue is claimed, and
emptying it loses nobody. Most of the proof is about two kinds of step. A step that takes
sudogs out of queues (`Shrinks`) keeps all that is said of those it leaves, whoever was
claimed; a call that parks (`Joins`) adds its own sudogs to queues that hold no unclaimed ones
on the other side. A close shrinks the queues one sudog at a time; it is on until they are empty
(`ClosersGoOn`), and nobody parks at a closed channel. What a select has looked at when it
comes to a case (`Purged`) is ch with only queues of claimed sudogs emptied, whatever the order
it took.
`NoLockCycle` follows from `Locks` by going round: the holder of the lock that one select waits
for waits for a greater one, so of those that wait the one that waits for the greatest
waits for nobody in the ring. `CallsAssumption` says what the compiler emits: a call that
is no select has one case, close is neither in a select nor non-blocking.

For the fast path of a receive: between the two reads the channel has been open and not
ready at some moment since the first, or it is closed by now and the second read sees
that (`Calm`).

For the refinement the invariant is `RInv`: the above, and `Tells`, `Shut`, `Hands` and `RingOf`. They say
which result a call that is over has in which variable, that a call which waits has
none, and where the ring's indices are. A call takes effect when it is claimed, though it
learns so later: `Outcome` reads its result off whoever claimed it, so that to hand over the
value, to wake, and the third pass of a select are stutters. That the ring is a
queue is three lemmas about any ring, `RingSends`, `RingReceives` and `RingTurns` (a receive
from a full ring that takes a waiting sender's value into the same slot). `Frame` says what a
step by some goroutines leaves alone, and `Bystanders` that nobody else's outcome changes.
A sender and a receiver that meet settle two calls in one step of `ChanSpec`, `Meeting`; that the
buffer is empty, or full, when that happens is `ParkedMeansNotReady` once more.

Proved: types and tidy queues, one claim at a time, parked for good reason, no ring of
locks, the fast path, refinement of `ChanSpec`.

**NetpollProofs.** `TimeoutsHonest` is about timers that fire late: it holds because a
timer carries the `seq` of the SetDeadline that started it, and `Timers` says of each
timer, in the heap or on its way, which deadline it was started for when its number is
the current one. `Parties` says who may hold `pd.lock` and what it is about to unblock,
`Semaphores` that a word holds a goroutine only while it is parked in `netpollblock`, `Life`
in which order a descriptor is closed, unblocked and reused. `Watched`, `DataSeen` and
`ErrorSeen` follow an arrival, a close and a deadline to whoever has yet to announce it. Proved:
types, the throws dead and each goroutine made ready once and only when it is parked, no
deadline expired early, no wake-up missed. `seq` does not run over (`MaxSeq` bounds it).

**SchedulerProofs.** The inductive invariant says what the program counter says. `Shape`: which
of a P, a P it was given and a P to hand on, which goroutine and which return address a thread has
at each point of its program; `EmptyFor`: where it counts on its P's queue to be
empty, because it has looked and only the holder of a P puts anything there; `Owners`: that a
P's status tells who has it, if anybody; `Idle`: that Ps in the idle list have nothing to run
and threads in the other list sleep; `World`: that one thread stops the world, and
`stopwait` counts the Ps that have yet to stop; `Places`: that a goroutine is in one queue or with one
thread; and `SpinningCounted` and `Attended`. None of the four properties is inductive
without `Shape`: a P in a system call belongs to whoever wins the compare-and-swap of its
status, so that "one holder" depends on what each of the parties may still do with
it. Forty actions would make a long proof if each were taken against each conjunct. Most steps
have one of three forms: `Onward` (a thread goes on with the Ps it has),
`MovesKeep` (a goroutine moves between a thread and a queue), `Passes` (one P changes
hands); that these forms preserve the invariant is proved once. `startm` and `stopm`, which concern
two threads, stopping the world and starting it with another number of Ps
have lemmas of their own. Proved: types, `OnePlace`, `Stopped`, `NeverThrows`, `WorkAttended`.

**RunQueueProofs.** Slots and indices are read without a lock, so a thread acts on what may no
longer be so, and all hangs on what the compare-and-swap of the head still tells
it. The indices wrap, and comparing wrapped indices says little; the proof counts each
ring's from where they began (`s`). `BoundAssumption` keeps any ring from going around
(`Bound` counts what may have entered: one for each put, and `Len2 - 1` for each time a
goroutine came out), so that equal indices are the same position. Then, for one such
`s`: `RingOk`, between head and tail there are at most `Length` goroutines; `OwnerOk`, what
the owner read of its head can only be too low, so a ring it finds not full is not full, and
one it finds full was; `ThiefOk`, what a thief has copied is what is in the victim's ring
for as long as its head is where the thief has read it; and each goroutine has one
`Home`. That the steps of others preserve what a thread knows (`OthersOk`) is because
a step of any thread only moves heads and tails on and writes no slot between
them (`Advance`). The wrong copy that a thief may make meanwhile, or a tail that it reads
too late, is in the invariant too: it is not excluded, but the compare-and-swap fails.
Proved: types, `OnePlace`, `NeverThrows`, and `Fifo`, which follows from the invariant and
`Advance`.

**CollectorProofs.** The inductive invariant has twelve parts.

- `Phases`, `Barriers`, `Stacks`, `Rescans`: what Ps and goroutines may be doing in each
  phase, and which stacks have been scanned since they last changed.
- `Counted`: `nwait` and the busy workers add up to `nproc`; `Ending`: one worker at a time
  ends mark 1 or mark 2, when the others have stopped. Both rest on each other.
- `Jobs`: each root job below `markrootNext` was taken by one worker, and is
  done unless one has it in hand. So at the end each stack was scanned. A helper of mark
  termination that looks for no more jobs has seen that there are none.
- `Queued`: what is in a buffer or in a worker's hand is marked. `MarkingGoesOn`, the half of
  `NotStuck` about marking, is itself part; the half about `getfull` follows from `Counted`
  and `Jobs`.
- `Memory`: what goroutines, globals and barriers hold is `Safe`, allocated and not about to be
  swept, and `Safe` objects point to `Safe` ones.
- `Tricolor`: a marked object in no buffer points to what is marked or in a write barrier.

`NothingLost` is about reachability, which would seem to need induction along paths. It does
not: `ReachableFrom` is the least set that holds the roots and is closed under
pointers, so it is inside any set that is. While the sweep runs that set is `Safe`; at the
end of mark termination it is `marked`, closed by `Tricolor` when no buffer holds anything
and no barrier is under way, and holding the roots by `Jobs` and `Rescans`. The step into
the sweep then gives `Safe` its new meaning. Proved: types, nothing reachable lost,
no black object hiding a white one, marking never stuck, the throws dead.

**SqlPoolProofs.** The inductive invariant is `TypeOK`, `PanicsClosed`, `IdleBounded`, that
no goroutine is in the list of requests twice, and `Alive` as long as nothing has panicked.
`Alive` has five parts. `OwnedOnce`: a connection is in the idle list, in one request's
channel or with one goroutine. `Waiting`: the requests in the list are those of the
clients that wait with nothing in their channels. `Counted`: `numOpen` is the number
of connections that exist, of openings under way and of orders to the opener. `NotEmpty`: an open
DB with requests has something open or ordered, and so somebody who will come back.
`AtPlace`: which goroutine may hold what where. "As long as nothing has panicked" is needed:
the finding of section 5 is a panic under `db.mu` after which the counts need not be right.
Proved: types, and every property that `sql_pool` checks: `OneOwner`, `OpenCounted`, `RequestsAnswered`, `IdleBounded`,
`NobodyStranded`, `LimitKept`.

**With TLC only.** Everything about liveness, since fairness and ENABLED are beyond the
prover: the liveness halves of the refinements, `ReleasersReturn`, `CloseEvictsSleepers`,
`CloseDestroys`, `WaitEnds`. Every invariant and action property that a passing run
checks is proved, those of `Cond`, `FutexLock` and `Sema` as instances in `SyncProofs`
(`C!WakeupsCounted`, `F!SleeperRemembered`, `R!NoMissedWakeup`). Conversely some proved invariants are not among the
runs' properties, as a proof leaves a run nothing to say: the type invariants, `OneHolder`,
`RefsCounted`, `NeverInconsistent`, and `WaitersCounted` of `Mutex`.

**How the modules are written for this.** `Collector` defines reachability as the least closed
set, not by following pointers step by step, and `SqlPool` has the set of a connection's
`Owners`, `Netpoll` the set of modes that a party has yet to unblock, instead of lists: what
the code does with each does not depend on an order.

No operator is declared RECURSIVE; where the code loops over data the modules use
sets, functions and the folds of the community modules.

## 7. What is left out of the modelled parts

- Panics and throws that the properties show to be dead are not actions: an action
  that should panic is disabled, and a property says that the condition never holds
  (`NeverInconsistent`, `NeverThrows`, `RefsCounted` and `OneHolder`). `FutexLock` has
  the throw as a state. Panics a caller can bring about (send on a closed channel, close of a
  closed one, fdMutex at its limit) are outcomes of a call.
- The one-shot notes of `lock_futex.go`; `m.locks` and the preemption request;
  `active_spin` and `passive_spin` as numbers (a thread may stop spinning whenever it
  has seen the lock taken).
- Channels: nil channels, a select without cases, `reflect`'s entry points, element types
  and sizes, the race detector. After a close wakes a select it loops with the
  `pollorder` of before; `Poll` chooses a new one, which allows more. `ChanSpec` does not
  promise that waiters are served in the order they came, though the queues do.
- `Cond`: the copy checker. A client's `c.L` is a Lock.
- `fdMutex`: what happens in the I/O between `RWLock` and `RWUnlock`. A goroutine that
  holds the read lock does not ask for the write lock before it gives it back.
- `Netpoll`: the cache of pollDescs beyond the reuse of one; `seq` running over; the
  memory of a dead timer; `epoll_ctl` failing. The assumption of one reader, one
  writer and one Close is `FdMutex`'s, as checked there.
- `Scheduler`: the queues are sets, so that any order of service is allowed; a look whether a
  P's queue is empty is one step; a thread that polls without blocking, the collector's
  workers, goroutines locked to a thread, cgo, sysmon's deep sleep, preemption requests and
  safe-point functions. No thread is created beyond the constant `M`, where the code
  always can: a `startm` that finds none waits.
- `RunQueue`: the order in the global queue, and the shuffling of the race detector's build.
- `Collector`: an object has one field and its own span in the run; a buffer in
  `work.full` holds one pointer; assists, pacing, finalizers and other specials, forced
  collections, the checkmark mode, objects without pointers, the bitmap. Two frames stand
  for a stack, with one place for a stack barrier between them. `Init` is after the
  goroutines have run for a while. The mutator's moves between registers and its frame,
  calls and writes to globals are those of compiled code, which is outside the tree.
- `SqlPool`: statements and their dependencies on connections, transactions, rows; the order
  of idle connections; time. `maxOpen` is never 0, for then nobody waits.
- Memory: all atomics are sequentially consistent, as `runtime/internal/atomic` is on the
  supported machines; plain accesses are either under a lock or to words that one
  party alone changes at that time. The two lock-free reads of the channels' fast paths are
  modelled in program order, which `chan.go:387-398` asks of the compiler.

## 8. Plan

Done: the layers from the futex up to the poller, in this order: `Lock` and `FutexLock`,
`Semaphore` and `Sema`, `Mutex`, `Cond`, `ChanSpec` and `Chan`, `FdMutex`, `Netpoll`; then
`SqlPool`, `Scheduler`, `RunQueue`, `Collector`.

Next, in this order:

1. `RWMutex` and `WaitGroup` over `Semaphore`: readers and writers exclude each other, a
   waiting writer stops new readers, and `Wait` returns after the counter was 0.
2. `Timers` and `Sigqueue`: `timerproc`'s sleep against `addtimer`, the three-state
   hand-over of `sigsend` and `signal_recv`.
3. `Transport`: the idle pool and `persistConn`'s two loops.
