------------------------------ MODULE SqlPool ------------------------------
(***************************************************************************)
(* database/sql/sql.go: the pool of connections of a DB.                   *)
(*                                                                         *)
(* A client's operation gets a connection from conn, uses it, and gives it *)
(* back by putConn; when the driver says ErrBadConn it is tried again, at  *)
(* last with a new connection.  At the limit maxOpen a client waits with a *)
(* request.  One goroutine, connectionOpener, opens connections for        *)
(* requests; another, connectionCleaner, closes idle ones that are too     *)
(* old.  Everything about the pool happens under db.mu, a Mutex, and a     *)
(* section under it is one step.  driver.Open, the use of a connection and *)
(* its Close happen outside, and this is where the others come in between. *)
(*                                                                         *)
(* The order of idle connections, and what is sent over a connection, are  *)
(* left out: any idle connection may be chosen, and any use may end with   *)
(* success or ErrBadConn.  Time is left out too: with a lifetime set any   *)
(* connection may have expired.  maxOpen is never 0, for then nobody       *)
(* waits.                                                                  *)
(***************************************************************************)
EXTENDS Integers, FiniteSets, SequencesExt

CONSTANTS
  G,         \* client goroutines
  Conns,     \* driverConns, used again when nobody refers to them any more
  MaxOpens,  \* the arguments of SetMaxOpenConns
  MaxIdles,  \* the arguments of SetMaxIdleConns
  Lifetimes, \* the arguments of SetConnMaxLifetime
  Cleaner,   \* the goroutine connectionCleaner
  NoConn,    \* no connection
  MaxBadConnRetries,
  PendingReadings  \* see PendingOpens

ASSUME LimitsAssumption ==
  /\ MaxOpens \subseteq Nat \ {0} /\ MaxOpens # {}
  /\ MaxIdles \subseteq Int
  /\ Lifetimes \subseteq Nat
  /\ MaxBadConnRetries \in Nat
ASSUME NamesAssumption ==
  /\ Cleaner \notin G /\ NoConn \notin Conns
  /\ {"empty", "closed", "error"} \cap Conns = {}
ASSUME ReadingsAssumption == PendingReadings \subseteq BOOLEAN

VARIABLES
  freeConn,     \* the idle connections
  connRequests, \* who waits for a connection, in order; stays as it is in Close
  numOpen,      \* connections open, being opened, or asked of the opener
  openerCh,     \* how many tokens db.openerCh holds; closed once the DB is
  closed,       \* db.closed
  maxIdle, maxOpen, maxLifetime,
  cleanerCh,    \* "nil", or a channel that is "empty", "full" or "closed"
  panicked,     \* the program died of a send on a closed channel
  dc,           \* a driverConn: "none", "open", or "closed" but not finalClosed
  inUse,        \* its inUse
  pc,           \* where each goroutine is
  tries,        \* how often its operation met ErrBadConn
  conn,         \* the connection its operation uses
  lifetime,     \* maxLifetime when it made its request
  req,          \* the channel of its request: "empty", an answer, or "closed"
  todo,         \* connections it will call Close of
  fin,          \* connections it will call finalClose of
  bad,          \* it will return ErrBadConn
  arg,          \* the argument of its SetMaxOpenConns
  opener,       \* connectionOpener is in openNewConnection
  pendingCounted

settings == <<maxIdle, maxOpen, maxLifetime, pendingCounted>>
pool == <<freeConn, connRequests, numOpen, openerCh, closed, cleanerCh, panicked>>
conns == <<dc, inUse>>
locals == <<pc, tries, conn, lifetime, req, todo, fin, bad, arg, opener>>
vars == <<settings, pool, conns, locals>>

Goroutine == G \cup {Cleaner}
Answer == {"empty", "closed", "error"} \cup Conns

\* "out" of all calls; "call", about to call conn; then "waiting" for its request,
\* "opening" or "using" a connection; "closing" connections; "syncidle" between the
\* two halves of SetMaxOpenConns.  The cleaner is in "wait" or "closing".
PC == {"out", "call", "waiting", "opening", "using", "closing", "syncidle", "wait"}

TypeOK ==
  /\ freeConn \subseteq Conns
  /\ connRequests \in Seq(G)
  /\ numOpen \in Nat /\ openerCh \in Nat
  /\ closed \in BOOLEAN /\ panicked \in BOOLEAN
  /\ maxIdle \in Int /\ maxOpen \in Nat \ {0} /\ maxLifetime \in Nat
  /\ cleanerCh \in {"nil", "empty", "full", "closed"}
  /\ dc \in [Conns -> {"none", "open", "closed"}]
  /\ inUse \in [Conns -> BOOLEAN]
  /\ pc \in [Goroutine -> PC]
  /\ tries \in [G -> 0..MaxBadConnRetries]
  /\ conn \in [G -> Conns \cup {NoConn}]
  /\ lifetime \in [G -> Nat]
  /\ req \in [G -> Answer]
  /\ todo \in [Goroutine -> SUBSET Conns]
  /\ fin \in [Goroutine -> SUBSET Conns]
  /\ bad \in [Goroutine -> BOOLEAN]
  /\ arg \in [G -> MaxOpens \cup {0}]
  /\ opener \in BOOLEAN
  /\ pendingCounted \in BOOLEAN

Init ==
  /\ freeConn = {} /\ connRequests = <<>> /\ numOpen = 0 /\ openerCh = 0
  /\ closed = FALSE /\ panicked = FALSE /\ cleanerCh = "nil"
  /\ maxIdle = 0 /\ maxOpen \in MaxOpens /\ maxLifetime = 0
  /\ dc = [c \in Conns |-> "none"]
  /\ inUse = [c \in Conns |-> FALSE]
  /\ pc = [g \in Goroutine |-> IF g = Cleaner THEN "wait" ELSE "out"]
  /\ tries = [g \in G |-> 0]
  /\ conn = [g \in G |-> NoConn] /\ lifetime = [g \in G |-> 0]
  /\ req = [g \in G |-> "empty"]
  /\ todo = [g \in Goroutine |-> {}]
  /\ fin = [g \in Goroutine |-> {}]
  /\ bad = [g \in Goroutine |-> FALSE]
  /\ arg = [g \in G |-> 0]
  /\ opener = FALSE
  /\ pendingCounted \in PendingReadings

Goto(g, l) == pc' = [pc EXCEPT ![g] = l]
Smaller(a, b) == IF a < b THEN a ELSE b

-----------------------------------------------------------------------------
\* Helpers called with db.mu held.

MaxIdleConns(idle) == IF idle = 0 THEN 2 ELSE IF idle < 0 THEN 0 ELSE idle

\* maybeOpenNewConnections subtracts db.pendingOpens, a field that DB does not
\* declare.  Either it is nothing, since numOpen counts what is pending, or it is
\* the number of opens that are asked for and not done yet.
PendingOpens(busy) ==
  IF pendingCounted THEN openerCh + (IF busy THEN 1 ELSE 0) ELSE 0

\* Mutant: as many as there are requests, without a look at the limit.
ToOpenAll(n, requests, busy) == Len(requests) - PendingOpens(busy)

\* How many connections maybeOpenNewConnections asks for when n are open.
ToOpen(n, requests, busy) ==
  Smaller(Len(requests) - PendingOpens(busy), maxOpen - n)

\* maybeOpenNewConnections, called after numOpen became n.  The channel is closed
\* once the DB is, and the first send then panics.
MaybeOpenNewConnections(n, requests, busy) ==
  LET k == ToOpen(n, requests, busy) IN
  IF k <= 0 THEN numOpen' = n /\ UNCHANGED <<openerCh, panicked>>
  ELSE IF closed THEN numOpen' = n + 1 /\ panicked' = TRUE /\ UNCHANGED openerCh
  ELSE numOpen' = n + k /\ openerCh' = openerCh + k /\ UNCHANGED panicked

\* startCleanerLocked when n connections are open and the lifetime is d.
StartCleaner(n, d) ==
  cleanerCh' = IF d > 0 /\ n > 0 /\ cleanerCh = "nil" THEN "empty" ELSE cleanerCh

\* putConnDBLocked when n connections are open: whether it hands the answer a to the
\* first request, or keeps the connection.
AnswersRequest(n) == n <= maxOpen /\ connRequests # <<>>

\* Mutant: one connection too many.
KeepsIdleOneMore(n) ==
  /\ n <= maxOpen /\ connRequests = <<>>
  /\ ~closed /\ Cardinality(freeConn) <= MaxIdleConns(maxIdle)

KeepsIdle(n) ==
  /\ n <= maxOpen /\ connRequests = <<>>
  /\ ~closed /\ Cardinality(freeConn) < MaxIdleConns(maxIdle)

\* Mutant: the request stays in the list.
HandOverAndKeep(a) ==
  /\ req' = [req EXCEPT ![Head(connRequests)] = a]
  /\ UNCHANGED <<connRequests, panicked>>

\* The answer to the first request; Close has closed its channel, if it ran.
HandOver(a) ==
  LET g == Head(connRequests) IN
  /\ connRequests' = Tail(connRequests)
  /\ IF closed THEN panicked' = TRUE /\ UNCHANGED req
               ELSE req' = [req EXCEPT ![g] = a] /\ UNCHANGED panicked

\* putConnDBLocked(c, nil): satisfied by a request, or by the idle pool, or not.
PutConnDB(c) ==
  \/ /\ AnswersRequest(numOpen)
     /\ HandOver(c)
     /\ inUse' = [inUse EXCEPT ![c] = TRUE]
     /\ UNCHANGED <<freeConn, cleanerCh>>
  \/ /\ KeepsIdle(numOpen)
     /\ freeConn' = freeConn \cup {c}
     /\ inUse' = [inUse EXCEPT ![c] = FALSE]
     /\ StartCleaner(numOpen, maxLifetime)
     /\ UNCHANGED <<connRequests, req, panicked>>

Added == AnswersRequest(numOpen) \/ KeepsIdle(numOpen)

-----------------------------------------------------------------------------
\* conn

\* A client starts an operation: Begin, Exec, Query, Prepare, Ping.
Call(g) ==
  /\ pc[g] = "out" /\ Goto(g, "call")
  /\ UNCHANGED <<settings, pool, conns, tries, conn, req, todo, fin, bad, arg, opener,
                 lifetime>>

AlwaysNewConn(g) == tries[g] = MaxBadConnRetries

\* The operation returns to its caller.
Return(g) == Goto(g, "out") /\ tries' = [tries EXCEPT ![g] = 0]

ConnClosed(g) ==
  /\ pc[g] = "call" /\ closed
  /\ Return(g)
  /\ UNCHANGED <<settings, pool, conns, conn, req, todo, fin, bad, arg, opener, lifetime>>

\* ErrBadConn: the operation is tried again, at last with a new connection.
TryAgain(g) ==
  \/ ~AlwaysNewConn(g) /\ tries' = [tries EXCEPT ![g] = @ + 1] /\ Goto(g, "call")
  \/ AlwaysNewConn(g) /\ Return(g)

\* It gets c, or finds that c has lived longer than d, closes it and returns ErrBadConn.
Got(g, c, d) ==
  \/ /\ Goto(g, "using")
     /\ conn' = [conn EXCEPT ![g] = c]
     /\ UNCHANGED <<todo, bad>>
  \/ /\ d > 0
     /\ Goto(g, "closing")
     /\ todo' = [todo EXCEPT ![g] = {c}]
     /\ bad' = [bad EXCEPT ![g] = TRUE]
     /\ UNCHANGED conn

\* Mutant: the list is not shortened by the connection taken.
ConnFreeLeaves(g) ==
  /\ pc[g] = "call" /\ ~closed /\ ~AlwaysNewConn(g)
  /\ \E c \in freeConn :
       /\ inUse' = [inUse EXCEPT ![c] = TRUE]
       /\ Got(g, c, maxLifetime)
  /\ UNCHANGED <<settings, pool, dc, tries, req, fin, arg, opener, lifetime>>

ConnFree(g) ==
  /\ pc[g] = "call" /\ ~closed /\ ~AlwaysNewConn(g)
  /\ \E c \in freeConn :
       /\ freeConn' = freeConn \ {c}
       /\ inUse' = [inUse EXCEPT ![c] = TRUE]
       /\ Got(g, c, maxLifetime)
  /\ UNCHANGED <<settings, connRequests, numOpen, openerCh, closed, cleanerCh, panicked,
                 dc, tries, req, fin, arg, opener, lifetime>>

NoneFree(g) == freeConn = {} \/ AlwaysNewConn(g)

ConnRequest(g) ==
  /\ pc[g] = "call" /\ ~closed /\ NoneFree(g) /\ numOpen >= maxOpen
  /\ connRequests' = Append(connRequests, g)
  /\ req' = [req EXCEPT ![g] = "empty"]
  /\ lifetime' = [lifetime EXCEPT ![g] = maxLifetime]
  /\ Goto(g, "waiting")
  /\ UNCHANGED <<settings, freeConn, numOpen, openerCh, closed, cleanerCh, panicked,
                 conns, tries, conn, todo, fin, bad, arg, opener>>

\* The receive from the request's channel.  An error is one of driver.Open, which may
\* be ErrBadConn.  The model resets the lifetime when it is dead.
ConnAnswered(g) ==
  /\ pc[g] = "waiting" /\ req[g] # "empty"
  /\ req' = [req EXCEPT ![g] = "empty"]
  /\ lifetime' = [lifetime EXCEPT ![g] = 0]
  /\ \/ req[g] \in {"closed", "error"} /\ Return(g) /\ UNCHANGED <<conn, todo, bad>>
     \/ req[g] = "error" /\ TryAgain(g) /\ UNCHANGED <<conn, todo, bad>>
     \/ req[g] \in Conns /\ Got(g, req[g], lifetime[g]) /\ UNCHANGED tries
  /\ UNCHANGED <<settings, pool, conns, fin, arg, opener>>

ConnOpen(g) ==
  /\ pc[g] = "call" /\ ~closed /\ NoneFree(g) /\ numOpen < maxOpen
  /\ numOpen' = numOpen + 1
  /\ Goto(g, "opening")
  /\ UNCHANGED <<settings, freeConn, connRequests, openerCh, closed, cleanerCh, panicked,
                 conns, tries, conn, req, todo, fin, bad, arg, opener, lifetime>>

\* driver.Open returned: an error, which may be ErrBadConn, or a connection.
OpenFailed(g) ==
  /\ pc[g] = "opening"
  /\ MaybeOpenNewConnections(numOpen - 1, connRequests, opener)
  /\ Return(g) \/ TryAgain(g)
  /\ UNCHANGED <<settings, freeConn, connRequests, closed, cleanerCh, conns, conn, req,
                 todo, fin, bad, arg, opener, lifetime>>

Opened(g) ==
  /\ pc[g] = "opening"
  /\ \E c \in Conns :
       /\ dc[c] = "none"
       /\ dc' = [dc EXCEPT ![c] = "open"]
       /\ inUse' = [inUse EXCEPT ![c] = TRUE]
       /\ conn' = [conn EXCEPT ![g] = c]
  /\ Goto(g, "using")
  /\ UNCHANGED <<settings, pool, tries, req, todo, fin, bad, arg, opener, lifetime>>

-----------------------------------------------------------------------------
\* putConn

\* The driver said ErrBadConn: the connection is closed, the operation tried again.
PutBad(g) ==
  /\ pc[g] = "using" /\ inUse[conn[g]]
  /\ inUse' = [inUse EXCEPT ![conn[g]] = FALSE]
  /\ MaybeOpenNewConnections(numOpen, connRequests, opener)
  /\ todo' = [todo EXCEPT ![g] = {conn[g]}]
  /\ bad' = [bad EXCEPT ![g] = TRUE]
  /\ conn' = [conn EXCEPT ![g] = NoConn]
  /\ Goto(g, "closing")
  /\ UNCHANGED <<settings, freeConn, connRequests, closed, cleanerCh, dc, tries, req, fin,
                 arg, opener, lifetime>>

PutConn(g) ==
  /\ pc[g] = "using" /\ inUse[conn[g]]
  /\ conn' = [conn EXCEPT ![g] = NoConn]
  /\ \/ /\ PutConnDB(conn[g])
        /\ Return(g)
        /\ UNCHANGED todo
     \/ /\ ~Added
        /\ inUse' = [inUse EXCEPT ![conn[g]] = FALSE]
        /\ todo' = [todo EXCEPT ![g] = {conn[g]}]
        /\ Goto(g, "closing")
        /\ UNCHANGED <<freeConn, connRequests, cleanerCh, panicked, req, tries>>
  /\ UNCHANGED <<settings, numOpen, openerCh, closed, dc, fin, bad, arg, opener,
                 lifetime>>

-----------------------------------------------------------------------------
\* driverConn.Close and finalClose, and what their callers do next

\* Close of a connection that somebody else has closed returns an error.
CloseConn(g, c) ==
  /\ pc[g] = "closing" /\ c \in todo[g] /\ fin[g] = {}
  /\ todo' = [todo EXCEPT ![g] = @ \ {c}]
  /\ IF dc[c] = "open" THEN /\ dc' = [dc EXCEPT ![c] = "closed"]
                            /\ fin' = [fin EXCEPT ![g] = @ \cup {c}]
                       ELSE UNCHANGED <<dc, fin>>
  /\ UNCHANGED <<settings, pool, inUse, pc, tries, conn, req, bad, arg, opener, lifetime>>

\* Mutant: nobody opens a connection in the place of the one closed.
FinalCloseOnly(g, c) ==
  /\ pc[g] = "closing" /\ c \in fin[g]
  /\ fin' = [fin EXCEPT ![g] = @ \ {c}]
  /\ dc' = [dc EXCEPT ![c] = "none"]
  /\ inUse' = [inUse EXCEPT ![c] = FALSE]
  /\ numOpen' = numOpen - 1
  /\ UNCHANGED <<settings, freeConn, connRequests, openerCh, closed, cleanerCh, panicked,
                 pc, tries, conn, req, todo, bad, arg, opener, lifetime>>

FinalClose(g, c) ==
  /\ pc[g] = "closing" /\ c \in fin[g]
  /\ fin' = [fin EXCEPT ![g] = @ \ {c}]
  /\ dc' = [dc EXCEPT ![c] = "none"]
  /\ inUse' = [inUse EXCEPT ![c] = FALSE]
  /\ MaybeOpenNewConnections(numOpen - 1, connRequests, opener)
  /\ UNCHANGED <<settings, freeConn, connRequests, closed, cleanerCh, pc, tries, conn,
                 req, todo, bad, arg, opener, lifetime>>

\* All closed: the cleaner goes on waiting, a client returns, or tries again.  Ping
\* returns ErrBadConn, too.
CloseReturns(g) ==
  /\ pc[g] = "closing" /\ todo[g] = {} /\ fin[g] = {}
  /\ bad' = [bad EXCEPT ![g] = FALSE]
  /\ \/ g = Cleaner /\ Goto(g, "wait") /\ UNCHANGED tries
     \/ g \in G /\ Return(g)
     \/ g \in G /\ bad[g] /\ TryAgain(g)
  /\ UNCHANGED <<settings, pool, conns, conn, req, todo, fin, arg, opener, lifetime>>

-----------------------------------------------------------------------------
\* connectionOpener

\* It receives a token; what is left in a closed channel is still received.
OpenerReceive ==
  /\ ~opener /\ openerCh > 0
  /\ openerCh' = openerCh - 1 /\ opener' = TRUE
  /\ UNCHANGED <<settings, freeConn, connRequests, numOpen, closed, cleanerCh, panicked,
                 conns, pc, tries, conn, req, todo, fin, bad, arg, lifetime>>

\* openNewConnection, after driver.Open: the DB was closed meanwhile,
OpenerClosed ==
  /\ opener /\ closed /\ opener' = FALSE
  /\ numOpen' = numOpen - 1
  /\ UNCHANGED <<settings, freeConn, connRequests, openerCh, closed, cleanerCh, panicked,
                 conns, pc, tries, conn, req, todo, fin, bad, arg, lifetime>>

\* Mutant of the next: the failed open stays counted.
OpenerFailedCounted ==
  /\ opener /\ ~closed /\ opener' = FALSE
  /\ IF AnswersRequest(numOpen)
       THEN /\ connRequests' = Tail(connRequests)
            /\ req' = [req EXCEPT ![Head(connRequests)] = "error"]
       ELSE UNCHANGED <<connRequests, req>>
  /\ MaybeOpenNewConnections(numOpen, connRequests', FALSE)
  /\ UNCHANGED <<settings, freeConn, closed, cleanerCh, conns, pc, tries, conn, todo, fin,
                 bad, arg, lifetime>>

\* or there is an error, which a request gets as its answer,
OpenerFailed ==
  LET n == numOpen - 1 IN
  /\ opener /\ ~closed /\ opener' = FALSE
  /\ IF AnswersRequest(n)
       THEN /\ connRequests' = Tail(connRequests)
            /\ req' = [req EXCEPT ![Head(connRequests)] = "error"]
       ELSE UNCHANGED <<connRequests, req>>
  /\ MaybeOpenNewConnections(n, connRequests', FALSE)
  /\ UNCHANGED <<settings, freeConn, closed, cleanerCh, conns, pc, tries, conn, todo, fin,
                 bad, arg, lifetime>>

\* or a connection, for a request, or to keep, or not needed.
OpenerOpened ==
  /\ opener /\ ~closed /\ opener' = FALSE
  /\ \/ \E c \in Conns :
          /\ dc[c] = "none"
          /\ PutConnDB(c)
          /\ dc' = [dc EXCEPT ![c] = "open"]
          /\ UNCHANGED numOpen
     \/ /\ ~Added
        /\ numOpen' = numOpen - 1
        /\ UNCHANGED <<dc, freeConn, connRequests, cleanerCh, panicked, req, inUse>>
  /\ UNCHANGED <<settings, openerCh, closed, pc, tries, conn, todo, fin, bad, arg,
                 lifetime>>

-----------------------------------------------------------------------------
\* Close and the settings

\* DB.Close: the requests are answered but stay in connRequests.
Close(g) ==
  /\ pc[g] = "out" /\ ~closed /\ closed' = TRUE
  /\ cleanerCh' = IF cleanerCh = "nil" THEN "nil" ELSE "closed"
  /\ fin' = [fin EXCEPT ![g] = {c \in freeConn : dc[c] = "open"}]
  /\ dc' = [c \in Conns |-> IF c \in freeConn THEN "closed" ELSE dc[c]]
  /\ freeConn' = {}
  /\ req' = [h \in G |-> IF h \in ToSet(connRequests) THEN "closed" ELSE req[h]]
  /\ Goto(g, "closing")
  /\ UNCHANGED <<settings, connRequests, numOpen, openerCh, panicked, inUse, tries, conn,
                 todo, bad, arg, opener, lifetime>>

\* SetMaxIdleConns(n), of a goroutine in state l.
SetIdle(g, l, n) ==
  LET set == IF n > 0 THEN n ELSE -1
      idle == IF MaxIdleConns(set) > maxOpen THEN maxOpen ELSE set IN
  /\ pc[g] = l
  /\ maxIdle' = idle
  /\ \E over \in SUBSET freeConn :
       /\ Cardinality(freeConn \ over) = Smaller(Cardinality(freeConn), MaxIdleConns(idle))
       /\ freeConn' = freeConn \ over
       /\ todo' = [todo EXCEPT ![g] = over]
  /\ arg' = [arg EXCEPT ![g] = 0]
  /\ Goto(g, "closing")
  /\ UNCHANGED <<maxOpen, maxLifetime, pendingCounted, connRequests, numOpen, openerCh,
                 closed, cleanerCh, panicked, conns, tries, conn, req, fin, bad, opener,
                 lifetime>>

SetMaxIdleConns(g) == \E n \in MaxIdles : SetIdle(g, "out", n)

\* SetMaxOpenConns(n), and its call of SetMaxIdleConns(n).  Nobody who waits is told.
SetMaxOpenConns(g) ==
  /\ pc[g] = "out"
  /\ \E n \in MaxOpens :
       /\ maxOpen' = n
       /\ \/ /\ MaxIdleConns(maxIdle) > n
             /\ arg' = [arg EXCEPT ![g] = n]
             /\ Goto(g, "syncidle")
          \/ MaxIdleConns(maxIdle) <= n /\ UNCHANGED <<arg, pc>>
  /\ UNCHANGED <<maxIdle, maxLifetime, pendingCounted, pool, conns, tries, conn, req, todo,
                 fin, bad, opener, lifetime>>

SyncMaxIdle(g) == SetIdle(g, "syncidle", arg[g])

\* SetConnMaxLifetime(d): a shorter lifetime wakes the cleaner.
SetConnMaxLifetime(g) ==
  /\ pc[g] = "out"
  /\ \E d \in Lifetimes :
       /\ maxLifetime' = d
       /\ LET wakes == d > 0 /\ d < maxLifetime IN
          /\ panicked' = (wakes /\ cleanerCh = "closed")
          /\ \/ wakes /\ cleanerCh \in {"empty", "full"} /\ cleanerCh' = "full"
             \/ ~(wakes /\ cleanerCh \in {"empty", "full"}) /\ StartCleaner(numOpen, d)
  /\ UNCHANGED <<maxIdle, maxOpen, pendingCounted, freeConn, connRequests, numOpen, openerCh,
                 closed, conns, locals>>

-----------------------------------------------------------------------------
\* connectionCleaner, which runs while cleanerCh is not nil

\* The timer fires at any time; or a token, or the close, wakes it.
CleanerWakes ==
  /\ pc[Cleaner] = "wait" /\ cleanerCh # "nil"
  /\ \/ /\ closed \/ numOpen = 0 \/ maxLifetime = 0
        /\ cleanerCh' = "nil"
        /\ UNCHANGED <<freeConn, todo, pc>>
     \/ /\ ~closed /\ numOpen > 0 /\ maxLifetime > 0
        /\ cleanerCh' \in {cleanerCh, "empty"}
        /\ \E expired \in SUBSET freeConn :
             /\ freeConn' = freeConn \ expired
             /\ todo' = [todo EXCEPT ![Cleaner] = expired]
        /\ Goto(Cleaner, "closing")
  /\ UNCHANGED <<settings, connRequests, numOpen, openerCh, closed, panicked, conns, tries,
                 conn, req, fin, bad, arg, opener, lifetime>>

-----------------------------------------------------------------------------
Closing(g) == CloseReturns(g) \/ \E c \in Conns : CloseConn(g, c) \/ FinalClose(g, c)

\* What a client does by itself once it has called; it returns its connections.
Step(g) ==
  \/ ConnClosed(g) \/ ConnFree(g) \/ ConnRequest(g) \/ ConnAnswered(g)
  \/ ConnOpen(g) \/ OpenFailed(g) \/ Opened(g)
  \/ PutBad(g) \/ PutConn(g) \/ SyncMaxIdle(g) \/ Closing(g)

Opener == OpenerReceive \/ OpenerClosed \/ OpenerFailed \/ OpenerOpened

Calls(g) ==
  \/ Call(g) \/ Close(g)
  \/ SetMaxIdleConns(g) \/ SetMaxOpenConns(g) \/ SetConnMaxLifetime(g)

Next ==
  /\ ~panicked
  /\ \/ \E g \in G : Step(g) \/ Calls(g)
     \/ Opener \/ CleanerWakes \/ Closing(Cleaner)

Spec == Init /\ [][Next]_vars

-----------------------------------------------------------------------------
\* Who has the connection c, each with what it has it for.
Owners(c) ==
  {<<"idle", d>> : d \in freeConn \cap {c}}
    \cup {<<"answer", g>> : g \in {h \in G : req[h] = c}}
    \cup {<<"use", g>> : g \in {h \in G : conn[h] = c}}
    \cup {<<"close", g>> : g \in {h \in Goroutine : c \in todo[h] \cup fin[h]}}

\* OneOwner: a connection is idle, or the answer to one request, or one goroutine uses
\* it, or one closes it: never two of these (conn, putConnDBLocked, Close, the cleaner
\* and SetMaxIdleConns all take connections from the same list).  It is marked inUse
\* when it should be, so that putConn does not panic, and Close finds it open.
OneOwner ==
  /\ TypeOK
  /\ panicked \/ \A c \in Conns :
       /\ IF dc[c] = "none" THEN Owners(c) = {} ELSE \E o \in Owners(c) : Owners(c) = {o}
       /\ (\E g \in G : c \in {req[g], conn[g]}) => inUse[c] /\ dc[c] = "open"
       /\ c \in freeConn => ~inUse[c] /\ dc[c] = "open"
       /\ \A g \in Goroutine : c \in todo[g] => dc[c] = "open"

\* OpenCounted: numOpen is the number of connections that exist or are being opened by
\* a client or the opener, or that the opener has been asked for; whatever fails, and
\* however a connection ends, it is counted once.
OpenCounted ==
  panicked \/
    numOpen = Cardinality({c \in Conns : dc[c] # "none"}) + openerCh
                + Cardinality({g \in G : pc[g] = "opening"}) + (IF opener THEN 1 ELSE 0)

\* RequestsAnswered: who waits is in connRequests once with nothing in its channel, or
\* has its answer and is not in connRequests; Close answers all.  So no request is lost,
\* and the send to its channel of capacity 1, made under db.mu, does not block.
RequestsAnswered ==
  /\ IsInjective(connRequests)
  /\ panicked \/ \A g \in G :
       /\ pc[g] # "waiting" => req[g] = "empty"
       /\ (pc[g] = "waiting" /\ req[g] # "closed") =>
            (req[g] = "empty" <=> g \in ToSet(connRequests))
       /\ closed => ~(pc[g] = "waiting" /\ req[g] = "empty")

\* NobodyStranded: while a request waits, some connection is open or being opened, and
\* somebody will give one back, close one, or open one, and look at the requests then;
\* or the connections are idle and the request is one for a new connection only.  (The
\* pool was at its limit when the request was made; the limit may be higher by now.)
NobodyStranded ==
  (connRequests # <<>> /\ ~closed) =>
    /\ numOpen > 0
    /\ \/ openerCh > 0 \/ opener
       \/ \E g \in G : pc[g] \in {"using", "opening"} \/ req[g] \in Conns
       \/ \E g \in Goroutine : todo[g] \cup fin[g] # {}
       \/ freeConn # {} /\ \A g \in ToSet(connRequests) : AlwaysNewConn(g)

\* IdleBounded: no more idle connections are kept than allowed, whatever SetMaxIdleConns,
\* putConn and the opener do at the same time; none beside a request that would take it;
\* and none once the DB is closed, so that with OneOwner somebody will close each.
IdleBounded ==
  /\ Cardinality(freeConn) <= MaxIdleConns(maxIdle)
  /\ freeConn # {} => \A g \in ToSet(connRequests) : AlwaysNewConn(g)
  /\ closed => freeConn = {}

\* LimitKept: a connection is opened, or asked of the opener, below the limit only.
LimitKept == [][numOpen' > numOpen => numOpen' <= maxOpen']_vars

\* NeverPanics: a DB is "safe for concurrent use by multiple goroutines", Close included;
\* but the requests that Close has answered stay in connRequests, and the next connection
\* that is returned is sent to the first of them, or a new one asked of the opener.
NeverPanics == ~panicked
=============================================================================
