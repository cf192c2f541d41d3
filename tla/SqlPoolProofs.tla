---------------------------- MODULE SqlPoolProofs ----------------------------
(***************************************************************************)
(* What MCSqlPool checks for three clients and two connections, proved for *)
(* any finite number of both, any limits, lifetimes and number of retries: *)
(* each connection has one owner and is counted once, every request gets   *)
(* its answer from somebody, and the limits are kept.                      *)
(***************************************************************************)
EXTENDS SqlPool, FiniteSetTheorems, SequenceTheorems, TLAPS

\* Goroutines hold connections only where the code says they do.
AtPlace ==
  /\ \A g \in G : /\ conn[g] # NoConn <=> pc[g] = "using"
                  /\ pc[g] # "waiting" => req[g] = "empty"
  /\ \A g \in Goroutine : pc[g] # "closing" => todo[g] = {} /\ fin[g] = {}
  /\ pc[Cleaner] \in {"wait", "closing"}
  /\ \A g \in G : pc[g] # "wait"

\* g has c, as an answer, to use it, or to close it.
Has(g, c) == (g \in G /\ c \in {conn[g], req[g]}) \/ c \in todo[g] \cup fin[g]

\* c is idle, or one goroutine has it, or it does not exist; finalClose is due once
\* Close has marked it closed.
OwnedOnce(c) ==
  /\ c \in freeConn => dc[c] = "open" /\ ~inUse[c] /\ \A g \in Goroutine : ~Has(g, c)
  /\ \A g \in G : c \in {conn[g], req[g]} => dc[c] = "open" /\ inUse[c]
  /\ \A g \in Goroutine : /\ c \in todo[g] => dc[c] = "open"
                          /\ c \in fin[g] => dc[c] = "closed"
  /\ \A g, h \in Goroutine : Has(g, c) /\ Has(h, c) => g = h
  /\ dc[c] # "none" => c \in freeConn \/ \E g \in Goroutine : Has(g, c)

\* While the DB is open the requests are exactly those of the clients that wait with
\* nothing in their channels; when it is closed each of these has its answer.
Waiting ==
  /\ ~closed => /\ \A g \in ToSet(connRequests) : pc[g] = "waiting"
                /\ \A g \in G : req[g] # "closed"
  /\ \A g \in G : pc[g] = "waiting" /\ req[g] # "closed" =>
                    (req[g] = "empty" <=> g \in ToSet(connRequests))
  /\ closed => \A g \in G : ~(pc[g] = "waiting" /\ req[g] = "empty")

Existing == {c \in Conns : dc[c] # "none"}
OpeningNow == {g \in G : pc[g] = "opening"}
Counted == numOpen = Cardinality(Existing) + openerCh + Cardinality(OpeningNow)
                       + (IF opener THEN 1 ELSE 0)

\* A request waits for one of the connections there are, or are to be.
NotEmpty == connRequests # <<>> /\ ~closed => numOpen > 0

\* Only what sends to a channel that Close has closed panics.
PanicsClosed == (panicked => closed) /\ (cleanerCh = "closed" => closed)

\* What holds until the program dies.
Alive == AtPlace /\ (\A c \in Conns : OwnedOnce(c)) /\ Waiting /\ Counted /\ NotEmpty

IInv == /\ TypeOK /\ PanicsClosed /\ IdleBounded /\ IsInjective(connRequests)
        /\ panicked \/ Alive

-----------------------------------------------------------------------------
\* The next step as one of its actions; the lemmas about steps split on it.
LEMMA Steps ==
  ASSUME [Next]_vars
  PROVE  \/ UNCHANGED vars
         \/ /\ ~panicked
            /\ \/ \E g \in G : Call(g) \/ ConnClosed(g) \/ ConnFree(g) \/ ConnRequest(g)
               \/ \E g \in G : ConnAnswered(g) \/ ConnOpen(g) \/ OpenFailed(g) \/ Opened(g)
               \/ \E g \in G : PutBad(g) \/ PutConn(g) \/ Close(g)
               \/ \E g \in G : SetMaxIdleConns(g) \/ SyncMaxIdle(g) \/ SetMaxOpenConns(g)
               \/ \E g \in G : SetConnMaxLifetime(g)
               \/ \E g \in Goroutine, c \in Conns : CloseConn(g, c) \/ FinalClose(g, c)
               \/ \E g \in Goroutine : CloseReturns(g)
               \/ OpenerReceive \/ OpenerClosed \/ OpenerFailed \/ OpenerOpened
               \/ CleanerWakes
  BY DEF Next, Step, Calls, Opener, Closing, Goroutine

\* The list of requests, when the first is answered and when one is added.
LEMMA Popped ==
  ASSUME NEW S, NEW q \in Seq(S), q # <<>>, IsInjective(q)
  PROVE  /\ Head(q) \in S /\ Head(q) \in ToSet(q)
         /\ Tail(q) \in Seq(S) /\ IsInjective(Tail(q))
         /\ ToSet(Tail(q)) = ToSet(q) \ {Head(q)}
<1>1. Len(q) \in Nat \ {0} /\ DOMAIN q = 1..Len(q) /\ Head(q) = q[1] /\ Head(q) \in S
  BY EmptySeq, LenProperties, HeadTailProperties
<1>2. /\ Tail(q) \in Seq(S) /\ DOMAIN Tail(q) = 1..Len(q) - 1
      /\ \A i \in 1..Len(q) - 1 : Tail(q)[i] = q[i + 1]
  <2>1. Tail(q) \in Seq(S) /\ Len(Tail(q)) = Len(q) - 1
        /\ \A i \in 1..Len(Tail(q)) : Tail(q)[i] = q[i + 1]
    BY HeadTailProperties
  <2>. QED BY <2>1, LenProperties
<1>3. Head(q) \in ToSet(q)
  BY <1>1 DEF ToSet
<1>4. IsInjective(Tail(q))
  BY <1>1, <1>2 DEF IsInjective
<1>5. ASSUME NEW x \in ToSet(Tail(q)) PROVE x \in ToSet(q) \ {Head(q)}
  <2>1. PICK i \in 1..Len(q) - 1 : x = q[i + 1]
    BY <1>2 DEF ToSet
  <2>2. i + 1 \in DOMAIN q /\ i + 1 # 1 /\ 1 \in DOMAIN q
    BY <1>1
  <2>. QED BY <1>1, <2>1, <2>2 DEF ToSet, IsInjective
<1>6. ASSUME NEW x \in ToSet(q), x # Head(q) PROVE x \in ToSet(Tail(q))
  <2>1. PICK i \in 1..Len(q) : x = q[i]
    BY <1>1 DEF ToSet
  <2>2. i - 1 \in 1..Len(q) - 1 /\ Tail(q)[i - 1] = q[i]
    BY <1>1, <1>2, <1>6, <2>1
  <2>. QED BY <1>2, <2>1, <2>2 DEF ToSet
<1>. QED BY <1>1, <1>2, <1>3, <1>4, <1>5, <1>6

LEMMA Pushed ==
  ASSUME NEW S, NEW q \in Seq(S), NEW x \in S, x \notin ToSet(q), IsInjective(q)
  PROVE  /\ Append(q, x) \in Seq(S) /\ IsInjective(Append(q, x))
         /\ ToSet(Append(q, x)) = ToSet(q) \cup {x}
<1>1. Len(q) \in Nat /\ DOMAIN q = 1..Len(q)
  BY LenProperties
<1>2. /\ Append(q, x) \in Seq(S) /\ DOMAIN Append(q, x) = 1..Len(q) + 1
      /\ \A i \in 1..Len(q) : Append(q, x)[i] = q[i]
      /\ Append(q, x)[Len(q) + 1] = x
  BY AppendProperties, LenProperties
<1>3. \A i \in 1..Len(q) + 1 : i \in 1..Len(q) \/ i = Len(q) + 1
  BY <1>1
<1>4. \A i \in 1..Len(q) : q[i] # x
  BY <1>1 DEF ToSet
<1>. QED BY <1>1, <1>2, <1>3, <1>4 DEF ToSet, IsInjective

LEMMA Listed ==
  ASSUME NEW S, NEW q \in Seq(S)
  PROVE  /\ Len(q) \in Nat /\ (q = <<>> <=> Len(q) = 0)
         /\ ToSet(q) \subseteq S /\ (q = <<>> <=> ToSet(q) = {})
<1>1. Len(q) \in Nat /\ DOMAIN q = 1..Len(q) /\ \A i \in 1..Len(q) : q[i] \in S
  BY LenProperties, ElementOfSeq
<1>2. q = <<>> <=> Len(q) = 0
  BY <1>1, EmptySeq
<1>3. ToSet(q) \subseteq S
  BY <1>1 DEF ToSet
<1>4. Len(q) # 0 => q[1] \in ToSet(q)
  BY <1>1 DEF ToSet
<1>5. Len(q) = 0 => ToSet(q) = {}
  BY <1>1 DEF ToSet
<1>. QED BY <1>1, <1>2, <1>3, <1>4, <1>5

\* maybeOpenNewConnections counts what it asks for and stays below the limit; it asks
\* when a request waits and nothing is asked for yet, and panics only after Close.
LEMMA Asked ==
  ASSUME TypeOK, ~panicked, NEW n \in Nat, NEW r \in Seq(G), NEW busy \in BOOLEAN,
         MaybeOpenNewConnections(n, r, busy)
  PROVE  /\ numOpen' \in Nat /\ openerCh' \in Nat /\ panicked' \in BOOLEAN
         /\ numOpen' >= n /\ (numOpen' > n => numOpen' <= maxOpen)
         /\ panicked' => closed
         /\ ~panicked' => numOpen' - n = openerCh' - openerCh
         /\ r # <<>> /\ openerCh = 0 /\ ~busy => numOpen' > 0
<1>. DEFINE pending == PendingOpens(busy)
            k == ToOpen(n, r, busy)
<1>1. /\ openerCh \in Nat /\ maxOpen \in Nat \ {0} /\ Len(r) \in Nat
      /\ r # <<>> => Len(r) > 0
  BY Listed DEF TypeOK
<1>2. pending \in Nat /\ (openerCh = 0 /\ ~busy => pending = 0)
  BY <1>1 DEF PendingOpens
<1>3. k = IF Len(r) - pending < maxOpen - n THEN Len(r) - pending ELSE maxOpen - n
  BY DEF ToOpen, Smaller
<1>4. \/ k <= 0 /\ numOpen' = n /\ openerCh' = openerCh /\ panicked' = panicked
      \/ k > 0 /\ closed /\ numOpen' = n + 1 /\ panicked' = TRUE /\ openerCh' = openerCh
      \/ k > 0 /\ numOpen' = n + k /\ openerCh' = openerCh + k /\ panicked' = panicked
  <2>1. k \in Int /\ (k <= 0 \/ k > 0)
    BY <1>1, <1>2, <1>3
  <2>2. IF k <= 0 THEN numOpen' = n /\ UNCHANGED <<openerCh, panicked>>
        ELSE IF closed THEN numOpen' = n + 1 /\ panicked' = TRUE /\ UNCHANGED openerCh
        ELSE numOpen' = n + k /\ openerCh' = openerCh + k /\ UNCHANGED panicked
    BY DEF MaybeOpenNewConnections
  <2>. HIDE DEF k
  <2>. QED BY <2>1, <2>2
<1>5. k \in Int /\ panicked = FALSE
  BY <1>1, <1>2, <1>3 DEF TypeOK
<1>. HIDE DEF pending, k
<1>6. CASE k <= 0
  <2>1. numOpen' = n /\ openerCh' = openerCh /\ panicked' = FALSE
    BY <1>4, <1>5, <1>6
  <2>2. r # <<>> /\ openerCh = 0 /\ ~busy => n > 0
    BY <1>1, <1>2, <1>3, <1>6
  <2>3. ~panicked' /\ panicked' \in BOOLEAN
    BY <2>1
  <2>4. /\ numOpen' \in Nat /\ openerCh' \in Nat
        /\ ~(numOpen' > n) /\ numOpen' >= n /\ numOpen' - n = openerCh' - openerCh
        /\ r # <<>> /\ openerCh = 0 /\ ~busy => numOpen' > 0
    BY <1>1, <2>1, <2>2
  <2>. QED BY <2>3, <2>4
<1>7. CASE k > 0
  <2>1. \/ closed /\ numOpen' = n + 1 /\ panicked' = TRUE /\ openerCh' = openerCh
        \/ numOpen' = n + k /\ openerCh' = openerCh + k /\ panicked' = FALSE
    BY <1>4, <1>5, <1>7
  <2>2. k <= maxOpen - n
    BY <1>1, <1>2, <1>3, <1>5
  <2>3. panicked' \in BOOLEAN /\ (panicked' => closed)
    BY <2>1
  <2>4. /\ numOpen' \in Nat /\ openerCh' \in Nat
        /\ numOpen' >= n /\ numOpen' <= maxOpen /\ numOpen' > 0
    BY <1>1, <1>5, <1>7, <2>1, <2>2
  <2>5. CASE numOpen' = n + k /\ openerCh' = openerCh + k /\ panicked' = FALSE
    <3>1. numOpen' - n = openerCh' - openerCh
      BY <1>1, <1>5, <2>5
    <3>. QED BY <2>3, <2>4, <3>1
  <2>6. CASE closed /\ panicked' = TRUE
    BY <2>3, <2>4, <2>6
  <2>. QED BY <2>1, <2>5, <2>6
<1>. QED BY <1>5, <1>6, <1>7

\* Whoever opens, is asked to open, or exists is counted.
LEMMA Counts ==
  ASSUME IsFiniteSet(G), IsFiniteSet(Conns), IInv, ~panicked
  PROVE  /\ Cardinality(Existing) \in Nat /\ Cardinality(OpeningNow) \in Nat
         /\ IsFiniteSet(Existing) /\ IsFiniteSet(OpeningNow)
         /\ openerCh \in Nat /\ numOpen \in Nat
         /\ \A c \in Conns : dc[c] # "none" => numOpen >= 1 + openerCh
         /\ \A g \in G : pc[g] = "opening" => numOpen >= 1 + openerCh
         /\ opener => numOpen >= 1 + openerCh
<1>1. IsFiniteSet(Existing) /\ IsFiniteSet(OpeningNow)
  BY FS_Subset DEF Existing, OpeningNow
<1>2. Cardinality(Existing) \in Nat /\ Cardinality(OpeningNow) \in Nat
  BY <1>1, FS_CardinalityType
<1>3. /\ openerCh \in Nat
      /\ numOpen = Cardinality(Existing) + openerCh + Cardinality(OpeningNow)
                      + (IF opener THEN 1 ELSE 0)
  BY DEF IInv, Alive, Counted, TypeOK
<1>4. ASSUME NEW c \in Conns, dc[c] # "none" PROVE Cardinality(Existing) # 0
  BY <1>1, <1>4, FS_EmptySet DEF Existing
<1>5. ASSUME NEW g \in G, pc[g] = "opening" PROVE Cardinality(OpeningNow) # 0
  BY <1>1, <1>5, FS_EmptySet DEF OpeningNow
<1>. QED BY <1>1, <1>2, <1>3, <1>4, <1>5

-----------------------------------------------------------------------------
\* maybeOpenNewConnections, when the place of something that is counted is given back.
LEMMA GivenBack ==
  ASSUME IsFiniteSet(G), IsFiniteSet(Conns), IInv, ~panicked, NEW r \in Seq(G),
         NEW busy \in BOOLEAN, NEW n \in {numOpen, numOpen - 1}, n \in Nat,
         MaybeOpenNewConnections(n, r, busy)
  PROVE  /\ numOpen' \in Nat /\ openerCh' \in Nat /\ panicked' \in BOOLEAN
         /\ numOpen' > numOpen => numOpen' <= maxOpen
         /\ panicked' => closed
         /\ ~panicked' => numOpen' - n = openerCh' - openerCh
         /\ r # <<>> /\ openerCh = 0 /\ ~busy => numOpen' > 0
         /\ n > 0 => numOpen' > 0
<1>1. TypeOK /\ numOpen \in Nat
  BY Counts DEF IInv
<1>2. /\ numOpen' \in Nat /\ openerCh' \in Nat /\ panicked' \in BOOLEAN
      /\ numOpen' >= n /\ (numOpen' > n => numOpen' <= maxOpen)
      /\ panicked' => closed
      /\ ~panicked' => numOpen' - n = openerCh' - openerCh
      /\ r # <<>> /\ openerCh = 0 /\ ~busy => numOpen' > 0
  BY <1>1, Asked
<1>3. numOpen' > numOpen => numOpen' <= maxOpen
  BY <1>1, <1>2
<1>4. n > 0 => numOpen' > 0
  BY <1>1, <1>2
<1>. QED BY <1>2, <1>3, <1>4

\* putConnDBLocked: the first request gets c, or the idle list; or the program dies.
LEMMA PutAway ==
  ASSUME IInv, ~panicked, NEW c \in Conns, PutConnDB(c)
  PROVE  /\ freeConn' \subseteq Conns /\ connRequests' \in Seq(G) /\ panicked' \in BOOLEAN
         /\ cleanerCh' \in {"nil", "empty", "full", "closed"}
         /\ req' \in [G -> Answer] /\ inUse' \in [Conns -> BOOLEAN]
         /\ IsInjective(connRequests') /\ (panicked' => closed)
         /\ cleanerCh' = "closed" => cleanerCh = "closed"
         /\ \/ panicked' /\ UNCHANGED freeConn /\ ToSet(connRequests') \subseteq ToSet(connRequests)
            \/ /\ ~panicked' /\ ~closed
               /\ \E g \in ToSet(connRequests) :
                    /\ g \in G
                    /\ req' = [req EXCEPT ![g] = c] /\ UNCHANGED freeConn
                    /\ ToSet(connRequests') = ToSet(connRequests) \ {g}
                    /\ inUse' = [inUse EXCEPT ![c] = TRUE]
            \/ /\ ~panicked' /\ ~closed /\ connRequests = <<>>
               /\ freeConn' = freeConn \cup {c} /\ UNCHANGED <<connRequests, req>>
               /\ inUse' = [inUse EXCEPT ![c] = FALSE]
               /\ Cardinality(freeConn) < MaxIdleConns(maxIdle)
<1>. DEFINE h == Head(connRequests)
<1>0. TypeOK /\ IsInjective(connRequests) /\ connRequests \in Seq(G)
  BY DEF IInv, TypeOK
<1>1. CASE /\ AnswersRequest(numOpen) /\ HandOver(c)
           /\ inUse' = [inUse EXCEPT ![c] = TRUE] /\ UNCHANGED <<freeConn, cleanerCh>>
  <2>1. /\ connRequests' = Tail(connRequests) /\ connRequests # <<>>
        /\ IF closed THEN panicked' = TRUE /\ UNCHANGED req
           ELSE req' = [req EXCEPT ![h] = c] /\ UNCHANGED panicked
    BY <1>1 DEF HandOver, AnswersRequest
  <2>2. /\ h \in G /\ h \in ToSet(connRequests) /\ Tail(connRequests) \in Seq(G)
        /\ IsInjective(Tail(connRequests))
        /\ ToSet(Tail(connRequests)) = ToSet(connRequests) \ {h}
    BY <1>0, <2>1, Popped
  <2>. HIDE DEF h
  <2>3. req' \in [G -> Answer] /\ inUse' \in [Conns -> BOOLEAN]
    BY <1>0, <1>1, <2>1, <2>2 DEF TypeOK, Answer
  <2>4. CASE closed
    BY <1>0, <1>1, <2>1, <2>2, <2>3, <2>4 DEF TypeOK
  <2>5. CASE ~closed
    BY <1>0, <1>1, <2>1, <2>2, <2>3, <2>5 DEF TypeOK
  <2>. QED BY <2>4, <2>5
<1>2. CASE /\ KeepsIdle(numOpen) /\ freeConn' = freeConn \cup {c}
           /\ inUse' = [inUse EXCEPT ![c] = FALSE]
           /\ StartCleaner(numOpen, maxLifetime) /\ UNCHANGED <<connRequests, req, panicked>>
  BY <1>0, <1>2 DEF TypeOK, StartCleaner, KeepsIdle
<1>. QED BY <1>1, <1>2 DEF PutConnDB

LEMMA NextTypeOK ==
  ASSUME IsFiniteSet(G), IsFiniteSet(Conns), IInv, [Next]_vars
  PROVE  TypeOK'
<1>. USE DEF Goto, PC, Goroutine, Return, settings, pool, conns, locals
<1>0. TypeOK /\ (~panicked => AtPlace)
  BY DEF IInv, Alive
<1>. 0 \in 0..MaxBadConnRetries /\ MaxBadConnRetries \in Nat
  BY LimitsAssumption
<1>1. CASE UNCHANGED vars
  BY <1>0, <1>1 DEF vars, TypeOK
<1>2. ASSUME ~panicked, NEW g \in G, NEW c \in Conns, NEW d, Got(g, c, d) PROVE
        /\ pc' \in [Goroutine -> PC] /\ conn' \in [G -> Conns \cup {NoConn}]
        /\ todo' \in [Goroutine -> SUBSET Conns] /\ bad' \in [Goroutine -> BOOLEAN]
  <2>1. CASE Goto(g, "using") /\ conn' = [conn EXCEPT ![g] = c] /\ UNCHANGED <<todo, bad>>
    BY <1>0, <2>1 DEF TypeOK
  <2>2. CASE /\ Goto(g, "closing") /\ UNCHANGED conn
             /\ todo' = [todo EXCEPT ![g] = {c}] /\ bad' = [bad EXCEPT ![g] = TRUE]
    BY <1>0, <2>2 DEF TypeOK
  <2>. QED BY <1>2, <2>1, <2>2 DEF Got
<1>3. ASSUME ~panicked, NEW g \in G, Call(g) \/ ConnClosed(g) PROVE TypeOK'
  <2>1. CASE Call(g)
    BY <1>0, <2>1 DEF TypeOK, Call
  <2>2. CASE ConnClosed(g)
    BY <1>0, <2>2 DEF TypeOK, ConnClosed
  <2>. QED BY <1>3, <2>1, <2>2
<1>4. ASSUME ~panicked, NEW g \in G, ConnFree(g) PROVE TypeOK'
  <2>1. PICK c \in freeConn : /\ freeConn' = freeConn \ {c}
                              /\ inUse' = [inUse EXCEPT ![c] = TRUE]
                              /\ Got(g, c, maxLifetime)
    BY <1>4 DEF ConnFree
  <2>2. c \in Conns
    BY <1>0 DEF TypeOK
  <2>. QED BY <1>0, <1>2, <1>4, <2>1, <2>2 DEF TypeOK, ConnFree
\* An operation that ends, or is tried again.
<1>25. ASSUME NEW g \in G, Return(g) \/ TryAgain(g)
       PROVE  tries' \in [G -> 0..MaxBadConnRetries] /\ pc' \in [Goroutine -> PC]
  <2>1. CASE Return(g)
    BY <1>0, <2>1 DEF TypeOK
  <2>2. CASE ~AlwaysNewConn(g) /\ tries' = [tries EXCEPT ![g] = @ + 1] /\ Goto(g, "call")
    <3>1. tries[g] \in 0..MaxBadConnRetries /\ tries[g] # MaxBadConnRetries
      BY <1>0, <2>2 DEF TypeOK, AlwaysNewConn
    <3>2. tries[g] + 1 \in 0..MaxBadConnRetries
      BY <3>1
    <3>. QED BY <1>0, <2>2, <3>2 DEF TypeOK
  <2>. QED BY <1>25, <2>1, <2>2 DEF TryAgain
<1>5. ASSUME ~panicked, NEW g \in G, ConnRequest(g) PROVE TypeOK'
  <2>1. connRequests' \in Seq(G)
    BY <1>0, <1>5, AppendProperties DEF TypeOK, ConnRequest
  <2>. QED BY <1>0, <1>5, <2>1 DEF TypeOK, ConnRequest, Answer
<1>6. ASSUME ~panicked, NEW g \in G, ConnAnswered(g) PROVE TypeOK'
  <2>1. CASE (Return(g) \/ TryAgain(g)) /\ UNCHANGED <<conn, todo, bad>>
    <3>1. tries' \in [G -> 0..MaxBadConnRetries] /\ pc' \in [Goroutine -> PC]
      BY <1>25, <2>1
    <3>. QED BY <1>0, <1>6, <2>1, <3>1 DEF TypeOK, ConnAnswered, Answer
  <2>2. CASE req[g] \in Conns /\ Got(g, req[g], lifetime[g]) /\ UNCHANGED tries
    BY <1>0, <1>2, <1>6, <2>2 DEF TypeOK, ConnAnswered, Answer
  <2>. QED BY <1>6, <2>1, <2>2 DEF ConnAnswered
<1>7. ASSUME ~panicked, NEW g \in G, ConnOpen(g) PROVE TypeOK'
  BY <1>0, <1>7 DEF TypeOK, ConnOpen
<1>8. ASSUME ~panicked, NEW g \in G, OpenFailed(g) PROVE TypeOK'
  <2>1. numOpen - 1 \in Nat /\ connRequests \in Seq(G) /\ opener \in BOOLEAN
    BY <1>0, <1>8, Counts DEF TypeOK, OpenFailed
  <2>2. numOpen' \in Nat /\ openerCh' \in Nat /\ panicked' \in BOOLEAN
    BY <1>8, <2>1, GivenBack DEF OpenFailed
  <2>3. tries' \in [G -> 0..MaxBadConnRetries] /\ pc' \in [Goroutine -> PC]
    BY <1>8, <1>25 DEF OpenFailed
  <2>. QED BY <1>0, <1>8, <2>2, <2>3 DEF TypeOK, OpenFailed
<1>9. ASSUME ~panicked, NEW g \in G, Opened(g) PROVE TypeOK'
  BY <1>0, <1>9 DEF TypeOK, Opened
<1>10. ASSUME ~panicked, NEW g \in G, PutBad(g) PROVE TypeOK'
  <2>1. conn[g] \in Conns
    BY <1>0, <1>10 DEF TypeOK, PutBad, AtPlace
  <2>2. numOpen \in Nat /\ connRequests \in Seq(G) /\ opener \in BOOLEAN
    BY <1>0 DEF TypeOK
  <2>3. numOpen' \in Nat /\ openerCh' \in Nat /\ panicked' \in BOOLEAN
    BY <1>10, <2>2, GivenBack DEF PutBad
  <2>. QED BY <1>0, <1>10, <2>1, <2>3 DEF TypeOK, PutBad
<1>11. ASSUME ~panicked, NEW g \in G, PutConn(g) PROVE TypeOK'
  <2>1. conn[g] \in Conns
    BY <1>0, <1>11 DEF TypeOK, PutConn, AtPlace
  <2>2. CASE PutConnDB(conn[g]) /\ Return(g) /\ UNCHANGED todo
    <3>1. PICK c \in Conns : c = conn[g] /\ PutConnDB(c)
      BY <2>1, <2>2
    <3>2. /\ freeConn' \subseteq Conns /\ connRequests' \in Seq(G) /\ panicked' \in BOOLEAN
          /\ cleanerCh' \in {"nil", "empty", "full", "closed"}
          /\ req' \in [G -> Answer] /\ inUse' \in [Conns -> BOOLEAN]
      BY <1>11, <3>1, PutAway
    <3>3. /\ conn' = [conn EXCEPT ![g] = NoConn] /\ Return(g) /\ UNCHANGED todo
          /\ UNCHANGED <<settings, numOpen, openerCh, closed, dc, fin, bad, arg, opener, lifetime>>
      BY <1>11, <2>2 DEF PutConn
    <3>. QED BY <1>0, <3>2, <3>3 DEF TypeOK
  <2>3. CASE ~Added
    <3>1. ~PutConnDB(conn[g])
      BY <2>3 DEF PutConnDB, Added
    <3>2. /\ inUse' = [inUse EXCEPT ![conn[g]] = FALSE]
          /\ todo' = [todo EXCEPT ![g] = {conn[g]}]
          /\ Goto(g, "closing") /\ conn' = [conn EXCEPT ![g] = NoConn]
          /\ UNCHANGED <<freeConn, connRequests, cleanerCh, panicked, req, tries>>
          /\ UNCHANGED <<settings, numOpen, openerCh, closed, dc, fin, bad, arg, opener, lifetime>>
      BY <1>11, <3>1 DEF PutConn
    <3>. QED BY <1>0, <2>1, <3>2 DEF TypeOK
  <2>. QED BY <1>11, <2>2, <2>3 DEF PutConn
<1>12. ASSUME ~panicked, NEW g \in G, Close(g) PROVE TypeOK'
  BY <1>0, <1>12 DEF TypeOK, Close, Answer
<1>13. ASSUME ~panicked, NEW g \in G, NEW l \in {"out", "syncidle"}, NEW n \in Int, SetIdle(g, l, n)
       PROVE TypeOK'
  <2>1. maxIdle' \in Int
    BY <1>0, <1>13 DEF TypeOK, SetIdle, MaxIdleConns
  <2>. QED BY <1>0, <1>13, <2>1 DEF TypeOK, SetIdle
<1>14. ASSUME ~panicked, NEW g \in G, SetMaxIdleConns(g) \/ SyncMaxIdle(g) PROVE TypeOK'
  <2>1. CASE SetMaxIdleConns(g)
    BY <1>13, <1>14, <2>1, LimitsAssumption DEF SetMaxIdleConns
  <2>2. CASE SyncMaxIdle(g)
    <3>1. arg[g] \in Int
      <4>1. arg[g] \in MaxOpens \cup {0}
        BY <1>0 DEF TypeOK
      <4>2. \A n \in MaxOpens : n \in Int
        BY LimitsAssumption
      <4>3. arg[g] \in MaxOpens \/ arg[g] = 0
        BY <4>1
      <4>. QED BY <4>2, <4>3
    <3>. QED BY <1>13, <1>14, <2>2, <3>1 DEF SyncMaxIdle
  <2>. QED BY <1>14, <2>1, <2>2
<1>15. ASSUME ~panicked, NEW g \in G, SetMaxOpenConns(g) PROVE TypeOK'
  <2>1. PICK n \in MaxOpens :
          /\ maxOpen' = n
          /\ \/ arg' = [arg EXCEPT ![g] = n] /\ Goto(g, "syncidle")
             \/ UNCHANGED <<arg, pc>>
    BY <1>15 DEF SetMaxOpenConns
  <2>2. maxOpen' \in Nat \ {0}
    BY <2>1, LimitsAssumption
  <2>3. arg' \in [G -> MaxOpens \cup {0}] /\ pc' \in [Goroutine -> PC]
    <3>1. CASE arg' = [arg EXCEPT ![g] = n] /\ Goto(g, "syncidle")
      BY <1>0, <3>1 DEF TypeOK
    <3>2. CASE UNCHANGED <<arg, pc>>
      BY <1>0, <3>2 DEF TypeOK
    <3>. QED BY <2>1, <3>1, <3>2
  <2>. QED BY <1>0, <1>15, <2>2, <2>3 DEF TypeOK, SetMaxOpenConns
<1>16. ASSUME ~panicked, NEW g \in G, SetConnMaxLifetime(g) PROVE TypeOK'
  BY <1>0, <1>16, LimitsAssumption DEF TypeOK, SetConnMaxLifetime, StartCleaner
<1>17. ASSUME ~panicked, NEW g \in Goroutine, NEW c \in Conns, CloseConn(g, c) PROVE TypeOK'
  <2>1. todo' \in [Goroutine -> SUBSET Conns]
    BY <1>0, <1>17 DEF TypeOK, CloseConn
  <2>2. fin' \in [Goroutine -> SUBSET Conns] /\ dc' \in [Conns -> {"none", "open", "closed"}]
    <3>1. CASE dc' = [dc EXCEPT ![c] = "closed"] /\ fin' = [fin EXCEPT ![g] = @ \cup {c}]
      BY <1>0, <3>1 DEF TypeOK
    <3>2. CASE UNCHANGED <<dc, fin>>
      BY <1>0, <3>2 DEF TypeOK
    <3>. QED BY <1>17, <3>1, <3>2 DEF CloseConn
  <2>. QED BY <1>0, <1>17, <2>1, <2>2 DEF TypeOK, CloseConn
<1>18. ASSUME ~panicked, NEW g \in Goroutine, NEW c \in Conns, FinalClose(g, c) PROVE TypeOK'
  <2>1. dc[c] = "closed"
    BY <1>18 DEF IInv, Alive, OwnedOnce, FinalClose
  <2>2. numOpen - 1 \in Nat /\ connRequests \in Seq(G) /\ opener \in BOOLEAN
    BY <1>0, <1>18, <2>1, Counts DEF TypeOK
  <2>3. numOpen' \in Nat /\ openerCh' \in Nat /\ panicked' \in BOOLEAN
    BY <1>18, <2>2, GivenBack DEF FinalClose
  <2>. QED BY <1>0, <1>18, <2>3 DEF TypeOK, FinalClose
<1>19. ASSUME ~panicked, NEW g \in Goroutine, CloseReturns(g) PROVE TypeOK'
  <2>1. tries' \in [G -> 0..MaxBadConnRetries] /\ pc' \in [Goroutine -> PC]
    <3>1. CASE g = Cleaner /\ Goto(g, "wait") /\ UNCHANGED tries
      BY <1>0, <3>1 DEF TypeOK
    <3>2. CASE g \in G /\ (Return(g) \/ TryAgain(g))
      BY <1>25, <3>2
    <3>. QED BY <1>19, <3>1, <3>2 DEF CloseReturns
  <2>2. bad' \in [Goroutine -> BOOLEAN]
    BY <1>0, <1>19 DEF TypeOK, CloseReturns
  <2>. QED BY <1>0, <1>19, <2>1, <2>2 DEF TypeOK, CloseReturns
<1>20. ASSUME ~panicked, OpenerReceive PROVE TypeOK'
  BY <1>0, <1>20 DEF TypeOK, OpenerReceive
<1>21. ASSUME ~panicked, OpenerClosed PROVE TypeOK'
  <2>1. numOpen - 1 \in Nat
    BY <1>21, Counts DEF OpenerClosed
  <2>. QED BY <1>0, <1>21, <2>1 DEF TypeOK, OpenerClosed
<1>22. ASSUME ~panicked, OpenerFailed PROVE TypeOK'
  <2>1. connRequests' \in Seq(G) /\ req' \in [G -> Answer]
    <3>1. CASE AnswersRequest(numOpen - 1)
      <4>1. Head(connRequests) \in G /\ Tail(connRequests) \in Seq(G)
        BY <1>0, <3>1, HeadTailProperties DEF TypeOK, AnswersRequest
      <4>. QED BY <1>0, <1>22, <3>1, <4>1 DEF TypeOK, OpenerFailed, Answer
    <3>2. CASE ~AnswersRequest(numOpen - 1)
      BY <1>0, <1>22, <3>2 DEF TypeOK, OpenerFailed
    <3>. QED BY <3>1, <3>2
  <2>2. numOpen - 1 \in Nat
    BY <1>22, Counts DEF OpenerFailed
  <2>3. MaybeOpenNewConnections(numOpen - 1, connRequests', FALSE)
    BY <1>22 DEF OpenerFailed
  <2>4. numOpen' \in Nat /\ openerCh' \in Nat /\ panicked' \in BOOLEAN
    BY <1>22, <2>1, <2>2, <2>3, GivenBack
  <2>. QED BY <1>0, <1>22, <2>1, <2>4 DEF TypeOK, OpenerFailed
<1>23. ASSUME ~panicked, OpenerOpened PROVE TypeOK'
  <2>1. ASSUME NEW c \in Conns, PutConnDB(c), dc' = [dc EXCEPT ![c] = "open"], UNCHANGED numOpen
        PROVE TypeOK'
    BY <1>0, <1>23, <2>1, PutAway DEF TypeOK, OpenerOpened
  <2>2. CASE ~Added
    <3>1. numOpen - 1 \in Nat
      BY <1>23, Counts DEF OpenerOpened
    <3>. QED BY <1>0, <1>23, <2>2, <3>1 DEF TypeOK, OpenerOpened, PutConnDB, Added
  <2>. QED BY <1>23, <2>1, <2>2 DEF OpenerOpened
<1>24. ASSUME ~panicked, CleanerWakes PROVE TypeOK'
  BY <1>0, <1>24 DEF TypeOK, CleanerWakes
<1>. QED
  BY <1>1, <1>3, <1>4, <1>5, <1>6, <1>7, <1>8, <1>9, <1>10, <1>11, <1>12, <1>14, <1>15, <1>16,
     <1>17, <1>18, <1>19, <1>20, <1>21, <1>22, <1>23, <1>24, Steps

\* AtPlace is about these variables only; Got and putConnDBLocked are shared.
LEMMA GotAtPlace ==
  ASSUME IInv, ~panicked, NEW g \in G, NEW c \in Conns, NEW d, Got(g, c, d), UNCHANGED fin,
         \/ pc[g] = "call" /\ req' = req
         \/ pc[g] = "waiting" /\ req' = [req EXCEPT ![g] = "empty"]
  PROVE  AtPlace'
<1>. USE DEF Goto, Goroutine
<1>0. TypeOK /\ AtPlace
  BY DEF IInv, Alive
<1>1. g # Cleaner /\ c # NoConn /\ g \in Goroutine
  BY NamesAssumption
<1>2. req'[g] = "empty" /\ \A h \in G : h # g => req'[h] = req[h]
  <2>1. CASE pc[g] = "call" /\ req' = req
    BY <1>0, <2>1 DEF TypeOK, AtPlace
  <2>2. CASE req' = [req EXCEPT ![g] = "empty"]
    BY <1>0, <2>2 DEF TypeOK
  <2>. QED BY <2>1, <2>2
<1>3. CASE Goto(g, "using") /\ conn' = [conn EXCEPT ![g] = c] /\ UNCHANGED <<todo, bad>>
  BY <1>0, <1>1, <1>2, <1>3 DEF TypeOK, AtPlace
<1>4. CASE /\ Goto(g, "closing") /\ UNCHANGED conn
           /\ todo' = [todo EXCEPT ![g] = {c}] /\ bad' = [bad EXCEPT ![g] = TRUE]
  BY <1>0, <1>1, <1>2, <1>4 DEF TypeOK, AtPlace
<1>. QED BY <1>3, <1>4 DEF Got

LEMMA NextAtPlace ==
  ASSUME IInv, [Next]_vars, ~panicked'
  PROVE  AtPlace'
<1>. USE DEF Goto, Goroutine, Return, settings, pool, conns, locals
<1>0. TypeOK /\ (~panicked => AtPlace /\ Waiting)
  BY DEF IInv, Alive
<1>. Cleaner \notin G /\ NoConn \notin Conns
  BY NamesAssumption
<1>1. CASE UNCHANGED vars
  BY <1>0, <1>1 DEF vars, AtPlace
<1>2. ASSUME ~panicked, NEW g \in G, NEW l \in {"out", "call", "opening", "syncidle"},
             pc' = pc \/ Goto(g, l), pc[g] \in {"out", "call", "opening"},
             UNCHANGED <<conn, req, todo, fin>>
      PROVE AtPlace'
  BY <1>0, <1>2 DEF TypeOK, AtPlace
<1>3. ASSUME ~panicked, NEW g \in G, Call(g) \/ ConnClosed(g) PROVE AtPlace'
  BY <1>2, <1>3 DEF Call, ConnClosed
<1>4. ASSUME ~panicked, NEW g \in G, ConnOpen(g) \/ OpenFailed(g) PROVE AtPlace'
  BY <1>2, <1>4 DEF ConnOpen, OpenFailed, TryAgain
<1>5. ASSUME ~panicked, NEW g \in G, SetMaxOpenConns(g) \/ SetConnMaxLifetime(g) PROVE AtPlace'
  <2>1. CASE SetMaxOpenConns(g)
    BY <1>2, <1>5, <2>1 DEF SetMaxOpenConns
  <2>2. CASE SetConnMaxLifetime(g)
    BY <1>0, <1>5, <2>2 DEF SetConnMaxLifetime, AtPlace
  <2>. QED BY <1>5, <2>1, <2>2
<1>6. ASSUME ~panicked, NEW g \in G, ConnFree(g) PROVE AtPlace'
  <2>1. PICK c \in freeConn : Got(g, c, maxLifetime)
    BY <1>6 DEF ConnFree
  <2>2. c \in Conns /\ pc[g] = "call" /\ fin' = fin /\ req' = req
    BY <1>0, <1>6 DEF TypeOK, ConnFree
  <2>. QED BY <1>6, <2>1, <2>2, GotAtPlace
<1>7. ASSUME ~panicked, NEW g \in G, ConnRequest(g) PROVE AtPlace'
  BY <1>0, <1>7 DEF TypeOK, AtPlace, ConnRequest
<1>8. ASSUME ~panicked, NEW g \in G, ConnAnswered(g) PROVE AtPlace'
  <2>1. pc[g] = "waiting" /\ req' = [req EXCEPT ![g] = "empty"] /\ UNCHANGED fin
    BY <1>8 DEF ConnAnswered
  <2>2. CASE (Return(g) \/ TryAgain(g)) /\ UNCHANGED <<conn, todo, bad>>
    <3>1. \E l \in {"out", "call"} : Goto(g, l)
      BY <2>2 DEF TryAgain
    <3>. QED BY <1>0, <1>8, <2>1, <2>2, <3>1 DEF TypeOK, AtPlace
  <2>3. CASE req[g] \in Conns /\ Got(g, req[g], lifetime[g])
    <3>1. PICK c \in Conns : Got(g, c, lifetime[g])
      BY <2>3
    <3>. QED BY <1>8, <2>1, <3>1, GotAtPlace
  <2>. QED BY <1>8, <2>2, <2>3 DEF ConnAnswered
<1>9. ASSUME ~panicked, NEW g \in G, Opened(g) PROVE AtPlace'
  <2>1. PICK c \in Conns : conn' = [conn EXCEPT ![g] = c]
    BY <1>9 DEF Opened
  <2>2. pc[g] = "opening" /\ Goto(g, "using") /\ UNCHANGED <<req, todo, fin>>
    BY <1>9 DEF Opened
  <2>. QED BY <1>0, <1>9, <2>1, <2>2 DEF TypeOK, AtPlace
<1>10. ASSUME ~panicked, NEW g \in G, PutBad(g) PROVE AtPlace'
  <2>1. /\ \E t : todo' = [todo EXCEPT ![g] = t]
        /\ pc[g] = "using" /\ Goto(g, "closing") /\ UNCHANGED <<req, fin>>
        /\ conn' = [conn EXCEPT ![g] = NoConn]
    BY <1>10 DEF PutBad
  <2>. QED BY <1>0, <1>10, <2>1 DEF TypeOK, AtPlace
<1>11. ASSUME ~panicked, NEW c \in Conns, PutConnDB(c)
       PROVE  \/ req' = req
              \/ \E h \in G : req' = [req EXCEPT ![h] = c] /\ pc[h] = "waiting"
  BY <1>0, <1>11, PutAway DEF Waiting
<1>12. ASSUME ~panicked, NEW g \in G, PutConn(g) PROVE AtPlace'
  <2>1. pc[g] = "using" /\ conn' = [conn EXCEPT ![g] = NoConn] /\ fin' = fin
    BY <1>12 DEF PutConn
  <2>2. CASE PutConnDB(conn[g]) /\ Return(g) /\ UNCHANGED todo
    <3>1. PICK c \in Conns : PutConnDB(c)
      BY <1>0, <1>12, <2>1, <2>2 DEF TypeOK, AtPlace
    <3>2. CASE req' = req
      BY <1>0, <1>12, <2>1, <2>2, <3>2 DEF TypeOK, AtPlace
    <3>3. ASSUME NEW h \in G, req' = [req EXCEPT ![h] = c], pc[h] = "waiting" PROVE AtPlace'
      BY <1>0, <1>12, <2>1, <2>2, <3>3 DEF TypeOK, AtPlace
    <3>. QED BY <1>11, <1>12, <3>1, <3>2, <3>3
  <2>3. CASE Goto(g, "closing") /\ req' = req /\ \E t : todo' = [todo EXCEPT ![g] = t]
    BY <1>0, <1>12, <2>1, <2>3 DEF TypeOK, AtPlace
  <2>. QED BY <1>12, <2>2, <2>3 DEF PutConn
<1>13. ASSUME ~panicked, NEW g \in G, Close(g) PROVE AtPlace'
  <2>1. /\ pc[g] = "out" /\ Goto(g, "closing") /\ UNCHANGED <<conn, todo>>
        /\ \E t : fin' = [fin EXCEPT ![g] = t]
        /\ req' = [h \in G |-> IF h \in ToSet(connRequests) THEN "closed" ELSE req[h]]
    BY <1>13 DEF Close
  <2>2. ~closed
    BY <1>13 DEF Close
  <2>3. \A h \in G : pc[h] # "waiting" => req'[h] = req[h]
    BY <1>0, <1>13, <2>1, <2>2 DEF Waiting
  <2>. QED BY <1>0, <1>13, <2>1, <2>3 DEF TypeOK, AtPlace
<1>14. ASSUME ~panicked, NEW g \in G, SetMaxIdleConns(g) \/ SyncMaxIdle(g) PROVE AtPlace'
  <2>1. /\ pc[g] \in {"out", "syncidle"} /\ Goto(g, "closing") /\ UNCHANGED <<conn, req, fin>>
        /\ \E t : todo' = [todo EXCEPT ![g] = t]
    BY <1>14 DEF SetMaxIdleConns, SyncMaxIdle, SetIdle
  <2>. QED BY <1>0, <1>14, <2>1 DEF TypeOK, AtPlace
<1>15. ASSUME ~panicked, NEW g \in Goroutine, NEW c \in Conns, CloseConn(g, c) \/ FinalClose(g, c)
       PROVE AtPlace'
  <2>1. /\ pc[g] = "closing" /\ UNCHANGED <<pc, conn, req>>
        /\ todo' = todo \/ \E t : todo' = [todo EXCEPT ![g] = t]
        /\ fin' = fin \/ \E t : fin' = [fin EXCEPT ![g] = t]
    BY <1>15 DEF CloseConn, FinalClose
  <2>2. \A h \in Goroutine : pc[h] # "closing" => todo'[h] = todo[h] /\ fin'[h] = fin[h]
    BY <1>0, <2>1 DEF TypeOK
  <2>. QED BY <1>0, <1>15, <2>1, <2>2 DEF AtPlace
<1>16. ASSUME ~panicked, NEW g \in Goroutine, CloseReturns(g) PROVE AtPlace'
  <2>1. /\ pc[g] = "closing" /\ todo[g] = {} /\ fin[g] = {} /\ UNCHANGED <<conn, req, todo, fin>>
        /\ \/ g = Cleaner /\ Goto(g, "wait")
           \/ g \in G /\ Goto(g, "call")
           \/ g \in G /\ Goto(g, "out")
    BY <1>16 DEF CloseReturns, TryAgain
  <2>. QED BY <1>0, <1>16, <2>1 DEF TypeOK, AtPlace
<1>17. ASSUME ~panicked, OpenerReceive \/ OpenerClosed PROVE AtPlace'
  BY <1>0, <1>17 DEF OpenerReceive, OpenerClosed, AtPlace
<1>18. ASSUME ~panicked, OpenerFailed PROVE AtPlace'
  <2>1. ~closed /\ UNCHANGED <<pc, conn, todo, fin>>
    BY <1>18 DEF OpenerFailed
  <2>2. CASE req' = req
    BY <1>0, <1>18, <2>1, <2>2 DEF AtPlace
  <2>3. CASE connRequests # <<>> /\ req' = [req EXCEPT ![Head(connRequests)] = "error"]
    <3>1. PICK h \in G : h = Head(connRequests) /\ h \in ToSet(connRequests)
      BY <2>3, Popped DEF IInv, TypeOK
    <3>2. pc[h] = "waiting"
      BY <1>0, <1>18, <2>1, <3>1 DEF Waiting
    <3>. QED BY <1>0, <1>18, <2>1, <2>3, <3>1, <3>2 DEF TypeOK, AtPlace
  <2>. QED BY <1>18, <2>2, <2>3 DEF OpenerFailed, AnswersRequest
<1>19. ASSUME ~panicked, OpenerOpened PROVE AtPlace'
  <2>1. UNCHANGED <<pc, conn, todo, fin>>
    BY <1>19 DEF OpenerOpened
  <2>2. CASE req' = req
    BY <1>0, <1>19, <2>1, <2>2 DEF AtPlace
  <2>3. ASSUME NEW h \in G, NEW c \in Conns, req' = [req EXCEPT ![h] = c], pc[h] = "waiting"
        PROVE AtPlace'
    BY <1>0, <1>19, <2>1, <2>3 DEF TypeOK, AtPlace
  <2>. QED BY <1>11, <1>19, <2>2, <2>3 DEF OpenerOpened
<1>20. ASSUME ~panicked, CleanerWakes PROVE AtPlace'
  <2>1. /\ UNCHANGED <<conn, req, fin>> /\ pc[Cleaner] = "wait"
        /\ \/ UNCHANGED <<pc, todo>>
           \/ Goto(Cleaner, "closing") /\ \E t : todo' = [todo EXCEPT ![Cleaner] = t]
    BY <1>20 DEF CleanerWakes
  <2>. QED BY <1>0, <1>20, <2>1 DEF TypeOK, AtPlace
<1>. QED
  BY <1>1, <1>3, <1>4, <1>5, <1>6, <1>7, <1>8, <1>9, <1>10, <1>12, <1>13, <1>14, <1>15, <1>16,
     <1>17, <1>18, <1>19, <1>20, Steps

LEMMA NextPanicsClosed ==
  ASSUME IsFiniteSet(G), IsFiniteSet(Conns), IInv, [Next]_vars
  PROVE  PanicsClosed' /\ IsInjective(connRequests')
<1>. USE DEF settings, pool, conns, locals
<1>0. TypeOK /\ PanicsClosed /\ IsInjective(connRequests)
  BY DEF IInv
<1>1. CASE UNCHANGED <<closed, cleanerCh, panicked, connRequests>>
  BY <1>0, <1>1 DEF PanicsClosed
<1>2. ASSUME ~panicked, NEW r \in Seq(G), NEW busy \in BOOLEAN, NEW n \in {numOpen, numOpen - 1},
             n \in Nat, MaybeOpenNewConnections(n, r, busy), UNCHANGED <<closed, cleanerCh>>
      PROVE  PanicsClosed'
  BY <1>0, <1>2, GivenBack DEF PanicsClosed
<1>3. ASSUME ~panicked, NEW g \in G, Call(g) \/ ConnClosed(g) \/ ConnFree(g) \/ ConnAnswered(g)
                                   \/ ConnOpen(g) \/ Opened(g)
      PROVE  UNCHANGED <<closed, cleanerCh, panicked, connRequests>>
  BY <1>3 DEF Call, ConnClosed, ConnFree, ConnAnswered, ConnOpen, Opened
<1>4. ASSUME ~panicked, NEW g \in G, SetMaxIdleConns(g) \/ SyncMaxIdle(g) \/ SetMaxOpenConns(g)
      PROVE  UNCHANGED <<closed, cleanerCh, panicked, connRequests>>
  BY <1>4 DEF SetMaxIdleConns, SyncMaxIdle, SetIdle, SetMaxOpenConns
<1>5. ASSUME ~panicked, NEW g \in G, ConnRequest(g)
      PROVE  PanicsClosed' /\ IsInjective(connRequests')
  <2>1. g \notin ToSet(connRequests) /\ connRequests \in Seq(G)
    BY <1>0, <1>5 DEF IInv, Alive, Waiting, TypeOK, ConnRequest
  <2>. QED BY <1>0, <1>5, <2>1, Pushed DEF PanicsClosed, ConnRequest
<1>6. ASSUME ~panicked, NEW g \in G, OpenFailed(g)
      PROVE  PanicsClosed' /\ IsInjective(connRequests')
  <2>1. numOpen - 1 \in Nat /\ connRequests \in Seq(G) /\ opener \in BOOLEAN
    BY <1>0, <1>6, Counts DEF TypeOK, OpenFailed
  <2>. QED BY <1>0, <1>2, <1>6, <2>1 DEF OpenFailed
<1>7. ASSUME ~panicked, NEW g \in G, PutBad(g)
      PROVE  PanicsClosed' /\ IsInjective(connRequests')
  <2>1. numOpen \in Nat /\ connRequests \in Seq(G) /\ opener \in BOOLEAN
    BY <1>0 DEF TypeOK
  <2>. QED BY <1>0, <1>2, <1>7, <2>1 DEF PutBad
<1>8. ASSUME ~panicked, NEW c \in Conns, PutConnDB(c), closed' = closed
      PROVE  PanicsClosed' /\ IsInjective(connRequests')
  BY <1>0, <1>8, PutAway DEF PanicsClosed
<1>9. ASSUME ~panicked, NEW g \in G, PutConn(g)
      PROVE  PanicsClosed' /\ IsInjective(connRequests')
  <2>1. conn[g] \in Conns
    BY <1>9 DEF IInv, Alive, TypeOK, PutConn, AtPlace
  <2>2. CASE PutConnDB(conn[g])
    <3>1. PICK c \in Conns : PutConnDB(c)
      BY <2>1, <2>2
    <3>. QED BY <1>8, <1>9, <3>1 DEF PutConn
  <2>3. CASE ~PutConnDB(conn[g])
    BY <1>1, <1>9, <2>3, <1>0 DEF PutConn
  <2>. QED BY <2>2, <2>3
<1>10. ASSUME ~panicked, NEW g \in G, Close(g)
       PROVE  PanicsClosed' /\ IsInjective(connRequests')
  BY <1>0, <1>10 DEF PanicsClosed, Close
<1>11. ASSUME ~panicked, NEW g \in G, SetConnMaxLifetime(g)
       PROVE  PanicsClosed' /\ IsInjective(connRequests')
  BY <1>0, <1>11 DEF PanicsClosed, SetConnMaxLifetime, StartCleaner
<1>12. ASSUME ~panicked, NEW g \in Goroutine, NEW c \in Conns, FinalClose(g, c)
       PROVE  PanicsClosed' /\ IsInjective(connRequests')
  <2>1. dc[c] = "closed"
    BY <1>12 DEF IInv, Alive, OwnedOnce, FinalClose
  <2>2. numOpen - 1 \in Nat /\ connRequests \in Seq(G) /\ opener \in BOOLEAN
    BY <1>0, <1>12, <2>1, Counts DEF TypeOK
  <2>. QED BY <1>0, <1>2, <1>12, <2>2 DEF FinalClose
<1>13. ASSUME ~panicked, NEW g \in Goroutine, NEW c \in Conns, CloseConn(g, c) \/ CloseReturns(g)
       PROVE  UNCHANGED <<closed, cleanerCh, panicked, connRequests>>
  BY <1>13 DEF CloseConn, CloseReturns
<1>14. ASSUME ~panicked, NEW g \in Goroutine, CloseReturns(g)
       PROVE  UNCHANGED <<closed, cleanerCh, panicked, connRequests>>
  BY <1>14 DEF CloseReturns
<1>15. ASSUME ~panicked, OpenerReceive \/ OpenerClosed
       PROVE  UNCHANGED <<closed, cleanerCh, panicked, connRequests>>
  BY <1>15 DEF OpenerReceive, OpenerClosed
<1>16. ASSUME ~panicked, OpenerFailed
       PROVE  PanicsClosed' /\ IsInjective(connRequests')
  <2>1. connRequests' \in Seq(G) /\ IsInjective(connRequests')
    <3>1. CASE AnswersRequest(numOpen - 1)
      <4>1. connRequests' = Tail(connRequests) /\ connRequests # <<>>
        BY <1>16, <3>1 DEF OpenerFailed, AnswersRequest
      <4>2. connRequests \in Seq(G)
        BY <1>0 DEF TypeOK
      <4>. QED BY <1>0, <4>1, <4>2, Popped
    <3>2. CASE ~AnswersRequest(numOpen - 1)
      BY <1>0, <1>16, <3>2 DEF TypeOK, OpenerFailed
    <3>. QED BY <3>1, <3>2
  <2>2. numOpen - 1 \in Nat /\ FALSE \in BOOLEAN
    BY <1>16, Counts DEF OpenerFailed
  <2>3. /\ MaybeOpenNewConnections(numOpen - 1, connRequests', FALSE)
        /\ UNCHANGED <<closed, cleanerCh>>
    BY <1>16 DEF OpenerFailed
  <2>4. PICK r \in Seq(G) : r = connRequests' /\ MaybeOpenNewConnections(numOpen - 1, r, FALSE)
    BY <2>1, <2>3
  <2>. QED BY <1>2, <1>16, <2>1, <2>2, <2>3, <2>4
<1>17. ASSUME ~panicked, OpenerOpened
       PROVE  PanicsClosed' /\ IsInjective(connRequests')
  <2>1. CASE \E c \in Conns : PutConnDB(c)
    BY <1>8, <1>17, <2>1 DEF OpenerOpened
  <2>2. CASE ~ \E c \in Conns : PutConnDB(c)
    BY <1>1, <1>0, <1>17, <2>2 DEF OpenerOpened
  <2>. QED BY <2>1, <2>2
<1>18. ASSUME ~panicked, CleanerWakes
       PROVE  PanicsClosed' /\ IsInjective(connRequests')
  BY <1>0, <1>18 DEF PanicsClosed, CleanerWakes
<1>. QED
  BY <1>0, <1>1, <1>3, <1>4, <1>5, <1>6, <1>7, <1>9, <1>10, <1>11, <1>12, <1>13, <1>14, <1>15,
     <1>16, <1>17, <1>18, Steps DEF vars

\* Whoever does not wait with an empty channel is in no list that matters.
LEMMA NotListed ==
  ASSUME IInv, ~panicked, NEW g \in G, pc[g] # "waiting" \/ req[g] # "empty", ~closed
  PROVE  g \notin ToSet(connRequests)
  BY DEF IInv, Alive, Waiting

LEMMA IdleSame ==
  ASSUME IsFiniteSet(Conns), IInv, freeConn' \subseteq freeConn, UNCHANGED maxIdle,
         closed' = closed \/ freeConn' = {},
         freeConn' # {} => /\ ToSet(connRequests') \subseteq ToSet(connRequests)
                           /\ \A g \in ToSet(connRequests) : tries'[g] = tries[g]
  PROVE  IdleBounded'
<1>0. TypeOK /\ IdleBounded
  BY DEF IInv
<1>1. Cardinality(freeConn') <= MaxIdleConns(maxIdle)'
  <2>1. IsFiniteSet(freeConn)
    BY <1>0, FS_Subset DEF TypeOK
  <2>2. Cardinality(freeConn') <= Cardinality(freeConn)
    BY <2>1, FS_Subset
  <2>3. Cardinality(freeConn') \in Nat /\ Cardinality(freeConn) \in Nat
    BY <2>1, FS_Subset, FS_CardinalityType
  <2>4. MaxIdleConns(maxIdle)' = MaxIdleConns(maxIdle) /\ MaxIdleConns(maxIdle) \in Int
    BY <1>0 DEF TypeOK, MaxIdleConns
  <2>. QED BY <1>0, <2>2, <2>3, <2>4 DEF IdleBounded
<1>2. freeConn' # {} => \A g \in ToSet(connRequests') : AlwaysNewConn(g)'
  BY <1>0 DEF IdleBounded, AlwaysNewConn
<1>3. closed' => freeConn' = {}
  BY <1>0 DEF IdleBounded
<1>. QED BY <1>1, <1>2, <1>3 DEF IdleBounded

LEMMA NextIdleBounded ==
  ASSUME IsFiniteSet(G), IsFiniteSet(Conns), IInv, [Next]_vars
  PROVE  IdleBounded'
<1>. USE DEF settings, pool, conns, locals, Return
<1>0. TypeOK /\ IdleBounded /\ IsInjective(connRequests)
  BY DEF IInv
<1>1. ToSet(connRequests) \subseteq G
  BY <1>0, Listed DEF TypeOK
<1>2. closed => freeConn = {}
  BY <1>0 DEF IdleBounded
<1>3. CASE UNCHANGED <<freeConn, maxIdle, closed, connRequests, tries>>
  BY <1>3, IdleSame
\* The tries of one goroutine that is not in the list change.
<1>4. ASSUME ~panicked, NEW g \in G, NEW t, tries' = [tries EXCEPT ![g] = t],
             pc[g] # "waiting" \/ req[g] # "empty",
             freeConn' \subseteq freeConn, UNCHANGED <<maxIdle, closed, connRequests>>
      PROVE  IdleBounded'
  <2>1. freeConn' # {} => g \notin ToSet(connRequests)
    BY <1>2, <1>4, NotListed
  <2>2. freeConn' # {} => \A h \in ToSet(connRequests) : tries'[h] = tries[h]
    BY <1>0, <1>1, <1>4, <2>1 DEF TypeOK
  <2>. QED BY <1>4, <2>2, IdleSame
<1>5. ASSUME ~panicked, NEW g \in G, Call(g) \/ ConnOpen(g) \/ Opened(g) \/ PutBad(g)
                                   \/ SetMaxOpenConns(g) \/ SetConnMaxLifetime(g)
      PROVE  IdleBounded'
  BY <1>3, <1>5 DEF Call, ConnOpen, Opened, PutBad, SetMaxOpenConns, SetConnMaxLifetime
<1>6. ASSUME ~panicked, NEW g \in G, ConnClosed(g) \/ OpenFailed(g) PROVE IdleBounded'
  BY <1>4, <1>6 DEF ConnClosed, OpenFailed, TryAgain
<1>7. ASSUME ~panicked, NEW g \in G, ConnFree(g) PROVE IdleBounded'
  BY <1>7, IdleSame DEF ConnFree
<1>8. ASSUME ~panicked, NEW g \in G, ConnRequest(g) PROVE IdleBounded'
  <2>1. /\ connRequests' = Append(connRequests, g)
        /\ freeConn = {} \/ AlwaysNewConn(g)
        /\ UNCHANGED <<freeConn, maxIdle, closed, tries>> /\ pc[g] # "waiting" /\ ~closed
    BY <1>8 DEF ConnRequest, NoneFree
  <2>2. ToSet(connRequests') = ToSet(connRequests) \cup {g}
    <3>1. connRequests \in Seq(G) /\ g \notin ToSet(connRequests)
      BY <1>0, <1>8, <2>1, NotListed DEF TypeOK
    <3>. QED BY <1>0, <2>1, <3>1, Pushed
  <2>. QED BY <1>0, <2>1, <2>2 DEF IdleBounded, AlwaysNewConn, MaxIdleConns
<1>9. ASSUME ~panicked, NEW g \in G, ConnAnswered(g) PROVE IdleBounded'
  <2>1. CASE Return(g) \/ TryAgain(g)
    BY <1>4, <1>9, <2>1 DEF ConnAnswered, TryAgain
  <2>2. CASE UNCHANGED tries
    BY <1>3, <1>9, <2>2 DEF ConnAnswered
  <2>. QED BY <1>9, <2>1, <2>2 DEF ConnAnswered
<1>10. ASSUME ~panicked, NEW c \in Conns, PutConnDB(c), UNCHANGED <<maxIdle, closed>>,
              tries' = tries \/ \E g \in G : \E t : tries' = [tries EXCEPT ![g] = t] /\ pc[g] # "waiting"
       PROVE IdleBounded'
  <2>1. CASE panicked' /\ UNCHANGED freeConn
    <3>1. closed
      BY <1>10, <2>1, PutAway
    <3>. QED BY <1>2, <1>10, <2>1, <3>1, IdleSame
  <2>2. ASSUME NEW h \in ToSet(connRequests), UNCHANGED freeConn, ~closed,
               ToSet(connRequests') = ToSet(connRequests) \ {h}
        PROVE IdleBounded'
    <3>1. \A k \in ToSet(connRequests) : tries'[k] = tries[k]
      <4>1. CASE tries' = tries
        BY <4>1
      <4>2. ASSUME NEW g \in G, NEW t, tries' = [tries EXCEPT ![g] = t], pc[g] # "waiting"
            PROVE \A k \in ToSet(connRequests) : tries'[k] = tries[k]
        <5>1. g \notin ToSet(connRequests)
          BY <1>10, <2>2, <4>2, NotListed
        <5>. QED BY <1>0, <1>1, <4>2, <5>1 DEF TypeOK
      <4>. QED BY <1>10, <4>1, <4>2
    <3>. QED BY <1>10, <2>2, <3>1, IdleSame
  <2>3. CASE /\ ~closed /\ connRequests = <<>> /\ freeConn' = freeConn \cup {c}
             /\ connRequests' = connRequests /\ Cardinality(freeConn) < MaxIdleConns(maxIdle)
    <3>1. ToSet(connRequests') = {}
      BY <1>0, <2>3, Listed DEF TypeOK
    <3>2. Cardinality(freeConn') <= Cardinality(freeConn) + 1 /\ Cardinality(freeConn') \in Nat
          /\ Cardinality(freeConn) \in Nat
      <4>1. IsFiniteSet(freeConn)
        BY <1>0, FS_Subset DEF TypeOK
      <4>2. /\ IsFiniteSet(freeConn')
            /\ Cardinality(freeConn') = IF c \in freeConn THEN Cardinality(freeConn)
                                        ELSE Cardinality(freeConn) + 1
        BY <2>3, <4>1, FS_AddElement
      <4>3. Cardinality(freeConn) \in Nat
        BY <4>1, FS_CardinalityType
      <4>. QED BY <4>2, <4>3
    <3>3. MaxIdleConns(maxIdle)' = MaxIdleConns(maxIdle) /\ MaxIdleConns(maxIdle) \in Int
      BY <1>0, <1>10 DEF TypeOK, MaxIdleConns
    <3>4. Cardinality(freeConn') <= MaxIdleConns(maxIdle)'
      BY <2>3, <3>2, <3>3
    <3>. QED BY <1>10, <2>3, <3>1, <3>4 DEF IdleBounded
  <2>. QED BY <1>10, <2>1, <2>2, <2>3, PutAway
<1>11. ASSUME ~panicked, NEW g \in G, PutConn(g) PROVE IdleBounded'
  <2>1. conn[g] \in Conns /\ pc[g] = "using" /\ UNCHANGED <<maxIdle, closed>>
    BY <1>11 DEF IInv, Alive, TypeOK, PutConn, AtPlace
  <2>2. CASE PutConnDB(conn[g]) /\ Return(g)
    <3>1. PICK c \in Conns : PutConnDB(c)
      BY <2>1, <2>2
    <3>2. tries' = [tries EXCEPT ![g] = 0] /\ pc[g] # "waiting"
      BY <2>1, <2>2
    <3>. QED BY <1>10, <1>11, <2>1, <3>1, <3>2
  <2>3. CASE UNCHANGED <<freeConn, connRequests, tries>>
    BY <1>3, <2>1, <2>3
  <2>. QED BY <1>11, <2>2, <2>3 DEF PutConn
<1>12. ASSUME ~panicked, NEW g \in G, Close(g) PROVE IdleBounded'
  BY <1>12, IdleSame DEF Close
<1>13. ASSUME ~panicked, NEW g \in G, NEW l, NEW n \in Int, SetIdle(g, l, n) PROVE IdleBounded'
  <2>1. PICK over \in SUBSET freeConn :
          /\ Cardinality(freeConn \ over) = Smaller(Cardinality(freeConn), MaxIdleConns(maxIdle'))
          /\ freeConn' = freeConn \ over
    BY <1>13 DEF SetIdle
  <2>2. UNCHANGED <<closed, connRequests, tries>>
    BY <1>13 DEF SetIdle
  <2>3. maxIdle' \in Int
    BY <1>0, <1>13 DEF TypeOK, SetIdle, MaxIdleConns
  <2>4. MaxIdleConns(maxIdle') \in Int /\ MaxIdleConns(maxIdle)' = MaxIdleConns(maxIdle')
    BY <2>3 DEF MaxIdleConns
  <2>5. Cardinality(freeConn) \in Nat
    BY <1>0, FS_Subset, FS_CardinalityType DEF TypeOK
  <2>6. Cardinality(freeConn') <= MaxIdleConns(maxIdle)'
    BY <2>1, <2>4, <2>5 DEF Smaller
  <2>. QED BY <1>0, <2>1, <2>2, <2>6 DEF IdleBounded, AlwaysNewConn
<1>14. ASSUME ~panicked, NEW g \in G, SetMaxIdleConns(g) \/ SyncMaxIdle(g) PROVE IdleBounded'
  <2>1. CASE SetMaxIdleConns(g)
    BY <1>13, <1>14, <2>1, LimitsAssumption DEF SetMaxIdleConns
  <2>2. CASE SyncMaxIdle(g)
    <3>1. arg[g] \in MaxOpens \/ arg[g] = 0
      BY <1>0 DEF TypeOK
    <3>2. \A n \in MaxOpens : n \in Int
      BY LimitsAssumption
    <3>3. arg[g] \in Int
      BY <3>1, <3>2
    <3>. QED BY <1>13, <1>14, <2>2, <3>3 DEF SyncMaxIdle
  <2>. QED BY <1>14, <2>1, <2>2
<1>15. ASSUME ~panicked, NEW g \in Goroutine, NEW c \in Conns, CloseConn(g, c) \/ FinalClose(g, c)
       PROVE IdleBounded'
  BY <1>3, <1>15 DEF CloseConn, FinalClose
<1>16. ASSUME ~panicked, NEW g \in Goroutine, CloseReturns(g) PROVE IdleBounded'
  <2>1. pc[g] = "closing" /\ UNCHANGED <<freeConn, maxIdle, closed, connRequests>>
    BY <1>16 DEF CloseReturns
  <2>2. \/ tries' = tries
        \/ g \in G /\ \E t : tries' = [tries EXCEPT ![g] = t]
    BY <1>16 DEF CloseReturns, TryAgain
  <2>. QED BY <1>3, <1>4, <1>16, <2>1, <2>2
<1>17. ASSUME ~panicked, OpenerReceive \/ OpenerClosed PROVE IdleBounded'
  BY <1>3, <1>17 DEF OpenerReceive, OpenerClosed
<1>18. ASSUME ~panicked, OpenerFailed PROVE IdleBounded'
  <2>1. UNCHANGED <<freeConn, maxIdle, closed, tries>>
    BY <1>18 DEF OpenerFailed
  <2>2. ToSet(connRequests') \subseteq ToSet(connRequests)
    <3>1. CASE AnswersRequest(numOpen - 1)
      <4>1. connRequests' = Tail(connRequests) /\ connRequests # <<>>
        BY <1>18, <3>1 DEF OpenerFailed, AnswersRequest
      <4>2. connRequests \in Seq(G)
        BY <1>0 DEF TypeOK
      <4>. QED BY <1>0, <4>1, <4>2, Popped
    <3>2. CASE ~AnswersRequest(numOpen - 1)
      BY <1>18, <3>2 DEF OpenerFailed
    <3>. QED BY <3>1, <3>2
  <2>. QED BY <2>1, <2>2, IdleSame
<1>19. ASSUME ~panicked, OpenerOpened PROVE IdleBounded'
  <2>1. UNCHANGED <<maxIdle, closed, tries>>
    BY <1>19 DEF OpenerOpened
  <2>2. CASE \E c \in Conns : PutConnDB(c)
    BY <1>10, <1>19, <2>1, <2>2
  <2>3. CASE UNCHANGED <<freeConn, connRequests>>
    BY <1>3, <2>1, <2>3
  <2>. QED BY <1>19, <2>2, <2>3 DEF OpenerOpened
<1>20. ASSUME ~panicked, CleanerWakes PROVE IdleBounded'
  BY <1>20, IdleSame DEF CleanerWakes
<1>. QED
  BY <1>3, <1>5, <1>6, <1>7, <1>8, <1>9, <1>11, <1>12, <1>14, <1>15, <1>16, <1>17, <1>18,
     <1>19, <1>20, Steps DEF vars

\* A request is added by who waits, and taken off by who answers it; Close answers all.
LEMMA NextWaiting ==
  ASSUME IInv, ~panicked, [Next]_vars, ~panicked'
  PROVE  Waiting'
<1>. USE DEF settings, pool, conns, locals, Return, Goto
<1>0. TypeOK /\ AtPlace /\ Waiting /\ IsInjective(connRequests) /\ connRequests \in Seq(G)
  BY DEF IInv, Alive, TypeOK
<1>1. ToSet(connRequests) \subseteq G /\ G \subseteq Goroutine /\ pc \in [Goroutine -> PC]
      /\ req \in [G -> Answer] /\ DOMAIN pc = Goroutine
      /\ \A c \in Conns : c \notin {"empty", "closed", "error"}
  BY <1>0, Listed, NamesAssumption DEF Goroutine, TypeOK
<1>2. CASE UNCHANGED <<closed, connRequests, req, pc>>
  BY <1>0, <1>2 DEF Waiting
<1>3. ASSUME NEW g \in Goroutine, NEW l, pc' = [pc EXCEPT ![g] = l], pc[g] # "waiting",
             l # "waiting", UNCHANGED <<closed, connRequests, req>>
      PROVE  Waiting'
  BY <1>0, <1>1, <1>3 DEF Waiting
\* g, the first in the list, gets the answer a.
<1>4. ASSUME NEW g \in ToSet(connRequests), NEW a, a \notin {"empty", "closed"},
             req' = [req EXCEPT ![g] = a], ~closed, UNCHANGED closed,
             ToSet(connRequests') = ToSet(connRequests) \ {g},
             \/ UNCHANGED pc
             \/ \E h \in G : \E l : /\ pc[h] # "waiting" /\ l # "waiting"
                                /\ pc' = [pc EXCEPT ![h] = l]
      PROVE  Waiting'
  <2>1. \A h \in G : pc'[h] = "waiting" <=> pc[h] = "waiting"
    BY <1>1, <1>4
  <2>2. g \in G
    BY <1>1
  <2>. QED BY <1>0, <1>1, <1>4, <2>1, <2>2 DEF Waiting
<1>5. ASSUME NEW g \in G, Call(g) \/ ConnClosed(g) \/ ConnOpen(g) \/ OpenFailed(g)
                            \/ Opened(g) \/ PutBad(g)
      PROVE  Waiting'
  <2>1. g \in Goroutine /\ pc[g] # "waiting" /\ UNCHANGED <<closed, connRequests, req>>
    BY <1>1, <1>5 DEF Call, ConnClosed, ConnOpen, OpenFailed, Opened, PutBad
  <2>2. \E l : l # "waiting" /\ pc' = [pc EXCEPT ![g] = l]
    BY <1>5 DEF Call, ConnClosed, ConnOpen, OpenFailed, Opened, PutBad, TryAgain
  <2>. QED BY <1>3, <2>1, <2>2
<1>6. ASSUME NEW g \in G, ConnFree(g) PROVE Waiting'
  <2>1. g \in Goroutine /\ pc[g] # "waiting" /\ UNCHANGED <<closed, connRequests, req>>
    BY <1>1, <1>6 DEF ConnFree
  <2>2. \E l : l # "waiting" /\ pc' = [pc EXCEPT ![g] = l]
    BY <1>6 DEF ConnFree, Got
  <2>. QED BY <1>3, <2>1, <2>2
<1>7. ASSUME NEW g \in G, ConnRequest(g) PROVE Waiting'
  <2>1. /\ connRequests' = Append(connRequests, g) /\ pc[g] # "waiting" /\ ~closed
        /\ closed' = closed /\ req' = [req EXCEPT ![g] = "empty"]
        /\ pc' = [pc EXCEPT ![g] = "waiting"]
    BY <1>7 DEF ConnRequest
  <2>2. ToSet(connRequests') = ToSet(connRequests) \cup {g}
    <3>1. g \notin ToSet(connRequests)
      BY <2>1, NotListed
    <3>. QED BY <1>0, <2>1, <3>1, Pushed
  <2>. QED BY <1>0, <1>1, <2>1, <2>2 DEF Waiting
<1>8. ASSUME NEW g \in G, ConnAnswered(g) PROVE Waiting'
  <2>1. /\ pc[g] = "waiting" /\ req[g] # "empty" /\ req' = [req EXCEPT ![g] = "empty"]
        /\ UNCHANGED <<closed, connRequests>>
    BY <1>8 DEF ConnAnswered
  <2>2. PICK l : l # "waiting" /\ pc' = [pc EXCEPT ![g] = l]
    BY <1>8 DEF ConnAnswered, Got, TryAgain
  <2>3. ~closed => g \notin ToSet(connRequests)
    BY <2>1, NotListed
  <2>4. pc'[g] # "waiting" /\ req'[g] = "empty"
    BY <1>1, <2>1, <2>2
  <2>5. \A h \in G : h # g => pc'[h] = pc[h] /\ req'[h] = req[h]
    BY <1>1, <2>1, <2>2
  <2>. QED BY <1>0, <1>1, <2>1, <2>3, <2>4, <2>5 DEF Waiting
<1>9. ASSUME NEW c \in Conns, PutConnDB(c), UNCHANGED closed,
             \/ UNCHANGED pc
             \/ \E h \in G : \E l : /\ pc[h] # "waiting" /\ l # "waiting"
                                /\ pc' = [pc EXCEPT ![h] = l]
      PROVE  Waiting'
  <2>1. \/ ~closed /\ \E g \in ToSet(connRequests) :
              /\ req' = [req EXCEPT ![g] = c]
              /\ ToSet(connRequests') = ToSet(connRequests) \ {g}
        \/ UNCHANGED <<connRequests, req>>
    BY <1>9, PutAway
  <2>2. c \notin {"empty", "closed"}
    BY <1>1
  <2>. QED BY <1>1, <1>2, <1>3, <1>4, <1>9, <2>1, <2>2
<1>10. ASSUME NEW g \in G, PutConn(g) PROVE Waiting'
  <2>1. conn[g] \in Conns /\ pc[g] # "waiting" /\ g \in Goroutine /\ UNCHANGED closed
    BY <1>0, <1>1, <1>10 DEF TypeOK, PutConn, AtPlace
  <2>2. \E l : l # "waiting" /\ pc' = [pc EXCEPT ![g] = l]
    BY <1>10 DEF PutConn
  <2>3. CASE PutConnDB(conn[g])
    <3>1. PICK c \in Conns : PutConnDB(c)
      BY <2>1, <2>3
    <3>. QED BY <1>9, <2>1, <2>2, <3>1
  <2>4. CASE UNCHANGED <<connRequests, req>>
    BY <1>3, <2>1, <2>2, <2>4
  <2>. QED BY <1>10, <2>3, <2>4 DEF PutConn
<1>11. ASSUME NEW g \in G, Close(g) PROVE Waiting'
  <2>1. /\ closed' /\ UNCHANGED connRequests /\ pc[g] # "waiting"
        /\ pc' = [pc EXCEPT ![g] = "closing"]
        /\ \A h \in G : req'[h] = IF h \in ToSet(connRequests) THEN "closed" ELSE req[h]
    BY <1>11 DEF Close
  <2>. QED BY <1>0, <1>1, <2>1 DEF Waiting
<1>12. ASSUME NEW g \in G, SetMaxIdleConns(g) \/ SyncMaxIdle(g) PROVE Waiting'
  <2>1. g \in Goroutine /\ pc[g] # "waiting" /\ UNCHANGED <<closed, connRequests, req>>
    BY <1>1, <1>12 DEF SetMaxIdleConns, SyncMaxIdle, SetIdle
  <2>2. \E l : l # "waiting" /\ pc' = [pc EXCEPT ![g] = l]
    BY <1>12 DEF SetMaxIdleConns, SyncMaxIdle, SetIdle
  <2>. QED BY <1>3, <2>1, <2>2
<1>13. ASSUME NEW g \in G, SetMaxOpenConns(g) PROVE Waiting'
  BY <1>1, <1>2, <1>3, <1>13 DEF SetMaxOpenConns
<1>14. ASSUME NEW g \in G, SetConnMaxLifetime(g) PROVE Waiting'
  BY <1>2, <1>14 DEF SetConnMaxLifetime
<1>15. ASSUME NEW g \in Goroutine, NEW c \in Conns, CloseConn(g, c) \/ FinalClose(g, c)
       PROVE Waiting'
  BY <1>2, <1>15 DEF CloseConn, FinalClose
<1>16. ASSUME NEW g \in Goroutine, CloseReturns(g) PROVE Waiting'
  <2>1. pc[g] # "waiting" /\ UNCHANGED <<closed, connRequests, req>>
    BY <1>1, <1>16 DEF CloseReturns
  <2>2. \E l : l # "waiting" /\ pc' = [pc EXCEPT ![g] = l]
    BY <1>16 DEF CloseReturns, TryAgain
  <2>. QED BY <1>3, <2>1, <2>2
<1>17. ASSUME OpenerReceive \/ OpenerClosed PROVE Waiting'
  BY <1>2, <1>17 DEF OpenerReceive, OpenerClosed
<1>18. ASSUME OpenerFailed PROVE Waiting'
  <2>1. ~closed /\ UNCHANGED <<closed, pc>>
    BY <1>18 DEF OpenerFailed
  <2>2. CASE AnswersRequest(numOpen - 1)
    <3>1. /\ connRequests' = Tail(connRequests) /\ connRequests # <<>>
          /\ req' = [req EXCEPT ![Head(connRequests)] = "error"]
      BY <1>18, <2>2 DEF OpenerFailed, AnswersRequest
    <3>2. /\ Head(connRequests) \in ToSet(connRequests)
          /\ ToSet(connRequests') = ToSet(connRequests) \ {Head(connRequests)}
      BY <1>0, <3>1, Popped
    <3>. QED BY <1>4, <2>1, <3>1, <3>2
  <2>3. CASE ~AnswersRequest(numOpen - 1)
    BY <1>2, <1>18, <2>3 DEF OpenerFailed
  <2>. QED BY <2>2, <2>3
<1>19. ASSUME OpenerOpened PROVE Waiting'
  <2>1. UNCHANGED <<closed, pc>>
    BY <1>19 DEF OpenerOpened
  <2>2. CASE \E c \in Conns : PutConnDB(c)
    BY <1>9, <2>1, <2>2
  <2>3. CASE UNCHANGED <<connRequests, req>>
    BY <1>2, <2>1, <2>3
  <2>. QED BY <1>19, <2>2, <2>3 DEF OpenerOpened
<1>20. ASSUME CleanerWakes PROVE Waiting'
  <2>1. Cleaner \in Goroutine
    BY DEF Goroutine
  <2>. QED BY <1>2, <1>3, <1>20, <2>1 DEF CleanerWakes
<1>. QED
  BY <1>2, <1>5, <1>6, <1>7, <1>8, <1>10, <1>11, <1>12, <1>13, <1>14, <1>15, <1>16, <1>17,
     <1>18, <1>19, <1>20, Steps DEF vars

-----------------------------------------------------------------------------
\* What a step does to a connection it does not touch.
Untouched(c) ==
  /\ c \in freeConn' <=> c \in freeConn
  /\ dc'[c] = dc[c] /\ inUse'[c] = inUse[c]
  /\ \A g \in G : (c \in {conn'[g], req'[g]}) <=> (c \in {conn[g], req[g]})
  /\ \A g \in Goroutine : /\ (c \in todo'[g]) <=> (c \in todo[g])
                          /\ (c \in fin'[g]) <=> (c \in fin[g])

LEMMA OwnedSame ==
  ASSUME NEW c \in Conns, OwnedOnce(c), Untouched(c)
  PROVE  OwnedOnce(c)'
<1>1. \A g \in Goroutine : Has(g, c)' <=> Has(g, c)
  BY DEF Has, Untouched, Goroutine
<1>2. /\ c \in freeConn' => dc'[c] = "open" /\ ~inUse'[c] /\ \A g \in Goroutine : ~Has(g, c)'
      /\ \A g \in G : c \in {conn'[g], req'[g]} => dc'[c] = "open" /\ inUse'[c]
      /\ \A g \in Goroutine : /\ c \in todo'[g] => dc'[c] = "open"
                              /\ c \in fin'[g] => dc'[c] = "closed"
  BY <1>1 DEF OwnedOnce, Untouched
<1>3. /\ \A g, h \in Goroutine : Has(g, c)' /\ Has(h, c)' => g = h
      /\ dc'[c] # "none" => c \in freeConn' \/ \E g \in Goroutine : Has(g, c)'
  BY <1>1 DEF OwnedOnce, Untouched
<1>. QED BY <1>2, <1>3 DEF OwnedOnce

\* How a connection has a new owner: a request or a client that uses it, or one that
\* will close it.
LEMMA OwnedByUser ==
  ASSUME NEW c \in Conns, NEW g \in G, c \in {conn'[g], req'[g]}, c \notin freeConn',
         dc'[c] = "open", inUse'[c],
         \A h \in Goroutine : c \notin todo'[h] \cup fin'[h],
         \A h \in G : c \in {conn'[h], req'[h]} => h = g
  PROVE  OwnedOnce(c)'
<1>1. \A h \in Goroutine : Has(h, c)' <=> h = g
  BY DEF Has, Goroutine
<1>2. g \in Goroutine
  BY DEF Goroutine
<1>. QED BY <1>1, <1>2 DEF OwnedOnce

LEMMA OwnedByCloser ==
  ASSUME NEW c \in Conns, NEW g \in Goroutine, c \notin freeConn',
         \/ c \in todo'[g] /\ c \notin fin'[g] /\ dc'[c] = "open"
         \/ c \in fin'[g] /\ c \notin todo'[g] /\ dc'[c] = "closed",
         \A h \in Goroutine : c \in todo'[h] \cup fin'[h] => h = g,
         \A h \in G : c \notin {conn'[h], req'[h]}
  PROVE  OwnedOnce(c)'
<1>1. \A h \in Goroutine : Has(h, c)' <=> h = g
  BY DEF Has, Goroutine
<1>. QED BY <1>1 DEF OwnedOnce

\* Nobody else has what is idle, what a goroutine has, or what does not exist.
LEMMA NobodyElse ==
  ASSUME NEW c \in Conns, TypeOK, AtPlace, OwnedOnce(c)
  PROVE  /\ c \in freeConn \/ dc[c] = "none" =>
              /\ \A g \in Goroutine : c \notin todo[g] \cup fin[g]
              /\ \A g \in G : c \notin {conn[g], req[g]}
         /\ \A g \in Goroutine : c \in todo[g] \cup fin[g] =>
              /\ c \notin freeConn
              /\ \A h \in Goroutine : c \in todo[h] \cup fin[h] => h = g
              /\ \A h \in G : c \notin {conn[h], req[h]}
         /\ \A g \in G : c \in {conn[g], req[g]} =>
              /\ c \notin freeConn
              /\ \A h \in Goroutine : c \notin todo[h] \cup fin[h]
              /\ \A h \in G : c \in {conn[h], req[h]} => h = g
         /\ \A g \in Goroutine : ~(c \in todo[g] /\ c \in fin[g])
         /\ \A g \in G : ~(conn[g] = c /\ req[g] = c)
         /\ dc[c] = "none" => c \notin freeConn
<1>1. G \subseteq Goroutine /\ c # NoConn /\ c \notin {"empty", "closed", "error"}
  BY NamesAssumption DEF Goroutine
<1>2. \A g \in Goroutine : c \in todo[g] \cup fin[g] => Has(g, c)
  BY DEF Has
<1>3. \A g \in G : c \in {conn[g], req[g]} => Has(g, c)
  BY DEF Has
<1>4. \A g \in G : ~(c \in todo[g] \cup fin[g] /\ c \in {conn[g], req[g]})
  BY <1>1 DEF AtPlace
<1>5. \A g \in G : ~(conn[g] = c /\ req[g] = c)
  BY <1>1 DEF AtPlace
<1>6. c \in freeConn => \A g \in Goroutine : ~Has(g, c)
  BY DEF OwnedOnce
<1>7. dc[c] = "none" => c \notin freeConn /\ \A g \in Goroutine : ~Has(g, c)
  BY <1>1 DEF OwnedOnce, Has
<1>8. \A g, h \in Goroutine : Has(g, c) /\ Has(h, c) => g = h
  BY DEF OwnedOnce
<1>9. \A g \in Goroutine : ~(c \in todo[g] /\ c \in fin[g])
  BY DEF OwnedOnce
<1>10. c \in freeConn \/ dc[c] = "none" =>
              /\ \A g \in Goroutine : c \notin todo[g] \cup fin[g]
              /\ \A g \in G : c \notin {conn[g], req[g]}
  BY <1>1, <1>2, <1>3, <1>6, <1>7
<1>11. ASSUME NEW g \in Goroutine, c \in todo[g] \cup fin[g]
       PROVE  /\ c \notin freeConn
              /\ \A h \in Goroutine : c \in todo[h] \cup fin[h] => h = g
              /\ \A h \in G : c \notin {conn[h], req[h]}
  BY <1>1, <1>2, <1>3, <1>4, <1>6, <1>8, <1>11
<1>12. ASSUME NEW g \in G, c \in {conn[g], req[g]}
       PROVE  /\ c \notin freeConn
              /\ \A h \in Goroutine : c \notin todo[h] \cup fin[h]
              /\ \A h \in G : c \in {conn[h], req[h]} => h = g
  BY <1>1, <1>2, <1>3, <1>4, <1>6, <1>8, <1>12
<1>. QED BY <1>5, <1>7, <1>9, <1>10, <1>11, <1>12

\* Idle connections are taken off the list to be closed.
LEMMA TakenToClose ==
  ASSUME TypeOK, AtPlace, \A c \in Conns : OwnedOnce(c),
         NEW g \in Goroutine, NEW S \in SUBSET freeConn, pc[g] # "closing",
         freeConn' = freeConn \ S, todo' = [todo EXCEPT ![g] = S],
         UNCHANGED <<dc, inUse, conn, req, fin>>
  PROVE  \A c \in Conns : OwnedOnce(c)'
<1>. SUFFICES ASSUME NEW c \in Conns PROVE OwnedOnce(c)'
  OBVIOUS
<1>1. OwnedOnce(c) /\ todo[g] = {} /\ fin[g] = {} /\ todo \in [Goroutine -> SUBSET Conns]
  BY DEF AtPlace, TypeOK
<1>2. /\ todo'[g] = S
      /\ \A h \in Goroutine : h # g => todo'[h] = todo[h]
  BY <1>1
<1>3. CASE c \in S
  <2>1. c \in freeConn /\ dc[c] = "open"
    BY <1>1, <1>3 DEF OwnedOnce
  <2>. QED BY <1>1, <1>2, <1>3, <2>1, NobodyElse, OwnedByCloser
<1>4. CASE c \notin S
  BY <1>1, <1>2, <1>4, OwnedSame DEF Untouched
<1>. QED BY <1>3, <1>4

\* A goroutine that has nothing gets c0, which nobody else has, to use it or to close it.
LEMMA GotOwned ==
  ASSUME TypeOK, AtPlace, NEW g \in G, NEW c0 \in Conns, OwnedOnce(c0), NEW d, Got(g, c0, d),
         pc[g] \in {"call", "waiting"}, dc[c0] = "open", inUse'[c0], c0 \notin freeConn',
         \A h \in Goroutine : c0 \notin todo[h] \cup fin[h],
         \A h \in G : c0 \notin {conn[h], req'[h]}, UNCHANGED <<dc, fin>>
  PROVE  /\ OwnedOnce(c0)'
         /\ \A h \in Goroutine : todo'[h] = todo[h] \/ (todo'[h] = {c0} /\ todo[h] = {})
         /\ \A h \in G : conn'[h] = conn[h] \/ (conn'[h] = c0 /\ conn[h] = NoConn)
<1>1. /\ g \in Goroutine /\ conn[g] = NoConn /\ todo[g] = {} /\ fin[g] = {}
      /\ conn \in [G -> Conns \cup {NoConn}] /\ todo \in [Goroutine -> SUBSET Conns]
  BY DEF AtPlace, TypeOK, Goroutine
<1>2. CASE conn' = [conn EXCEPT ![g] = c0] /\ UNCHANGED todo
  <2>1. conn'[g] = c0 /\ \A h \in G : h # g => conn'[h] = conn[h]
    BY <1>1, <1>2
  <2>2. \A h \in G : c0 \in {conn'[h], req'[h]} => h = g
    BY <2>1
  <2>3. \A h \in Goroutine : c0 \notin todo'[h] \cup fin'[h]
    BY <1>2
  <2>4. OwnedOnce(c0)'
    BY <2>1, <2>2, <2>3, OwnedByUser
  <2>. QED BY <1>1, <1>2, <2>1, <2>4
<1>3. CASE todo' = [todo EXCEPT ![g] = {c0}] /\ UNCHANGED conn
  <2>1. todo'[g] = {c0} /\ \A h \in Goroutine : h # g => todo'[h] = todo[h]
    BY <1>1, <1>3
  <2>2. \A h \in G : c0 \notin {conn'[h], req'[h]}
    BY <1>3
  <2>3. /\ \A h \in Goroutine : c0 \in todo'[h] \cup fin'[h] => h = g
        /\ c0 \notin fin'[g] /\ dc'[c0] = "open"
    BY <1>1, <2>1
  <2>4. OwnedOnce(c0)'
    BY <1>1, <2>1, <2>2, <2>3, OwnedByCloser
  <2>. QED BY <1>1, <1>3, <2>1, <2>4
<1>. QED BY <1>2, <1>3 DEF Got

\* A connection changes hands whole: idle, in use, an answer, to be closed, or gone.
LEMMA NextOwned ==
  ASSUME IInv, ~panicked, [Next]_vars, ~panicked'
  PROVE  \A c \in Conns : OwnedOnce(c)'
<1>. USE DEF settings, pool, conns, locals, Return, Goto
<1>0. /\ TypeOK /\ AtPlace /\ \A c \in Conns : OwnedOnce(c)
      /\ NoConn \notin Conns /\ \A c \in Conns : c \notin {"empty", "closed", "error"}
      /\ G \subseteq Goroutine /\ connRequests \in Seq(G)
  BY NamesAssumption DEF IInv, Alive, Goroutine, TypeOK
<1>1. /\ dc \in [Conns -> {"none", "open", "closed"}] /\ inUse \in [Conns -> BOOLEAN]
      /\ conn \in [G -> Conns \cup {NoConn}] /\ req \in [G -> Answer]
      /\ todo \in [Goroutine -> SUBSET Conns] /\ fin \in [Goroutine -> SUBSET Conns]
  BY <1>0 DEF TypeOK
<1>2. CASE UNCHANGED <<freeConn, dc, inUse, conn, req, todo, fin>>
  BY <1>0, <1>2, OwnedSame DEF Untouched
<1>3. ASSUME NEW g \in G, Call(g) \/ ConnClosed(g) \/ ConnOpen(g) \/ OpenFailed(g)
                            \/ SetMaxOpenConns(g) \/ SetConnMaxLifetime(g)
      PROVE  UNCHANGED <<freeConn, dc, inUse, conn, req, todo, fin>>
  BY <1>3 DEF Call, ConnClosed, ConnOpen, OpenFailed, SetMaxOpenConns, SetConnMaxLifetime
<1>4. ASSUME NEW g \in G, ConnFree(g) PROVE \A c \in Conns : OwnedOnce(c)'
  <2>1. PICK c0 \in freeConn : /\ freeConn' = freeConn \ {c0}
                               /\ inUse' = [inUse EXCEPT ![c0] = TRUE]
                               /\ Got(g, c0, maxLifetime)
    BY <1>4 DEF ConnFree
  <2>2. pc[g] = "call" /\ UNCHANGED <<dc, req, fin>>
    BY <1>4 DEF ConnFree
  <2>3. c0 \in Conns /\ dc[c0] = "open" /\ OwnedOnce(c0) /\ c0 \notin freeConn' /\ inUse'[c0]
    BY <1>0, <1>1, <2>1 DEF OwnedOnce, TypeOK
  <2>4. /\ \A h \in Goroutine : c0 \notin todo[h] \cup fin[h]
        /\ \A h \in G : c0 \notin {conn[h], req[h]}
    BY <1>0, <2>1, <2>3, NobodyElse
  <2>5. /\ OwnedOnce(c0)'
        /\ \A h \in Goroutine : todo'[h] = todo[h] \/ (todo'[h] = {c0} /\ todo[h] = {})
        /\ \A h \in G : conn'[h] = conn[h] \/ (conn'[h] = c0 /\ conn[h] = NoConn)
    BY <1>0, <2>1, <2>2, <2>3, <2>4, GotOwned
  <2>6. ASSUME NEW c \in Conns, c # c0 PROVE Untouched(c)
    BY <1>0, <1>1, <2>1, <2>2, <2>5, <2>6 DEF Untouched
  <2>. QED BY <1>0, <2>5, <2>6, OwnedSame
<1>5. ASSUME NEW g \in G, ConnRequest(g) PROVE \A c \in Conns : OwnedOnce(c)'
  <2>1. /\ req' = [req EXCEPT ![g] = "empty"] /\ pc[g] = "call"
        /\ UNCHANGED <<freeConn, dc, inUse, conn, todo, fin>>
    BY <1>5 DEF ConnRequest
  <2>2. req[g] = "empty"
    BY <1>0, <2>1 DEF AtPlace
  <2>. QED BY <1>1, <1>2, <2>1, <2>2
<1>6. ASSUME NEW g \in G, ConnAnswered(g) PROVE \A c \in Conns : OwnedOnce(c)'
  <2>1. /\ req' = [req EXCEPT ![g] = "empty"] /\ pc[g] = "waiting"
        /\ UNCHANGED <<freeConn, dc, inUse, fin>>
        /\ \A h \in G : req'[h] = IF h = g THEN "empty" ELSE req[h]
    BY <1>1, <1>6 DEF ConnAnswered
  <2>2. CASE req[g] \in {"closed", "error"} /\ UNCHANGED <<conn, todo>>
    BY <1>0, <1>1, <2>1, <2>2, OwnedSame DEF Untouched
  <2>3. CASE req[g] \in Conns /\ Got(g, req[g], lifetime[g])
    <3>1. PICK c0 \in Conns : c0 = req[g] /\ Got(g, c0, lifetime[g])
      BY <2>3
    <3>2. dc[c0] = "open" /\ inUse'[c0] /\ OwnedOnce(c0)
      BY <1>0, <2>1, <3>1 DEF OwnedOnce
    <3>3. /\ c0 \notin freeConn' /\ conn[g] = NoConn
          /\ \A h \in Goroutine : c0 \notin todo[h] \cup fin[h]
          /\ \A h \in G : c0 \in {conn[h], req[h]} => h = g
      BY <1>0, <2>1, <3>1, <3>2, NobodyElse DEF AtPlace
    <3>4. \A h \in G : c0 \notin {conn[h], req'[h]}
      BY <1>0, <2>1, <3>3
    <3>5. /\ OwnedOnce(c0)'
          /\ \A h \in Goroutine : todo'[h] = todo[h] \/ (todo'[h] = {c0} /\ todo[h] = {})
          /\ \A h \in G : conn'[h] = conn[h] \/ (conn'[h] = c0 /\ conn[h] = NoConn)
      BY <1>0, <2>1, <3>1, <3>2, <3>3, <3>4, GotOwned
    <3>6. ASSUME NEW c \in Conns, c # c0 PROVE Untouched(c)
      BY <1>0, <1>1, <2>1, <3>1, <3>5, <3>6 DEF Untouched
    <3>. QED BY <1>0, <3>5, <3>6, OwnedSame
  <2>. QED BY <1>6, <2>2, <2>3 DEF ConnAnswered
<1>7. ASSUME NEW g \in G, Opened(g) PROVE \A c \in Conns : OwnedOnce(c)'
  <2>1. PICK c0 \in Conns : /\ dc[c0] = "none" /\ dc' = [dc EXCEPT ![c0] = "open"]
                            /\ inUse' = [inUse EXCEPT ![c0] = TRUE]
                            /\ conn' = [conn EXCEPT ![g] = c0]
    BY <1>7 DEF Opened
  <2>2. pc[g] = "opening" /\ UNCHANGED <<freeConn, req, todo, fin>>
    BY <1>7 DEF Opened
  <2>3. /\ \A h \in Goroutine : c0 \notin todo[h] \cup fin[h]
        /\ \A h \in G : c0 \notin {conn[h], req[h]}
        /\ c0 \notin freeConn
    BY <1>0, <2>1, NobodyElse
  <2>4. /\ conn'[g] = c0 /\ dc'[c0] = "open" /\ inUse'[c0] /\ conn[g] = NoConn
        /\ \A h \in G : h # g => conn'[h] = conn[h]
    BY <1>0, <1>1, <2>1, <2>2 DEF AtPlace
  <2>5. OwnedOnce(c0)'
    <3>1. \A h \in G : c0 \in {conn'[h], req'[h]} => h = g
      BY <2>2, <2>3, <2>4
    <3>2. \A h \in Goroutine : c0 \notin todo'[h] \cup fin'[h]
      BY <2>2, <2>3
    <3>. QED BY <2>2, <2>3, <2>4, <3>1, <3>2, OwnedByUser
  <2>6. ASSUME NEW c \in Conns, c # c0 PROVE Untouched(c)
    BY <1>0, <1>1, <2>1, <2>2, <2>4, <2>6 DEF Untouched
  <2>. QED BY <1>0, <2>5, <2>6, OwnedSame
\* g gives the connection it used to itself, to close it.
<1>8. ASSUME NEW g \in G, pc[g] = "using", conn' = [conn EXCEPT ![g] = NoConn],
             todo' = [todo EXCEPT ![g] = {conn[g]}],
             \A c \in Conns : c # conn[g] => inUse'[c] = inUse[c],
             UNCHANGED <<freeConn, dc, req, fin>>
      PROVE  \A c \in Conns : OwnedOnce(c)'
  <2>1. PICK c0 \in Conns : c0 = conn[g]
    BY <1>0, <1>1, <1>8 DEF AtPlace
  <2>2. /\ c0 \notin freeConn /\ dc[c0] = "open" /\ todo[g] = {} /\ fin[g] = {}
        /\ \A h \in Goroutine : c0 \notin todo[h] \cup fin[h]
        /\ \A h \in G : c0 \in {conn[h], req[h]} => h = g
        /\ req[g] # c0
    <3>1. dc[c0] = "open" /\ todo[g] = {} /\ fin[g] = {}
      BY <1>0, <1>8, <2>1 DEF AtPlace, OwnedOnce
    <3>. QED BY <1>0, <2>1, <3>1, NobodyElse
  <2>3. /\ todo'[g] = {c0} /\ \A h \in Goroutine : h # g => todo'[h] = todo[h]
        /\ conn'[g] = NoConn /\ \A h \in G : h # g => conn'[h] = conn[h]
    BY <1>0, <1>1, <1>8, <2>1
  <2>4. OwnedOnce(c0)'
    <3>1. \A h \in G : c0 \notin {conn'[h], req'[h]}
      BY <1>0, <1>8, <2>2, <2>3
    <3>2. /\ \A h \in Goroutine : c0 \in todo'[h] \cup fin'[h] => h = g
          /\ c0 \notin fin'[g] /\ dc'[c0] = "open" /\ g \in Goroutine
      BY <1>0, <1>8, <2>2, <2>3
    <3>. QED BY <1>8, <2>2, <2>3, <3>1, <3>2, OwnedByCloser
  <2>5. ASSUME NEW c \in Conns, c # c0 PROVE Untouched(c)
    BY <1>0, <1>1, <1>8, <2>1, <2>2, <2>3, <2>5 DEF Untouched
  <2>. QED BY <1>0, <2>4, <2>5, OwnedSame
<1>9. ASSUME NEW g \in G, PutBad(g) PROVE \A c \in Conns : OwnedOnce(c)'
  <2>1. \A c \in Conns : c # conn[g] => inUse'[c] = inUse[c]
    BY <1>1, <1>9 DEF PutBad
  <2>. QED BY <1>8, <1>9, <2>1 DEF PutBad
\* putConnDBLocked for a connection that nobody has but its caller.
<1>10. ASSUME NEW c0 \in Conns, PutConnDB(c0), dc'[c0] = "open", c0 \notin freeConn,
              \A h \in Goroutine : c0 \notin todo'[h] \cup fin'[h],
              \A h \in G : c0 \notin {conn'[h], req[h]},
              \A c \in Conns : c # c0 => /\ dc'[c] = dc[c]
                                         /\ \A h \in G : conn'[h] = c <=> conn[h] = c,
              UNCHANGED <<todo, fin>>
       PROVE  \A c \in Conns : OwnedOnce(c)'
  <2>1. CASE \E g \in ToSet(connRequests) :
               /\ g \in G /\ req' = [req EXCEPT ![g] = c0] /\ UNCHANGED freeConn
               /\ ~closed /\ inUse' = [inUse EXCEPT ![c0] = TRUE]
    <3>1. PICK g \in G : /\ g \in ToSet(connRequests) /\ req' = [req EXCEPT ![g] = c0]
                         /\ inUse' = [inUse EXCEPT ![c0] = TRUE]
      BY <2>1
    <3>2. req[g] = "empty"
      BY <2>1, <3>1 DEF IInv, Alive, Waiting
    <3>3. req'[g] = c0 /\ inUse'[c0] /\ \A h \in G : h # g => req'[h] = req[h]
      BY <1>1, <3>1
    <3>4. OwnedOnce(c0)'
      <4>1. \A h \in G : c0 \in {conn'[h], req'[h]} => h = g
        BY <1>10, <3>3
      <4>. QED BY <1>10, <2>1, <3>3, <4>1, OwnedByUser
    <3>5. ASSUME NEW c \in Conns, c # c0 PROVE Untouched(c)
      <4>1. \A h \in G : (c \in {conn'[h], req'[h]}) <=> (c \in {conn[h], req[h]})
        BY <1>0, <1>10, <3>2, <3>3, <3>5
      <4>. QED BY <1>1, <1>10, <2>1, <3>1, <3>5, <4>1 DEF Untouched
    <3>. QED BY <1>0, <3>4, <3>5, OwnedSame
  <2>2. CASE /\ freeConn' = freeConn \cup {c0} /\ UNCHANGED req
             /\ inUse' = [inUse EXCEPT ![c0] = FALSE]
    <3>1. OwnedOnce(c0)'
      <4>1. ~inUse'[c0] /\ c0 \in freeConn'
        BY <1>1, <2>2
      <4>2. \A h \in Goroutine : ~Has(h, c0)'
        BY <1>10, <2>2 DEF Has
      <4>3. \A h \in G : c0 \notin {conn'[h], req'[h]}
        BY <1>10, <2>2
      <4>. QED BY <1>10, <4>1, <4>2, <4>3 DEF OwnedOnce
    <3>2. ASSUME NEW c \in Conns, c # c0 PROVE Untouched(c)
      <4>1. \A h \in G : (c \in {conn'[h], req'[h]}) <=> (c \in {conn[h], req[h]})
        BY <1>10, <2>2, <3>2
      <4>. QED BY <1>1, <1>10, <2>2, <3>2, <4>1 DEF Untouched
    <3>. QED BY <1>0, <3>1, <3>2, OwnedSame
  <2>. QED BY <1>10, <2>1, <2>2, PutAway
<1>11. ASSUME NEW g \in G, PutConn(g) PROVE \A c \in Conns : OwnedOnce(c)'
  <2>1. /\ pc[g] = "using" /\ conn' = [conn EXCEPT ![g] = NoConn] /\ UNCHANGED <<dc, fin>>
    BY <1>11 DEF PutConn
  <2>2. PICK c0 \in Conns : c0 = conn[g]
    BY <1>0, <1>1, <2>1 DEF AtPlace
  <2>3. CASE PutConnDB(conn[g]) /\ UNCHANGED todo
    <3>1. /\ c0 \notin freeConn /\ dc'[c0] = "open"
          /\ \A h \in Goroutine : c0 \notin todo[h] \cup fin[h]
          /\ \A h \in G : c0 \in {conn[h], req[h]} => h = g
          /\ req[g] # c0
      <4>1. dc'[c0] = "open"
        BY <1>0, <2>1, <2>2 DEF OwnedOnce
      <4>. QED BY <1>0, <2>2, <4>1, NobodyElse
    <3>2. conn'[g] = NoConn /\ \A h \in G : h # g => conn'[h] = conn[h]
      BY <1>1, <2>1
    <3>3. \A h \in G : c0 \notin {conn'[h], req[h]}
      BY <1>0, <3>1, <3>2
    <3>4. \A c \in Conns : c # c0 => \A h \in G : conn'[h] = c <=> conn[h] = c
      BY <1>0, <2>2, <3>2
    <3>. QED BY <1>10, <2>1, <2>2, <2>3, <3>1, <3>3, <3>4
  <2>4. CASE /\ inUse' = [inUse EXCEPT ![conn[g]] = FALSE]
             /\ todo' = [todo EXCEPT ![g] = {conn[g]}] /\ UNCHANGED <<freeConn, req>>
    <3>1. \A c \in Conns : c # conn[g] => inUse'[c] = inUse[c]
      BY <1>1, <2>4
    <3>. QED BY <1>8, <2>1, <2>4, <3>1
  <2>. QED BY <1>11, <2>3, <2>4 DEF PutConn
<1>12. ASSUME NEW g \in G, Close(g) PROVE \A c \in Conns : OwnedOnce(c)'
  <2>0. SUFFICES ASSUME NEW c \in Conns PROVE OwnedOnce(c)'
    OBVIOUS
  <2>1. /\ pc[g] = "out" /\ freeConn' = {} /\ UNCHANGED <<inUse, conn, todo>>
        /\ fin' = [fin EXCEPT ![g] = {d \in freeConn : dc[d] = "open"}]
        /\ dc'[c] = IF c \in freeConn THEN "closed" ELSE dc[c]
        /\ \A h \in G : req'[h] = IF h \in ToSet(connRequests) THEN "closed" ELSE req[h]
    BY <1>12 DEF Close
  <2>2. /\ fin'[g] = {d \in freeConn : dc[d] = "open"} /\ todo[g] = {} /\ fin[g] = {}
        /\ \A h \in Goroutine : h # g => fin'[h] = fin[h]
    BY <1>0, <1>1, <2>1 DEF AtPlace
  <2>3. \A h \in ToSet(connRequests) : h \in G /\ (req[h] = "empty" \/ req[h] = "closed")
    <3>1. ToSet(connRequests) \subseteq G
      BY <1>0, Listed
    <3>. QED BY <1>12, <3>1 DEF IInv, Alive, Waiting, Close
  <2>4. CASE c \in freeConn
    <3>1. /\ dc[c] = "open" /\ \A h \in Goroutine : c \notin todo[h] \cup fin[h]
          /\ \A h \in G : c \notin {conn[h], req[h]}
      <4>1. dc[c] = "open"
        BY <1>0, <2>4 DEF OwnedOnce
      <4>. QED BY <1>0, <2>4, <4>1, NobodyElse
    <3>2. \A h \in G : c \notin {conn'[h], req'[h]}
      BY <1>0, <2>1, <3>1
    <3>3. /\ c \in fin'[g] /\ c \notin todo'[g] /\ dc'[c] = "closed" /\ g \in Goroutine
          /\ \A h \in Goroutine : c \in todo'[h] \cup fin'[h] => h = g
      BY <1>0, <2>1, <2>2, <2>4, <3>1
    <3>. QED BY <2>1, <3>2, <3>3, OwnedByCloser
  <2>5. CASE c \notin freeConn
    <3>1. \A h \in G : req'[h] = c <=> req[h] = c
      BY <1>0, <2>1, <2>3
    <3>. QED BY <1>0, <2>1, <2>2, <2>5, <3>1, OwnedSame DEF Untouched
  <2>. QED BY <2>4, <2>5
<1>13. ASSUME NEW g \in G, NEW l, NEW n, l # "closing", SetIdle(g, l, n)
       PROVE \A c \in Conns : OwnedOnce(c)'
  <2>1. \E S \in SUBSET freeConn : freeConn' = freeConn \ S /\ todo' = [todo EXCEPT ![g] = S]
    BY <1>13 DEF SetIdle
  <2>2. pc[g] # "closing" /\ UNCHANGED <<dc, inUse, conn, req, fin>> /\ g \in Goroutine
    BY <1>0, <1>13 DEF SetIdle
  <2>. QED BY <1>0, <2>1, <2>2, TakenToClose
<1>14. ASSUME NEW g \in G, SetMaxIdleConns(g) \/ SyncMaxIdle(g)
       PROVE \A c \in Conns : OwnedOnce(c)'
  <2>1. CASE SetMaxIdleConns(g)
    BY <1>13, <2>1 DEF SetMaxIdleConns
  <2>2. CASE SyncMaxIdle(g)
    <3>1. PICK n : n = arg[g]
      OBVIOUS
    <3>. QED BY <1>13, <2>2, <3>1 DEF SyncMaxIdle
  <2>. QED BY <1>14, <2>1, <2>2
<1>15. ASSUME NEW g \in Goroutine, NEW c0 \in Conns, CloseConn(g, c0)
       PROVE \A c \in Conns : OwnedOnce(c)'
  <2>1. /\ c0 \in todo[g] /\ fin[g] = {} /\ todo' = [todo EXCEPT ![g] = @ \ {c0}]
        /\ UNCHANGED <<freeConn, inUse, conn, req>>
    BY <1>15 DEF CloseConn
  <2>2. dc[c0] = "open"
    BY <1>0, <2>1 DEF OwnedOnce
  <2>3. dc' = [dc EXCEPT ![c0] = "closed"] /\ fin' = [fin EXCEPT ![g] = @ \cup {c0}]
    BY <1>15, <2>2 DEF CloseConn
  <2>4. /\ c0 \notin freeConn /\ \A h \in Goroutine : c0 \in todo[h] \cup fin[h] => h = g
        /\ \A h \in G : c0 \notin {conn[h], req[h]}
    BY <1>0, <2>1, NobodyElse
  <2>5. /\ todo'[g] = todo[g] \ {c0} /\ fin'[g] = fin[g] \cup {c0} /\ dc'[c0] = "closed"
        /\ \A h \in Goroutine : h # g => todo'[h] = todo[h] /\ fin'[h] = fin[h]
    BY <1>1, <2>1, <2>3
  <2>6. OwnedOnce(c0)'
    <3>1. c0 \in fin'[g] /\ c0 \notin todo'[g]
          /\ \A h \in Goroutine : c0 \in todo'[h] \cup fin'[h] => h = g
      BY <2>4, <2>5
    <3>2. \A h \in G : c0 \notin {conn'[h], req'[h]}
      BY <2>1, <2>4
    <3>. QED BY <2>1, <2>4, <2>5, <3>1, <3>2, OwnedByCloser
  <2>7. ASSUME NEW c \in Conns, c # c0 PROVE Untouched(c)
    <3>1. \A h \in Goroutine : /\ (c \in todo'[h]) <=> (c \in todo[h])
                               /\ (c \in fin'[h]) <=> (c \in fin[h])
      BY <2>5, <2>7
    <3>. QED BY <1>1, <2>1, <2>3, <2>7, <3>1 DEF Untouched
  <2>. QED BY <1>0, <2>6, <2>7, OwnedSame
<1>16. ASSUME NEW g \in Goroutine, NEW c0 \in Conns, FinalClose(g, c0)
       PROVE \A c \in Conns : OwnedOnce(c)'
  <2>1. /\ c0 \in fin[g] /\ fin' = [fin EXCEPT ![g] = @ \ {c0}]
        /\ dc' = [dc EXCEPT ![c0] = "none"] /\ inUse' = [inUse EXCEPT ![c0] = FALSE]
        /\ UNCHANGED <<freeConn, conn, req, todo>>
    BY <1>16 DEF FinalClose
  <2>2. /\ c0 \notin freeConn /\ \A h \in Goroutine : c0 \in todo[h] \cup fin[h] => h = g
        /\ c0 \notin todo[g] /\ \A h \in G : c0 \notin {conn[h], req[h]}
    BY <1>0, <2>1, NobodyElse
  <2>3. /\ fin'[g] = fin[g] \ {c0} /\ dc'[c0] = "none"
        /\ \A h \in Goroutine : h # g => fin'[h] = fin[h]
    BY <1>1, <2>1
  <2>4. OwnedOnce(c0)'
    <3>1. \A h \in Goroutine : ~Has(h, c0)'
      <4>1. \A h \in Goroutine : c0 \notin todo'[h] \cup fin'[h]
        BY <2>1, <2>2, <2>3
      <4>2. \A h \in G : c0 \notin {conn'[h], req'[h]}
        BY <2>1, <2>2
      <4>. QED BY <4>1, <4>2 DEF Has
    <3>2. \A h \in G : c0 \notin {conn'[h], req'[h]}
      BY <2>1, <2>2
    <3>3. \A h \in Goroutine : c0 \notin todo'[h] /\ c0 \notin fin'[h]
      BY <3>1 DEF Has
    <3>. QED BY <2>1, <2>2, <2>3, <3>1, <3>2, <3>3 DEF OwnedOnce
  <2>5. ASSUME NEW c \in Conns, c # c0 PROVE Untouched(c)
    <3>1. \A h \in Goroutine : (c \in fin'[h]) <=> (c \in fin[h])
      BY <2>3, <2>5
    <3>. QED BY <1>1, <2>1, <2>5, <3>1 DEF Untouched
  <2>. QED BY <1>0, <2>4, <2>5, OwnedSame
<1>17. ASSUME NEW g \in Goroutine, CloseReturns(g)
       PROVE UNCHANGED <<freeConn, dc, inUse, conn, req, todo, fin>>
  BY <1>17 DEF CloseReturns
<1>18. ASSUME OpenerReceive \/ OpenerClosed
       PROVE UNCHANGED <<freeConn, dc, inUse, conn, req, todo, fin>>
  BY <1>18 DEF OpenerReceive, OpenerClosed
<1>19. ASSUME OpenerFailed PROVE \A c \in Conns : OwnedOnce(c)'
  <2>1. ~closed /\ UNCHANGED <<freeConn, dc, inUse, conn, todo, fin>>
    BY <1>19 DEF OpenerFailed
  <2>2. \A c \in Conns, h \in G : req'[h] = c <=> req[h] = c
    <3>1. CASE AnswersRequest(numOpen - 1)
      <4>1. connRequests # <<>> /\ req' = [req EXCEPT ![Head(connRequests)] = "error"]
        BY <1>19, <3>1 DEF OpenerFailed, AnswersRequest
      <4>2. Head(connRequests) \in ToSet(connRequests) /\ Head(connRequests) \in G
        BY <1>0, <4>1, Popped DEF IInv
      <4>3. req[Head(connRequests)] = "empty"
        BY <2>1, <4>2 DEF IInv, Alive, Waiting
      <4>. QED BY <1>0, <1>1, <4>1, <4>2, <4>3
    <3>2. CASE ~AnswersRequest(numOpen - 1)
      BY <1>19, <3>2 DEF OpenerFailed
    <3>. QED BY <3>1, <3>2
  <2>. QED BY <1>0, <2>1, <2>2, OwnedSame DEF Untouched
<1>20. ASSUME OpenerOpened PROVE \A c \in Conns : OwnedOnce(c)'
  <2>1. UNCHANGED <<conn, todo, fin>>
    BY <1>20 DEF OpenerOpened
  <2>2. ASSUME NEW c0 \in Conns, dc[c0] = "none", PutConnDB(c0), dc' = [dc EXCEPT ![c0] = "open"]
        PROVE  \A c \in Conns : OwnedOnce(c)'
    <3>1. /\ c0 \notin freeConn /\ \A h \in Goroutine : c0 \notin todo[h] \cup fin[h]
          /\ \A h \in G : c0 \notin {conn[h], req[h]}
      BY <1>0, <2>2, NobodyElse
    <3>2. dc'[c0] = "open" /\ \A c \in Conns : c # c0 => dc'[c] = dc[c]
      BY <1>1, <2>2
    <3>3. /\ \A h \in Goroutine : c0 \notin todo'[h] \cup fin'[h]
          /\ \A h \in G : c0 \notin {conn'[h], req[h]}
          /\ \A c \in Conns, h \in G : conn'[h] = c <=> conn[h] = c
      BY <2>1, <3>1
    <3>. QED BY <1>10, <2>1, <2>2, <3>1, <3>2, <3>3
  <2>3. CASE UNCHANGED <<freeConn, dc, inUse, req>>
    BY <1>2, <2>1, <2>3
  <2>. QED BY <1>20, <2>2, <2>3 DEF OpenerOpened
<1>21. ASSUME CleanerWakes PROVE \A c \in Conns : OwnedOnce(c)'
  <2>1. CASE UNCHANGED <<freeConn, todo>>
    BY <1>2, <1>21, <2>1 DEF CleanerWakes
  <2>2. CASE \E S \in SUBSET freeConn : /\ freeConn' = freeConn \ S
                                        /\ todo' = [todo EXCEPT ![Cleaner] = S]
    <3>1. /\ Cleaner \in Goroutine /\ pc[Cleaner] # "closing"
          /\ UNCHANGED <<dc, inUse, conn, req, fin>>
      BY <1>21 DEF CleanerWakes, Goroutine
    <3>. QED BY <1>0, <2>2, <3>1, TakenToClose
  <2>. QED BY <1>21, <2>1, <2>2 DEF CleanerWakes
<1>. QED
  BY <1>2, <1>3, <1>4, <1>5, <1>6, <1>7, <1>9, <1>11, <1>12, <1>14, <1>15, <1>16, <1>17,
     <1>18, <1>19, <1>20, <1>21, Steps DEF vars

\* How the counts change: a connection begins or ceases to exist, an open begins or ends.
LEMMA ExistingMore ==
  ASSUME NEW c \in Conns, dc[c] = "none", dc' = [dc EXCEPT ![c] = "open"],
         TypeOK, IsFiniteSet(Existing)
  PROVE  Cardinality(Existing') = Cardinality(Existing) + 1
<1>1. Existing' = Existing \cup {c} /\ c \notin Existing
  BY DEF Existing, TypeOK
<1>. QED BY <1>1, FS_AddElement

LEMMA ExistingLess ==
  ASSUME NEW c \in Conns, dc[c] # "none", dc' = [dc EXCEPT ![c] = "none"],
         TypeOK, IsFiniteSet(Existing)
  PROVE  Cardinality(Existing') = Cardinality(Existing) - 1
<1>1. Existing' = Existing \ {c} /\ c \in Existing
  BY DEF Existing, TypeOK
<1>. QED BY <1>1, FS_RemoveElement

LEMMA OpeningMore ==
  ASSUME NEW g \in G, pc[g] # "opening", pc' = [pc EXCEPT ![g] = "opening"],
         TypeOK, IsFiniteSet(OpeningNow)
  PROVE  Cardinality(OpeningNow') = Cardinality(OpeningNow) + 1
<1>1. OpeningNow' = OpeningNow \cup {g} /\ g \notin OpeningNow
  BY DEF OpeningNow, TypeOK, Goroutine
<1>. QED BY <1>1, FS_AddElement

LEMMA OpeningLess ==
  ASSUME NEW g \in G, pc[g] = "opening", NEW l, l # "opening", pc' = [pc EXCEPT ![g] = l],
         TypeOK, IsFiniteSet(OpeningNow)
  PROVE  Cardinality(OpeningNow') = Cardinality(OpeningNow) - 1
<1>1. OpeningNow' = OpeningNow \ {g} /\ g \in OpeningNow
  BY DEF OpeningNow, TypeOK, Goroutine
<1>. QED BY <1>1, FS_RemoveElement

LEMMA OpeningSame ==
  ASSUME NEW g \in Goroutine, pc[g] # "opening", NEW l, l # "opening",
         pc' = [pc EXCEPT ![g] = l], TypeOK
  PROVE  OpeningNow' = OpeningNow
  BY DEF OpeningNow, TypeOK, Goroutine

\* What is opened, asked for, or gone is counted at once, in the same section.
LEMMA NextCounted ==
  ASSUME IsFiniteSet(G), IsFiniteSet(Conns), IInv, ~panicked, [Next]_vars, ~panicked'
  PROVE  Counted'
<1>. USE DEF settings, pool, conns, locals, Return, Goto
<1>0. /\ TypeOK /\ Counted /\ AtPlace /\ G \subseteq Goroutine
      /\ Cardinality(Existing) \in Nat /\ Cardinality(OpeningNow) \in Nat
      /\ IsFiniteSet(Existing) /\ IsFiniteSet(OpeningNow)
      /\ openerCh \in Nat /\ numOpen \in Nat
  BY Counts DEF IInv, Alive, Goroutine
<1>1. CASE UNCHANGED <<numOpen, openerCh, opener>> /\ Existing' = Existing /\ OpeningNow' = OpeningNow
  BY <1>0, <1>1 DEF Counted
<1>2. UNCHANGED dc => Existing' = Existing
  BY DEF Existing
<1>3. UNCHANGED pc => OpeningNow' = OpeningNow
  BY DEF OpeningNow
<1>4. ASSUME NEW g \in Goroutine, pc[g] # "opening", UNCHANGED <<numOpen, openerCh, opener, dc>>,
             \/ UNCHANGED pc
             \/ \E l : l # "opening" /\ pc' = [pc EXCEPT ![g] = l]
      PROVE  Counted'
  BY <1>0, <1>1, <1>2, <1>3, <1>4, OpeningSame
<1>5. ASSUME NEW g \in G, Call(g) \/ ConnClosed(g) \/ ConnRequest(g) \/ SetMaxIdleConns(g)
                            \/ SyncMaxIdle(g) \/ SetMaxOpenConns(g) \/ SetConnMaxLifetime(g)
      PROVE  Counted'
  <2>1. CASE Call(g) \/ ConnClosed(g) \/ ConnRequest(g)
    <3>1. pc[g] # "opening" /\ UNCHANGED <<numOpen, openerCh, opener, dc>>
      BY <2>1 DEF Call, ConnClosed, ConnRequest
    <3>2. \E l : l # "opening" /\ pc' = [pc EXCEPT ![g] = l]
      BY <2>1 DEF Call, ConnClosed, ConnRequest
    <3>. QED BY <1>0, <1>4, <3>1, <3>2
  <2>2. CASE SetMaxIdleConns(g) \/ SyncMaxIdle(g)
    <3>1. pc[g] # "opening" /\ UNCHANGED <<numOpen, openerCh, opener, dc>>
      BY <2>2 DEF SetMaxIdleConns, SyncMaxIdle, SetIdle
    <3>2. \E l : l # "opening" /\ pc' = [pc EXCEPT ![g] = l]
      BY <2>2 DEF SetMaxIdleConns, SyncMaxIdle, SetIdle
    <3>. QED BY <1>0, <1>4, <3>1, <3>2
  <2>3. CASE SetMaxOpenConns(g)
    <3>1. pc[g] # "opening" /\ UNCHANGED <<numOpen, openerCh, opener, dc>>
      BY <2>3 DEF SetMaxOpenConns
    <3>2. UNCHANGED pc \/ \E l : l # "opening" /\ pc' = [pc EXCEPT ![g] = l]
      BY <2>3 DEF SetMaxOpenConns
    <3>. QED BY <1>0, <1>4, <3>1, <3>2
  <2>4. CASE SetConnMaxLifetime(g)
    BY <1>1, <1>2, <1>3, <2>4 DEF SetConnMaxLifetime
  <2>. QED BY <1>5, <2>1, <2>2, <2>3, <2>4
<1>6. ASSUME NEW g \in G, ConnFree(g) \/ ConnAnswered(g) PROVE Counted'
  <2>1. pc[g] # "opening" /\ UNCHANGED <<numOpen, openerCh, opener, dc>>
    BY <1>6 DEF ConnFree, ConnAnswered
  <2>2. \E l : l # "opening" /\ pc' = [pc EXCEPT ![g] = l]
    BY <1>6 DEF ConnFree, ConnAnswered, Got, TryAgain
  <2>. QED BY <1>0, <1>4, <2>1, <2>2
<1>7. ASSUME NEW g \in G, ConnOpen(g) PROVE Counted'
  <2>1. /\ pc[g] # "opening" /\ pc' = [pc EXCEPT ![g] = "opening"]
        /\ numOpen' = numOpen + 1 /\ UNCHANGED <<openerCh, opener, dc>>
    BY <1>7 DEF ConnOpen
  <2>2. Cardinality(OpeningNow') = Cardinality(OpeningNow) + 1
    BY <1>0, <2>1, OpeningMore
  <2>. QED BY <1>0, <1>2, <2>1, <2>2 DEF Counted
<1>8. ASSUME NEW g \in G, OpenFailed(g) PROVE Counted'
  <2>1. /\ pc[g] = "opening" /\ \E l \in {"out", "call"} : pc' = [pc EXCEPT ![g] = l]
        /\ UNCHANGED <<opener, dc>>
        /\ MaybeOpenNewConnections(numOpen - 1, connRequests, opener)
    BY <1>8 DEF OpenFailed, TryAgain
  <2>2. Cardinality(OpeningNow') = Cardinality(OpeningNow) - 1
    BY <1>0, <2>1, OpeningLess
  <2>3. numOpen - 1 \in Nat /\ connRequests \in Seq(G) /\ opener \in BOOLEAN
    BY <1>0, <2>1, Counts DEF TypeOK
  <2>4. numOpen' - (numOpen - 1) = openerCh' - openerCh /\ numOpen' \in Nat /\ openerCh' \in Nat
    BY <2>1, <2>3, GivenBack
  <2>. QED BY <1>0, <1>2, <2>1, <2>2, <2>4 DEF Counted
<1>9. ASSUME NEW g \in G, Opened(g) PROVE Counted'
  <2>1. /\ pc[g] = "opening" /\ pc' = [pc EXCEPT ![g] = "using"]
        /\ UNCHANGED <<numOpen, openerCh, opener>>
        /\ \E c \in Conns : dc[c] = "none" /\ dc' = [dc EXCEPT ![c] = "open"]
    BY <1>9 DEF Opened
  <2>2. Cardinality(OpeningNow') = Cardinality(OpeningNow) - 1
    BY <1>0, <2>1, OpeningLess
  <2>3. Cardinality(Existing') = Cardinality(Existing) + 1
    BY <1>0, <2>1, ExistingMore
  <2>. QED BY <1>0, <2>1, <2>2, <2>3 DEF Counted
<1>10. ASSUME NEW g \in G, PutBad(g) PROVE Counted'
  <2>1. /\ pc[g] = "using" /\ pc' = [pc EXCEPT ![g] = "closing"] /\ UNCHANGED <<opener, dc>>
        /\ MaybeOpenNewConnections(numOpen, connRequests, opener)
    BY <1>10 DEF PutBad
  <2>2. OpeningNow' = OpeningNow
    BY <1>0, <2>1, OpeningSame
  <2>3. connRequests \in Seq(G) /\ opener \in BOOLEAN
    BY <1>0 DEF TypeOK
  <2>4. numOpen' - numOpen = openerCh' - openerCh /\ numOpen' \in Nat /\ openerCh' \in Nat
    BY <1>0, <2>1, <2>3, GivenBack
  <2>. QED BY <1>0, <1>2, <2>1, <2>2, <2>4 DEF Counted
<1>11. ASSUME NEW g \in G, PutConn(g) PROVE Counted'
  <2>1. pc[g] # "opening" /\ UNCHANGED <<numOpen, openerCh, opener, dc>>
    BY <1>11 DEF PutConn
  <2>2. \E l : l # "opening" /\ pc' = [pc EXCEPT ![g] = l]
    BY <1>11 DEF PutConn
  <2>. QED BY <1>0, <1>4, <2>1, <2>2
<1>12. ASSUME NEW g \in G, Close(g) PROVE Counted'
  <2>1. /\ pc[g] # "opening" /\ pc' = [pc EXCEPT ![g] = "closing"]
        /\ UNCHANGED <<numOpen, openerCh, opener>>
        /\ dc' = [c \in Conns |-> IF c \in freeConn THEN "closed" ELSE dc[c]]
    BY <1>12 DEF Close
  <2>2. \A c \in Conns : dc'[c] # "none" <=> dc[c] # "none"
    BY <2>1 DEF IInv, Alive, OwnedOnce
  <2>3. OpeningNow' = OpeningNow
    BY <1>0, <2>1, OpeningSame
  <2>. QED BY <1>1, <2>1, <2>2, <2>3 DEF Existing
<1>13. ASSUME NEW g \in Goroutine, NEW c \in Conns, CloseConn(g, c) PROVE Counted'
  <2>1. /\ UNCHANGED <<numOpen, openerCh, opener, pc>>
        /\ IF dc[c] = "open" THEN dc' = [dc EXCEPT ![c] = "closed"] ELSE UNCHANGED dc
    BY <1>13 DEF CloseConn
  <2>2. Existing' = Existing
    BY <1>0, <2>1 DEF Existing, TypeOK
  <2>. QED BY <1>1, <1>3, <2>1, <2>2
<1>14. ASSUME NEW g \in Goroutine, NEW c \in Conns, FinalClose(g, c) PROVE Counted'
  <2>1. /\ c \in fin[g] /\ dc' = [dc EXCEPT ![c] = "none"] /\ UNCHANGED <<opener, pc>>
        /\ MaybeOpenNewConnections(numOpen - 1, connRequests, opener)
    BY <1>14 DEF FinalClose
  <2>2. dc[c] # "none"
    BY <2>1 DEF IInv, Alive, OwnedOnce
  <2>3. Cardinality(Existing') = Cardinality(Existing) - 1
    BY <1>0, <2>1, <2>2, ExistingLess
  <2>4. numOpen - 1 \in Nat /\ connRequests \in Seq(G) /\ opener \in BOOLEAN
    BY <1>0, <2>2, Counts DEF TypeOK
  <2>5. numOpen' - (numOpen - 1) = openerCh' - openerCh /\ numOpen' \in Nat /\ openerCh' \in Nat
    BY <2>1, <2>4, GivenBack
  <2>. QED BY <1>0, <1>3, <2>1, <2>3, <2>5 DEF Counted
<1>15. ASSUME NEW g \in Goroutine, CloseReturns(g) PROVE Counted'
  <2>1. pc[g] # "opening" /\ UNCHANGED <<numOpen, openerCh, opener, dc>>
    BY <1>15 DEF CloseReturns
  <2>2. \E l : l # "opening" /\ pc' = [pc EXCEPT ![g] = l]
    BY <1>15 DEF CloseReturns, TryAgain
  <2>. QED BY <1>4, <2>1, <2>2
<1>16. ASSUME OpenerReceive \/ OpenerClosed PROVE Counted'
  <2>1. UNCHANGED <<dc, pc>>
    BY <1>16 DEF OpenerReceive, OpenerClosed
  <2>2. Existing' = Existing /\ OpeningNow' = OpeningNow
    BY <1>2, <1>3, <2>1
  <2>3. CASE OpenerReceive
    BY <1>0, <2>2, <2>3 DEF OpenerReceive, Counted
  <2>4. CASE OpenerClosed
    BY <1>0, <2>2, <2>4 DEF OpenerClosed, Counted
  <2>. QED BY <1>16, <2>3, <2>4
<1>17. ASSUME OpenerFailed PROVE Counted'
  <2>1. /\ opener /\ opener' = FALSE /\ UNCHANGED <<dc, pc>>
        /\ MaybeOpenNewConnections(numOpen - 1, connRequests', FALSE)
    BY <1>17 DEF OpenerFailed
  <2>2. numOpen' - (numOpen - 1) = openerCh' - openerCh /\ numOpen' \in Nat /\ openerCh' \in Nat
    <3>1. PICK r \in Seq(G) : r = connRequests'
      BY <1>17, NextTypeOK DEF TypeOK
    <3>2. MaybeOpenNewConnections(numOpen - 1, r, FALSE)
      BY <2>1, <3>1
    <3>3. numOpen - 1 \in Nat /\ FALSE \in BOOLEAN
      BY <2>1, Counts
    <3>. QED BY <3>2, <3>3, GivenBack
  <2>. QED BY <1>0, <1>2, <1>3, <2>1, <2>2 DEF Counted
<1>18. ASSUME OpenerOpened PROVE Counted'
  <2>1. opener /\ opener' = FALSE /\ UNCHANGED <<openerCh, pc>>
    BY <1>18 DEF OpenerOpened
  <2>2. \/ UNCHANGED numOpen /\ \E c \in Conns : dc[c] = "none" /\ dc' = [dc EXCEPT ![c] = "open"]
        \/ numOpen' = numOpen - 1 /\ UNCHANGED dc
    BY <1>18 DEF OpenerOpened
  <2>3. \/ numOpen' = numOpen /\ Cardinality(Existing') = Cardinality(Existing) + 1
        \/ numOpen' = numOpen - 1 /\ Existing' = Existing
    BY <1>0, <1>2, <2>2, ExistingMore
  <2>. QED BY <1>0, <1>3, <2>1, <2>3 DEF Counted
<1>19. ASSUME CleanerWakes PROVE Counted'
  <2>1. /\ pc[Cleaner] # "opening" /\ Cleaner \in Goroutine
        /\ UNCHANGED <<numOpen, openerCh, opener, dc>>
    BY <1>19 DEF CleanerWakes, Goroutine
  <2>2. UNCHANGED pc \/ \E l : l # "opening" /\ pc' = [pc EXCEPT ![Cleaner] = l]
    BY <1>19 DEF CleanerWakes
  <2>. QED BY <1>4, <2>1, <2>2
<1>20. CASE UNCHANGED vars
  BY <1>1, <1>2, <1>3, <1>20 DEF vars
<1>. QED
  BY <1>5, <1>6, <1>7, <1>8, <1>9, <1>10, <1>11, <1>12, <1>13, <1>14, <1>15, <1>16, <1>17,
     <1>18, <1>19, <1>20, Steps

\* Two of what is counted make numOpen two at least.
LEMMA CountsTwo ==
  ASSUME IsFiniteSet(G), IsFiniteSet(Conns), IInv, ~panicked, numOpen = 1
  PROVE  /\ (\E c \in Conns : dc[c] # "none") => openerCh = 0 /\ ~opener
         /\ (\E g \in G : pc[g] = "opening") => openerCh = 0 /\ ~opener
         /\ opener => openerCh = 0
<1>1. /\ Cardinality(Existing) \in Nat /\ Cardinality(OpeningNow) \in Nat
      /\ IsFiniteSet(Existing) /\ IsFiniteSet(OpeningNow) /\ openerCh \in Nat
  BY Counts
<1>2. 1 = Cardinality(Existing) + openerCh + Cardinality(OpeningNow) + (IF opener THEN 1 ELSE 0)
  BY DEF IInv, Alive, Counted
<1>3. ASSUME NEW c \in Conns, dc[c] # "none" PROVE Cardinality(Existing) # 0
  BY <1>1, <1>3, FS_EmptySet DEF Existing
<1>4. ASSUME NEW g \in G, pc[g] = "opening" PROVE Cardinality(OpeningNow) # 0
  BY <1>1, <1>4, FS_EmptySet DEF OpeningNow
<1>5. CASE opener
  <2>1. /\ Cardinality(Existing) = 0 /\ Cardinality(OpeningNow) = 0 /\ openerCh = 0
    BY <1>1, <1>2, <1>5
  <2>. QED BY <1>3, <1>4, <2>1
<1>6. CASE ~opener
  <2>1. 1 = Cardinality(Existing) + openerCh + Cardinality(OpeningNow)
    BY <1>1, <1>2, <1>6
  <2>2. Cardinality(Existing) # 0 \/ Cardinality(OpeningNow) # 0 => openerCh = 0
    BY <1>1, <2>1
  <2>. QED BY <1>3, <1>4, <1>6, <2>2
<1>. QED BY <1>5, <1>6

\* Whoever gives a place back, the last one included, looks at the requests.
LEMMA NextNotEmpty ==
  ASSUME IsFiniteSet(G), IsFiniteSet(Conns), IInv, ~panicked, [Next]_vars, ~panicked'
  PROVE  NotEmpty'
<1>. USE DEF settings, pool, conns, locals, Return, Goto
<1>0. TypeOK /\ NotEmpty /\ connRequests \in Seq(G) /\ numOpen \in Nat /\ opener \in BOOLEAN
  BY DEF IInv, Alive, TypeOK
<1>1. CASE UNCHANGED <<numOpen, connRequests, closed>>
  BY <1>0, <1>1 DEF NotEmpty
\* MaybeOpenNewConnections, called with n places taken.
<1>2. ASSUME NEW n \in {numOpen, numOpen - 1}, n \in Nat, UNCHANGED <<connRequests, closed>>,
             MaybeOpenNewConnections(n, connRequests, opener),
             n = 0 => openerCh = 0 /\ ~opener
      PROVE  NotEmpty'
  BY <1>0, <1>2, GivenBack DEF NotEmpty
<1>3. ASSUME NEW g \in G, Call(g) \/ ConnClosed(g) \/ ConnFree(g) \/ ConnAnswered(g)
                            \/ Opened(g) \/ SetMaxOpenConns(g) \/ SetConnMaxLifetime(g)
      PROVE  UNCHANGED <<numOpen, connRequests, closed>>
  BY <1>3 DEF Call, ConnClosed, ConnFree, ConnAnswered, Opened, SetMaxOpenConns,
       SetConnMaxLifetime
<1>4. ASSUME NEW g \in G, SetMaxIdleConns(g) \/ SyncMaxIdle(g)
      PROVE  UNCHANGED <<numOpen, connRequests, closed>>
  BY <1>4 DEF SetMaxIdleConns, SyncMaxIdle, SetIdle
<1>5. ASSUME NEW g \in G, ConnRequest(g) PROVE NotEmpty'
  BY <1>0, <1>5 DEF ConnRequest, NotEmpty, TypeOK
<1>6. ASSUME NEW g \in G, ConnOpen(g) PROVE NotEmpty'
  BY <1>0, <1>6 DEF ConnOpen, NotEmpty
<1>7. ASSUME NEW g \in G, OpenFailed(g) PROVE NotEmpty'
  <2>1. pc[g] = "opening"
    BY <1>7 DEF OpenFailed
  <2>2. numOpen - 1 \in Nat /\ (numOpen - 1 = 0 => openerCh = 0 /\ ~opener)
    BY <1>0, <2>1, Counts, CountsTwo
  <2>. QED BY <1>2, <1>7, <2>2 DEF OpenFailed
<1>8. ASSUME NEW g \in G, PutBad(g) PROVE NotEmpty'
  <2>1. conn[g] \in Conns /\ dc[conn[g]] # "none"
    BY <1>0, <1>8 DEF IInv, Alive, TypeOK, PutBad, AtPlace, OwnedOnce
  <2>2. numOpen # 0
    BY <1>0, <2>1, Counts
  <2>. QED BY <1>0, <1>2, <1>8, <2>2 DEF PutBad
<1>9. ASSUME NEW c \in Conns, PutConnDB(c), UNCHANGED <<numOpen, closed>> PROVE NotEmpty'
  <2>1. connRequests' # <<>> => connRequests # <<>>
    <3>1. /\ connRequests' \in Seq(G)
          /\ ToSet(connRequests') \subseteq ToSet(connRequests)
      BY <1>0, <1>9, PutAway
    <3>. QED BY <1>0, <3>1, Listed
  <2>. QED BY <1>0, <1>9, <2>1 DEF NotEmpty
<1>10. ASSUME NEW g \in G, PutConn(g) PROVE NotEmpty'
  <2>1. conn[g] \in Conns /\ UNCHANGED <<numOpen, closed>>
    BY <1>0, <1>10 DEF IInv, Alive, TypeOK, PutConn, AtPlace
  <2>2. CASE PutConnDB(conn[g])
    <3>1. PICK c \in Conns : PutConnDB(c)
      BY <2>1, <2>2
    <3>. QED BY <1>9, <2>1, <3>1
  <2>3. CASE UNCHANGED connRequests
    BY <1>1, <2>1, <2>3
  <2>. QED BY <1>10, <2>2, <2>3 DEF PutConn
<1>11. ASSUME NEW g \in G, Close(g) PROVE NotEmpty'
  BY <1>11 DEF Close, NotEmpty
<1>12. ASSUME NEW g \in Goroutine, NEW c \in Conns, FinalClose(g, c) PROVE NotEmpty'
  <2>1. dc[c] # "none"
    BY <1>12 DEF IInv, Alive, OwnedOnce, FinalClose
  <2>2. numOpen - 1 \in Nat /\ (numOpen - 1 = 0 => openerCh = 0 /\ ~opener)
    BY <1>0, <2>1, Counts, CountsTwo
  <2>. QED BY <1>2, <1>12, <2>2 DEF FinalClose
<1>13. ASSUME NEW g \in Goroutine, NEW c \in Conns, CloseConn(g, c)
       PROVE UNCHANGED <<numOpen, connRequests, closed>>
  BY <1>13 DEF CloseConn
<1>14. ASSUME NEW g \in Goroutine, CloseReturns(g)
       PROVE UNCHANGED <<numOpen, connRequests, closed>>
  BY <1>14 DEF CloseReturns
<1>15. ASSUME OpenerReceive \/ CleanerWakes PROVE UNCHANGED <<numOpen, connRequests, closed>>
  BY <1>15 DEF OpenerReceive, CleanerWakes
<1>16. ASSUME OpenerClosed PROVE NotEmpty'
  BY <1>16 DEF OpenerClosed, NotEmpty
<1>17. ASSUME OpenerFailed PROVE NotEmpty'
  <2>1. opener /\ MaybeOpenNewConnections(numOpen - 1, connRequests', FALSE)
    BY <1>17 DEF OpenerFailed
  <2>2. PICK r \in Seq(G) : r = connRequests'
    BY <1>17, NextTypeOK DEF TypeOK
  <2>3. MaybeOpenNewConnections(numOpen - 1, r, FALSE)
    BY <2>1, <2>2
  <2>4. /\ numOpen - 1 \in Nat /\ FALSE \in BOOLEAN
        /\ numOpen - 1 > 0 \/ openerCh = 0
    BY <1>0, <2>1, Counts, CountsTwo
  <2>5. /\ r # <<>> /\ openerCh = 0 => numOpen' > 0
        /\ numOpen - 1 > 0 => numOpen' > 0
    BY <2>3, <2>4, GivenBack
  <2>. QED BY <2>2, <2>4, <2>5 DEF NotEmpty
<1>18. ASSUME OpenerOpened PROVE NotEmpty'
  <2>1. UNCHANGED closed
    BY <1>18 DEF OpenerOpened
  <2>2. CASE UNCHANGED numOpen /\ \E c \in Conns : PutConnDB(c)
    BY <1>9, <2>1, <2>2
  <2>3. CASE ~Added /\ numOpen' = numOpen - 1 /\ UNCHANGED connRequests
    <3>1. numOpen > maxOpen \/ connRequests = <<>>
      BY <1>0, <2>3 DEF Added, AnswersRequest, TypeOK
    <3>. QED BY <1>0, <2>3, <3>1 DEF NotEmpty, TypeOK
  <2>. QED BY <1>18, <2>2, <2>3 DEF OpenerOpened
<1>. QED
  BY <1>1, <1>3, <1>4, <1>5, <1>6, <1>7, <1>8, <1>10, <1>11, <1>12, <1>13, <1>14, <1>15,
     <1>16, <1>17, <1>18, Steps DEF vars

-----------------------------------------------------------------------------
LEMMA InitIInv ==
  ASSUME IsFiniteSet(G), Init
  PROVE  IInv
<1>. \A n \in MaxOpens : n \in Nat \ {0}
  BY LimitsAssumption
<1>0. 0 \in 0..MaxBadConnRetries
  BY LimitsAssumption
<1>1. <<>> \in Seq(G) /\ ToSet(<<>>) = {}
  BY EmptySeq, Listed
<1>2. TypeOK
  <2>1. maxOpen \in Nat \ {0} /\ maxIdle \in Int /\ maxLifetime \in Nat
        /\ numOpen \in Nat /\ openerCh \in Nat
    BY DEF Init
  <2>2. /\ freeConn \subseteq Conns /\ connRequests \in Seq(G)
        /\ closed \in BOOLEAN /\ panicked \in BOOLEAN
        /\ cleanerCh \in {"nil", "empty", "full", "closed"}
        /\ dc \in [Conns -> {"none", "open", "closed"}] /\ inUse \in [Conns -> BOOLEAN]
    BY <1>1 DEF Init
  <2>3. /\ pc \in [Goroutine -> PC] /\ tries \in [G -> 0..MaxBadConnRetries]
        /\ conn \in [G -> Conns \cup {NoConn}] /\ req \in [G -> Answer]
    BY <1>0 DEF Init, PC, Answer
  <2>4. /\ todo \in [Goroutine -> SUBSET Conns] /\ fin \in [Goroutine -> SUBSET Conns]
        /\ bad \in [Goroutine -> BOOLEAN] /\ arg \in [G -> MaxOpens \cup {0}]
        /\ lifetime \in [G -> Nat]
    BY DEF Init
  <2>5. opener \in BOOLEAN /\ pendingCounted \in BOOLEAN
    BY ReadingsAssumption DEF Init
  <2>. QED BY <2>1, <2>2, <2>3, <2>4, <2>5 DEF TypeOK
<1>3. IsInjective(connRequests)
  BY DEF Init, IsInjective
<1>4. IdleBounded
  <2>1. Cardinality({}) = 0
    BY FS_EmptySet
  <2>. QED BY <2>1 DEF Init, IdleBounded, MaxIdleConns
<1>5. AtPlace
  BY NamesAssumption DEF Init, AtPlace, Goroutine
<1>6. ASSUME NEW c \in Conns PROVE OwnedOnce(c)
  <2>1. \A g \in Goroutine : ~Has(g, c)
    BY NamesAssumption DEF Init, Has
  <2>. QED BY <2>1, NamesAssumption DEF Init, OwnedOnce
<1>7. Waiting /\ NotEmpty /\ PanicsClosed
  BY <1>1, NamesAssumption DEF Init, Waiting, Goroutine, NotEmpty, PanicsClosed
<1>8. Counted
  <2>1. Existing = {} /\ OpeningNow = {}
    BY NamesAssumption DEF Init, Existing, OpeningNow, Goroutine
  <2>2. Cardinality({}) = 0
    BY FS_EmptySet
  <2>. QED BY <2>1, <2>2 DEF Init, Counted
<1>. QED BY <1>2, <1>3, <1>4, <1>5, <1>6, <1>7, <1>8 DEF IInv, Alive

LEMMA NextIInv ==
  ASSUME IsFiniteSet(G), IsFiniteSet(Conns), IInv, [Next]_vars
  PROVE  IInv'
<1>1. TypeOK' /\ PanicsClosed' /\ IdleBounded' /\ IsInjective(connRequests)'
  BY NextTypeOK, NextPanicsClosed, NextIdleBounded
<1>2. CASE panicked
  <2>1. UNCHANGED vars
    BY <1>2 DEF Next
  <2>. QED BY <1>1, <1>2, <2>1 DEF IInv, vars, pool
<1>3. CASE ~panicked /\ ~panicked'
  BY <1>1, <1>3, NextAtPlace, NextOwned, NextWaiting, NextCounted, NextNotEmpty DEF IInv, Alive
<1>. QED BY <1>1, <1>2, <1>3 DEF IInv

LEMMA AlwaysIInv ==
  ASSUME IsFiniteSet(G), IsFiniteSet(Conns)
  PROVE  Spec => []IInv
BY InitIInv, NextIInv, PTL DEF Spec

\* The type invariant.
THEOREM TypeCorrect ==
  ASSUME IsFiniteSet(G), IsFiniteSet(Conns)
  PROVE  Spec => []TypeOK
<1>1. IInv => TypeOK
  BY DEF IInv
<1>. QED BY <1>1, AlwaysIInv, PTL

\* No connection is ever idle, an answer, in use, or to be closed in two places, nor lost
\* while it exists.
THEOREM OwnersAreUnique ==
  ASSUME IsFiniteSet(G), IsFiniteSet(Conns)
  PROVE  Spec => []OneOwner
<1>1. ASSUME IInv PROVE OneOwner
  <2>0. TypeOK
    BY <1>1 DEF IInv
  <2>. SUFFICES ASSUME ~panicked, NEW c \in Conns
        PROVE  /\ IF dc[c] = "none" THEN Owners(c) = {} ELSE \E o \in Owners(c) : Owners(c) = {o}
               /\ (\E g \in G : c \in {req[g], conn[g]}) => inUse[c] /\ dc[c] = "open"
               /\ c \in freeConn => ~inUse[c] /\ dc[c] = "open"
               /\ \A g \in Goroutine : c \in todo[g] => dc[c] = "open"
    BY <2>0 DEF OneOwner
  <2>1. OwnedOnce(c) /\ AtPlace /\ G \subseteq Goroutine
    BY <1>1 DEF IInv, Alive, Goroutine
  <2>2. /\ (\E g \in G : c \in {req[g], conn[g]}) => inUse[c] /\ dc[c] = "open"
        /\ c \in freeConn => ~inUse[c] /\ dc[c] = "open"
        /\ \A g \in Goroutine : c \in todo[g] => dc[c] = "open"
    BY <2>1 DEF OwnedOnce
  <2>3. CASE dc[c] = "none"
    BY <2>0, <2>1, <2>3, NobodyElse DEF Owners
  <2>4. ASSUME c \in freeConn PROVE \E o \in Owners(c) : Owners(c) = {o}
    <3>1. /\ \A g \in Goroutine : c \notin todo[g] \cup fin[g]
          /\ \A g \in G : c \notin {conn[g], req[g]}
      BY <2>0, <2>1, <2>4, NobodyElse
    <3>2. /\ {h \in Goroutine : c \in todo[h] \cup fin[h]} = {} /\ freeConn \cap {c} = {c}
          /\ {h \in G : req[h] = c} = {} /\ {h \in G : conn[h] = c} = {}
      BY <2>4, <3>1
    <3>3. Owners(c) = {<<"idle", c>>}
      BY <3>2 DEF Owners
    <3>. QED BY <3>3
  <2>5. ASSUME NEW g \in Goroutine, c \in todo[g] \cup fin[g], dc[c] # "none"
        PROVE  \E o \in Owners(c) : Owners(c) = {o}
    <3>1. /\ c \notin freeConn
          /\ \A h \in Goroutine : c \in todo[h] \cup fin[h] => h = g
          /\ \A h \in G : c \notin {conn[h], req[h]}
      BY <2>0, <2>1, <2>5, NobodyElse
    <3>2. {h \in Goroutine : c \in todo[h] \cup fin[h]} = {g}
      BY <2>5, <3>1
    <3>3. {h \in G : req[h] = c} = {} /\ {h \in G : conn[h] = c} = {} /\ freeConn \cap {c} = {}
      BY <3>1
    <3>4. Owners(c) = {<<"close", g>>}
      BY <3>2, <3>3 DEF Owners
    <3>. QED BY <3>4
  <2>6. ASSUME NEW g \in G, c \in {conn[g], req[g]}
        PROVE  \E o \in Owners(c) : Owners(c) = {o}
    <3>1. /\ c \notin freeConn
          /\ \A h \in Goroutine : c \notin todo[h] \cup fin[h]
          /\ \A h \in G : c \in {conn[h], req[h]} => h = g
          /\ ~(conn[g] = c /\ req[g] = c)
      BY <2>0, <2>1, <2>6, NobodyElse
    <3>2. {h \in Goroutine : c \in todo[h] \cup fin[h]} = {} /\ freeConn \cap {c} = {}
      BY <3>1
    <3>3. CASE conn[g] = c
      <4>1. {h \in G : conn[h] = c} = {g} /\ {h \in G : req[h] = c} = {}
        BY <3>1, <3>3
      <4>2. Owners(c) = {<<"use", g>>}
        BY <3>2, <4>1 DEF Owners
      <4>. QED BY <4>2
    <3>4. CASE req[g] = c
      <4>1. {h \in G : conn[h] = c} = {} /\ {h \in G : req[h] = c} = {g}
        BY <3>1, <3>4
      <4>2. Owners(c) = {<<"answer", g>>}
        BY <3>2, <4>1 DEF Owners
      <4>. QED BY <4>2
    <3>. QED BY <2>6, <3>3, <3>4
  <2>7. dc[c] # "none" => \/ c \in freeConn
                          \/ \E g \in G : c \in {conn[g], req[g]}
                          \/ \E g \in Goroutine : c \in todo[g] \cup fin[g]
    BY <2>1 DEF OwnedOnce, Has
  <2>. QED BY <2>2, <2>3, <2>4, <2>5, <2>6, <2>7
<1>. QED BY <1>1, AlwaysIInv, PTL

\* numOpen is what there is, is being opened, or has been asked for, exactly.
THEOREM CountIsExact ==
  ASSUME IsFiniteSet(G), IsFiniteSet(Conns)
  PROVE  Spec => []OpenCounted
<1>1. ASSUME IInv PROVE OpenCounted
  BY <1>1 DEF IInv, Alive, Counted, OpenCounted, Existing, OpeningNow
<1>. QED BY <1>1, AlwaysIInv, PTL

\* A request is in the list or has its answer, never both and never neither.
THEOREM NoRequestLost ==
  ASSUME IsFiniteSet(G), IsFiniteSet(Conns)
  PROVE  Spec => []RequestsAnswered
<1>1. ASSUME IInv PROVE RequestsAnswered
  BY <1>1 DEF IInv, Alive, AtPlace, Waiting, RequestsAnswered
<1>. QED BY <1>1, AlwaysIInv, PTL

\* The idle list keeps its limit, and keeps no connection from a request.
THEOREM IdleLimitHolds ==
  ASSUME IsFiniteSet(G), IsFiniteSet(Conns)
  PROVE  Spec => []IdleBounded
<1>1. IInv => IdleBounded
  BY DEF IInv
<1>. QED BY <1>1, AlwaysIInv, PTL

\* Who waits waits for somebody: numOpen is not 0, and what it counts is somewhere.
THEOREM NobodyIsStranded ==
  ASSUME IsFiniteSet(G), IsFiniteSet(Conns)
  PROVE  Spec => []NobodyStranded
<1>1. ASSUME IInv PROVE NobodyStranded
  <2>. SUFFICES ASSUME connRequests # <<>>, ~closed
        PROVE  /\ numOpen > 0
               /\ \/ openerCh > 0 \/ opener
                  \/ \E g \in G : pc[g] \in {"using", "opening"} \/ req[g] \in Conns
                  \/ \E g \in Goroutine : todo[g] \cup fin[g] # {}
                  \/ freeConn # {} /\ \A g \in ToSet(connRequests) : AlwaysNewConn(g)
    BY DEF NobodyStranded
  <2>1. ~panicked /\ Alive /\ IdleBounded /\ TypeOK
    BY <1>1 DEF IInv, PanicsClosed
  <2>2. numOpen > 0 /\ openerCh \in Nat
    BY <2>1 DEF Alive, NotEmpty, TypeOK
  <2>3. \/ openerCh > 0 \/ opener
        \/ \E c \in Conns : dc[c] # "none"
        \/ \E g \in G : pc[g] = "opening"
    <3>1. SUFFICES ASSUME openerCh = 0, ~opener, Existing = {}, OpeningNow = {} PROVE FALSE
      BY <2>2 DEF Existing, OpeningNow
    <3>2. Cardinality({}) = 0
      BY FS_EmptySet
    <3>3. numOpen = 0
      BY <2>1, <3>1, <3>2 DEF Alive, Counted
    <3>. QED BY <2>2, <3>3
  <2>4. ASSUME NEW c \in Conns, dc[c] # "none"
        PROVE  \/ \E g \in G : pc[g] = "using" \/ req[g] \in Conns
               \/ \E g \in Goroutine : todo[g] \cup fin[g] # {}
               \/ freeConn # {} /\ \A g \in ToSet(connRequests) : AlwaysNewConn(g)
    <3>1. c \in freeConn \/ \E g \in Goroutine : Has(g, c)
      BY <2>1, <2>4 DEF Alive, OwnedOnce
    <3>2. CASE c \in freeConn
      BY <2>1, <3>2 DEF IdleBounded
    <3>3. ASSUME NEW g \in Goroutine, Has(g, c)
          PROVE  \/ g \in G /\ (pc[g] = "using" \/ req[g] \in Conns)
                 \/ todo[g] \cup fin[g] # {}
      BY <2>1, <3>3, NamesAssumption DEF Has, Alive, AtPlace
    <3>. QED BY <3>1, <3>2, <3>3
  <2>. QED BY <2>2, <2>3, <2>4
<1>. QED BY <1>1, AlwaysIInv, PTL

\* Nothing is opened, by a client or the opener, beyond the limit of the moment.
THEOREM LimitIsKept ==
  ASSUME IsFiniteSet(G), IsFiniteSet(Conns)
  PROVE  Spec => LimitKept
<1>1. ASSUME IInv, [Next]_vars PROVE [numOpen' > numOpen => numOpen' <= maxOpen']_vars
  <2>. USE DEF settings, pool, conns, locals
  <2>1. SUFFICES ASSUME ~UNCHANGED vars PROVE numOpen' > numOpen => numOpen' <= maxOpen'
    OBVIOUS
  <2>2. ~panicked /\ numOpen \in Nat /\ TypeOK /\ maxOpen \in Nat
    BY <1>1, <2>1 DEF Next, IInv, TypeOK
  <2>3. CASE UNCHANGED numOpen
    BY <2>2, <2>3
  <2>4. CASE numOpen' = numOpen - 1
    BY <2>2, <2>4
  <2>5. ASSUME NEW n \in {numOpen, numOpen - 1}, n \in Nat, NEW r \in Seq(G), NEW busy \in BOOLEAN,
               MaybeOpenNewConnections(n, r, busy), UNCHANGED maxOpen
        PROVE  numOpen' > numOpen => numOpen' <= maxOpen'
    BY <1>1, <2>2, <2>5, GivenBack
  <2>6. ASSUME NEW g \in G, Call(g) \/ ConnClosed(g) \/ ConnFree(g) \/ ConnRequest(g)
                              \/ ConnAnswered(g) \/ Opened(g) \/ PutConn(g) \/ Close(g)
        PROVE  UNCHANGED numOpen
    BY <2>6 DEF Call, ConnClosed, ConnFree, ConnRequest, ConnAnswered, Opened, PutConn, Close
  <2>7. ASSUME NEW g \in G, SetMaxIdleConns(g) \/ SyncMaxIdle(g) \/ SetMaxOpenConns(g)
                              \/ SetConnMaxLifetime(g)
        PROVE  UNCHANGED numOpen
    BY <2>7 DEF SetMaxIdleConns, SyncMaxIdle, SetIdle, SetMaxOpenConns, SetConnMaxLifetime
  <2>8. ASSUME NEW g \in G, ConnOpen(g) PROVE numOpen' <= maxOpen'
    BY <2>2, <2>8 DEF ConnOpen
  <2>9. ASSUME NEW g \in G, OpenFailed(g) PROVE numOpen' > numOpen => numOpen' <= maxOpen'
    <3>1. numOpen - 1 \in Nat /\ connRequests \in Seq(G) /\ opener \in BOOLEAN
      BY <1>1, <2>2, <2>9, Counts DEF OpenFailed, TypeOK
    <3>. QED BY <2>5, <2>9, <3>1 DEF OpenFailed
  <2>10. ASSUME NEW g \in G, PutBad(g) PROVE numOpen' > numOpen => numOpen' <= maxOpen'
    <3>1. connRequests \in Seq(G) /\ opener \in BOOLEAN
      BY <2>2 DEF TypeOK
    <3>. QED BY <2>2, <2>5, <2>10, <3>1 DEF PutBad
  <2>11. ASSUME NEW g \in Goroutine, NEW c \in Conns, FinalClose(g, c)
         PROVE  numOpen' > numOpen => numOpen' <= maxOpen'
    <3>1. dc[c] # "none"
      BY <1>1, <2>2, <2>11 DEF IInv, Alive, OwnedOnce, FinalClose
    <3>2. numOpen - 1 \in Nat /\ connRequests \in Seq(G) /\ opener \in BOOLEAN
      BY <1>1, <2>2, <3>1, Counts DEF TypeOK
    <3>. QED BY <2>5, <2>11, <3>2 DEF FinalClose
  <2>12. ASSUME NEW g \in Goroutine, NEW c \in Conns, CloseConn(g, c) PROVE UNCHANGED numOpen
    BY <2>12 DEF CloseConn
  <2>13. ASSUME NEW g \in Goroutine, CloseReturns(g) PROVE UNCHANGED numOpen
    BY <2>13 DEF CloseReturns
  <2>14. ASSUME OpenerReceive \/ CleanerWakes PROVE UNCHANGED numOpen
    BY <2>14 DEF OpenerReceive, CleanerWakes
  <2>15. ASSUME OpenerClosed PROVE numOpen' = numOpen - 1
    BY <2>15 DEF OpenerClosed
  <2>16. ASSUME OpenerFailed PROVE numOpen' > numOpen => numOpen' <= maxOpen'
    <3>1. /\ opener /\ MaybeOpenNewConnections(numOpen - 1, connRequests', FALSE)
          /\ UNCHANGED maxOpen
      BY <2>16 DEF OpenerFailed
    <3>2. PICK r \in Seq(G) : r = connRequests'
      BY <1>1, NextTypeOK DEF TypeOK
    <3>3. MaybeOpenNewConnections(numOpen - 1, r, FALSE)
      BY <3>1, <3>2
    <3>4. numOpen - 1 \in Nat /\ FALSE \in BOOLEAN
      BY <1>1, <2>2, <3>1, Counts
    <3>. QED BY <2>5, <3>1, <3>3, <3>4
  <2>17. ASSUME OpenerOpened PROVE numOpen' = numOpen \/ numOpen' = numOpen - 1
    BY <2>17 DEF OpenerOpened
  <2>18. \/ UNCHANGED numOpen \/ numOpen' = numOpen - 1
         \/ numOpen' > numOpen => numOpen' <= maxOpen'
    BY <1>1, <2>1, <2>6, <2>7, <2>8, <2>9, <2>10, <2>11, <2>12, <2>13, <2>14, <2>15, <2>16,
       <2>17, Steps
  <2>. QED BY <2>3, <2>4, <2>18
<1>. QED BY <1>1, AlwaysIInv, PTL DEF Spec, LimitKept

=============================================================================
