----------------------------- MODULE ChanProofs -----------------------------
(***************************************************************************)
(* What MCChan checks for three goroutines and two channels, proved for    *)
(* any goroutines, channels and buffer sizes, and for selects with any     *)
(* number of cases: nobody is woken twice, nobody sleeps beside a          *)
(* channel that is ready for him, nothing of a finished select is left in  *)
(* a queue, and selects do not lock each other out.  A receive that does   *)
(* not block gives up only where it may.  And every step is one of         *)
(* ChanSpec or changes nothing of it.                                      *)
(***************************************************************************)
EXTENDS ChanFast, TLAPS, FiniteSetTheorems, SequenceTheorems

\* What the calls are, where they may be, and that only a select's sudogs are claimed
\* by selectdone, while it waits.
Calling == \A g \in G :
  /\ pc[g] # "idle" => op[g] \in Ops /\ calls[g] # 0
  /\ pc[g] \in {"fast", "fast2", "chan", "closing"} => ~op[g].sel
  /\ pc[g] \in {"sellock", "poll", "relock", "pass3"} => op[g].sel
  /\ done[g] => op[g].sel /\ pc[g] \in {"parked", "woken", "relock", "pass3"}
  /\ done[g] /\ pc[g] = "parked" => Wakers(g) # {}

\* A queue for dir holds sudogs of cases for dir, once each, of goroutines that are
\* claimed or parked.
InQueue(w, c, dir) ==
  /\ IsInjective(w)
  /\ \A s \in ToSet(w) :
       /\ pc[s[1]] \in {"parked", "woken", "relock", "pass3"}
       /\ s[2] \in DOMAIN op[s[1]].cases /\ Case(s[1], s[2]) = [c |-> c, dir |-> dir]
       /\ done[s[1]] \/ (pc[s[1]] = "parked" /\ Wakers(s[1]) = {})
Queued == \A c \in Chan : InQueue(ch[c].recvq, c, "recv") /\ InQueue(ch[c].sendq, c, "send")

\* Who hands over has claimed somebody who is parked, and nobody else has.
Handoffs == \A g \in G : pc[g] = "handoff" =>
  /\ hand[g] # <<>> /\ pc[hand[g][1]] = "parked"
  /\ op[hand[g][1]].sel => done[hand[g][1]]
  /\ Wakers(hand[g][1]) = {g}

\* Who is parked and not claimed is in all the queues he should be in.
Waiting == \A g \in G : pc[g] = "parked" /\ Wakers(g) = {} =>
  \A i \in DOMAIN op[g].cases : LET k == Case(g, i) IN
    \/ k.dir = "send" /\ <<g, i>> \in ToSet(ch[k.c].sendq)
    \/ k.dir = "recv" /\ <<g, i>> \in ToSet(ch[k.c].recvq)

\* For no channel that somebody unclaimed is parked at has he a peer there, in the buffer
\* or in its other queue.
Unready == \A g \in G : pc[g] = "parked" /\ Wakers(g) = {} =>
  \A i \in DOMAIN op[g].cases : LET k == Case(g, i)  h == ch[k.c] IN
    /\ k.dir = "send" => h.qcount = Cap(k.c)
    /\ k.dir = "recv" => h.qcount = 0
    /\ \A s \in ToSet(IF k.dir = "send" THEN h.recvq ELSE h.sendq) : s[1] = g \/ done[s[1]]

\* Once a close has gone through a channel's queues nobody is left there but the claimed.
Barred == \A c \in Chan : ch[c].closed /\ ~Closing(c) =>
  \A s \in ToSet(ch[c].recvq) \cup ToSet(ch[c].sendq) : done[s[1]]

\* A select holds the locks it has come past, all of them, or none; a close has its own.
Locks == \A g \in G :
  /\ \A c \in Chan : lock[c] = g => c \in SelChans(g)
                                    /\ pc[g] \in {"closing", "sellock", "poll", "relock", "pass3"}
  /\ pc[g] \in {"closing", "poll", "pass3"} => Missing(g) = {}
  /\ pc[g] \in {"sellock", "relock"} =>
       Missing(g) # {} /\ \A c \in Chan, d \in Missing(g) : lock[c] = g => c < d

IInv == /\ TypeOK /\ Calling /\ Queued /\ Handoffs /\ Waiting
        /\ Unready /\ Barred /\ Locks

-----------------------------------------------------------------------------
\* Sequences without repetitions, and what they hold.
LEMMA Listed ==
  ASSUME NEW S, NEW w \in Seq(S)
  PROVE  /\ Len(w) \in Nat /\ DOMAIN w = 1..Len(w)
         /\ ToSet(w) \subseteq S /\ (w = <<>> <=> ToSet(w) = {})
         /\ \A i \in 1..Len(w) : w[i] \in ToSet(w)
         /\ \A x \in ToSet(w) : \E i \in 1..Len(w) : x = w[i]
<1>1. Len(w) \in Nat /\ DOMAIN w = 1..Len(w) /\ \A i \in 1..Len(w) : w[i] \in S
  BY LenProperties, ElementOfSeq
<1>2. w = <<>> <=> Len(w) = 0
  BY <1>1, EmptySeq
<1>3. \A i \in 1..Len(w) : w[i] \in ToSet(w)
  BY <1>1 DEF ToSet
<1>4. \A x \in ToSet(w) : \E i \in 1..Len(w) : x = w[i]
  BY <1>1 DEF ToSet
<1>5. Len(w) # 0 => 1 \in 1..Len(w)
  BY <1>1
<1>. QED BY <1>1, <1>2, <1>3, <1>4, <1>5

LEMMA Pushed ==
  ASSUME NEW S, NEW w \in Seq(S), NEW x \in S, x \notin ToSet(w), IsInjective(w)
  PROVE  /\ Append(w, x) \in Seq(S) /\ IsInjective(Append(w, x))
         /\ ToSet(Append(w, x)) = ToSet(w) \cup {x}
<1>1. Len(w) \in Nat /\ DOMAIN w = 1..Len(w)
  BY LenProperties
<1>2. /\ Append(w, x) \in Seq(S) /\ DOMAIN Append(w, x) = 1..Len(w) + 1
      /\ \A i \in 1..Len(w) : Append(w, x)[i] = w[i]
      /\ Append(w, x)[Len(w) + 1] = x
  BY AppendProperties, LenProperties
<1>3. \A i \in 1..Len(w) + 1 : i \in 1..Len(w) \/ i = Len(w) + 1
  BY <1>1
<1>4. \A i \in 1..Len(w) : w[i] # x
  BY <1>1 DEF ToSet
<1>. QED BY <1>1, <1>2, <1>3, <1>4 DEF ToSet, IsInjective

LEMMA Joined ==
  ASSUME NEW S, NEW v \in Seq(S), NEW w \in Seq(S), IsInjective(v), IsInjective(w),
         ToSet(v) \cap ToSet(w) = {}
  PROVE  /\ v \o w \in Seq(S) /\ IsInjective(v \o w)
         /\ ToSet(v \o w) = ToSet(v) \cup ToSet(w)
<1>. DEFINE m == Len(v)  n == Len(w)
<1>1. m \in Nat /\ DOMAIN v = 1..m /\ n \in Nat /\ DOMAIN w = 1..n
  BY LenProperties
<1>2. /\ v \o w \in Seq(S) /\ DOMAIN (v \o w) = 1..m + n
      /\ \A i \in 1..m + n : (v \o w)[i] = IF i <= m THEN v[i] ELSE w[i - m]
  BY ConcatProperties, LenProperties
<1>. HIDE DEF m, n
<1>3. \A i \in 1..m + n : i \in 1..m \/ (i - m \in 1..n /\ ~(i <= m))
  BY <1>1
<1>4. \A i \in 1..m : i \in 1..m + n /\ i <= m
  BY <1>1
<1>5. \A i \in 1..n : i + m \in 1..m + n /\ ~(i + m <= m) /\ (i + m) - m = i
  BY <1>1
<1>6. \A i \in 1..m + n : \/ i \in 1..m /\ (v \o w)[i] = v[i] /\ v[i] \in ToSet(v)
                          \/ i - m \in 1..n /\ (v \o w)[i] = w[i - m] /\ w[i - m] \in ToSet(w)
  BY <1>1, <1>2, <1>3, <1>4 DEF ToSet
<1>7. ToSet(v \o w) \subseteq ToSet(v) \cup ToSet(w)
  BY <1>2, <1>6 DEF ToSet
<1>8. ToSet(v) \subseteq ToSet(v \o w)
  BY <1>1, <1>2, <1>4 DEF ToSet
<1>9. ToSet(w) \subseteq ToSet(v \o w)
  <2>1. ASSUME NEW i \in 1..n PROVE w[i] \in ToSet(v \o w)
    <3>1. w[i] = (v \o w)[i + m] /\ i + m \in DOMAIN (v \o w)
      BY <1>2, <1>5
    <3>. QED BY <3>1 DEF ToSet
  <2>. QED BY <1>1, <2>1 DEF ToSet
<1>10. ASSUME NEW i \in 1..m + n, NEW j \in 1..m + n, (v \o w)[i] = (v \o w)[j]
       PROVE  i = j
  <2>1. CASE i \in 1..m /\ j \in 1..m
    BY <1>1, <1>2, <1>4, <1>10, <2>1 DEF IsInjective
  <2>2. CASE i - m \in 1..n /\ j - m \in 1..n
    <3>1. w[i - m] = w[j - m]
      BY <1>1, <1>2, <1>10, <2>2
    <3>2. i - m = j - m
      BY <1>1, <2>2, <3>1 DEF IsInjective
    <3>. QED BY <1>1, <3>2
  <2>. QED BY <1>6, <1>10, <2>1, <2>2
<1>. QED BY <1>2, <1>7, <1>8, <1>9, <1>10 DEF IsInjective

\* Kept keeps what it should and nothing else.
LEMMA KeptFacts ==
  ASSUME NEW S, NEW w \in Seq(S), NEW I \in SUBSET DOMAIN w
  PROVE  /\ Kept(w, I) \in Seq(S) /\ (IsInjective(w) => IsInjective(Kept(w, I)))
         /\ ToSet(Kept(w, I)) = {w[i] : i \in I}
<1>. DEFINE n == Cardinality(I)
            upto(i) == {j \in I : j <= i}
            rank == [i \in I |-> Cardinality(upto(i))]
            at(k) == CHOOSE i \in I : Cardinality(upto(i)) = k
<1>1. /\ Len(w) \in Nat /\ DOMAIN w = 1..Len(w) /\ \A i \in 1..Len(w) : w[i] \in S
      /\ I \subseteq 1..Len(w)
  BY LenProperties, ElementOfSeq
<1>2. IsFiniteSet(I) /\ n \in Nat
  <2>1. IsFiniteSet(1..Len(w))
    BY <1>1, FS_Interval
  <2>. QED BY <1>1, <2>1, FS_Subset, FS_CardinalityType
<1>3. ASSUME NEW i \in I PROVE IsFiniteSet(upto(i)) /\ rank[i] \in 1..n
  <2>1. upto(i) \subseteq I /\ i \in upto(i)
    BY <1>1
  <2>2. IsFiniteSet(upto(i)) /\ Cardinality(upto(i)) \in Nat /\ Cardinality(upto(i)) <= n
    BY <1>2, <2>1, FS_Subset, FS_CardinalityType
  <2>3. Cardinality(upto(i)) # 0
    BY <2>1, <2>2, FS_EmptySet
  <2>. QED BY <1>2, <2>2, <2>3
<1>4. ASSUME NEW i \in I, NEW j \in I, i < j PROVE rank[i] # rank[j]
  <2>1. upto(i) \subseteq upto(j) /\ j \in upto(j) /\ j \notin upto(i)
    BY <1>1, <1>4
  <2>. HIDE DEF upto
  <2>2. Cardinality(upto(i)) # Cardinality(upto(j))
    BY <1>3, <2>1, FS_Subset
  <2>. QED BY <2>2
<1>5. rank \in Injection(I, 1..n)
  <2>1. rank \in [I -> 1..n]
    BY <1>3
  <2>2. ASSUME NEW i \in I, NEW j \in I, rank[i] = rank[j] PROVE i = j
    <3>1. i \in Nat /\ j \in Nat
      BY <1>1
    <3>2. ~(i < j) /\ ~(j < i)
      BY <1>4, <2>2
    <3>. QED BY <3>1, <3>2
  <2>. HIDE DEF rank
  <2>. QED BY <2>1, <2>2 DEF Injection, IsInjective
<1>6. IsFiniteSet(1..n) /\ Cardinality(1..n) = n
  BY <1>2, FS_Interval
<1>7. rank \in Surjection(I, 1..n)
  BY <1>2, <1>5, <1>6, FS_Injection
<1>8. ASSUME NEW k \in 1..n PROVE at(k) \in I /\ rank[at(k)] = k
  <2>1. \E i \in I : Cardinality(upto(i)) = k
    BY <1>7 DEF Surjection
  <2>. QED BY <2>1
<1>9. ASSUME NEW i \in I PROVE rank[i] \in 1..n /\ at(rank[i]) = i
  <2>1. rank[i] \in 1..n /\ at(rank[i]) \in I /\ rank[at(rank[i])] = rank[i]
    BY <1>3, <1>8
  <2>2. \A j \in I : rank[j] = rank[i] => j = i
    BY <1>5 DEF Injection, IsInjective
  <2>. HIDE DEF rank, at
  <2>. QED BY <2>1, <2>2
<1>10. Kept(w, I) = [k \in 1..n |-> w[at(k)]]
  BY DEF Kept
<1>. HIDE DEF rank, at, n
<1>11. \A k \in 1..n : w[at(k)] \in S
  BY <1>1, <1>8
<1>12. Kept(w, I) \in Seq(S)
  BY <1>2, <1>10, <1>11, IsASeq
<1>13. DOMAIN Kept(w, I) = 1..n /\ \A k \in 1..n : Kept(w, I)[k] = w[at(k)]
  BY <1>10
<1>14. ToSet(Kept(w, I)) \subseteq {w[i] : i \in I}
  BY <1>8, <1>13 DEF ToSet
<1>15. ASSUME NEW i \in I PROVE w[i] \in ToSet(Kept(w, I))
  <2>1. rank[i] \in DOMAIN Kept(w, I) /\ Kept(w, I)[rank[i]] = w[i]
    BY <1>9, <1>13
  <2>. QED BY <2>1 DEF ToSet
<1>16. ASSUME IsInjective(w) PROVE IsInjective(Kept(w, I))
  <2>1. ASSUME NEW k \in 1..n, NEW l \in 1..n, w[at(k)] = w[at(l)] PROVE k = l
    <3>1. at(k) = at(l)
      BY <1>1, <1>8, <1>16, <2>1 DEF IsInjective
    <3>. QED BY <1>8, <3>1
  <2>. QED BY <1>13, <2>1 DEF IsInjective
<1>. QED BY <1>12, <1>14, <1>15, <1>16

\* A set of numbers has a least element: that with the least set of numbers below it.
LEMMA Least ==
  ASSUME NEW T \in SUBSET Nat, T # {}
  PROVE  \E i \in T : \A j \in T : i <= j
<1>. DEFINE below(i) == 0..i - 1
            R == StrictSubsetOrdering(Nat)
            F == {below(i) : i \in T}
<1>1. ASSUME NEW i \in T PROVE below(i) \in FiniteSubsetsOf(Nat)
  <2>1. IsFiniteSet(below(i))
    BY FS_Interval
  <2>. QED BY <2>1 DEF FiniteSubsetsOf
<1>2. F \subseteq FiniteSubsetsOf(Nat) /\ F # {}
  BY <1>1
<1>3. \E x \in F : \A y \in F : <<y, x>> \notin R
  <2>. HIDE DEF F, R
  <2>1. IsWellFoundedOn(R, FiniteSubsetsOf(Nat))
    BY FS_StrictSubsetOrderingWellFounded DEF R
  <2>. QED BY <1>2, <2>1, WFMin
<1>4. PICK i \in T : \A j \in T : <<below(j), below(i)>> \notin R
  BY <1>3
<1>5. ASSUME NEW j \in T, j < i PROVE <<below(j), below(i)>> \in R
  <2>1. below(j) \subseteq below(i) /\ j \in below(i) /\ j \notin below(j)
    BY <1>5
  <2>. QED BY <2>1 DEF StrictSubsetOrdering
<1>6. \A j \in T : ~(j < i)
  BY <1>4, <1>5
<1>7. \A j \in T : i \in Nat /\ j \in Nat
  OBVIOUS
<1>. QED BY <1>6, <1>7

\* What dequeue does: it finds a sudog that is not claimed if there is one, and drops
\* only sudogs that are.
LEMMA ClaimFacts ==
  ASSUME NEW w \in Seq(Sudog), IsInjective(w)
  PROVE  /\ Claim(w) \in Nat
         /\ Claim(w) = 0 <=> \A s \in ToSet(w) : done[s[1]]
         /\ Claim(w) > 0 => w[Claim(w)] \in ToSet(w) /\ ~done[w[Claim(w)][1]]
         /\ Dequeued(w) \in Seq(Sudog) /\ IsInjective(Dequeued(w))
         /\ ToSet(Dequeued(w)) \subseteq ToSet(w)
         /\ Claim(w) > 0 => w[Claim(w)] \notin ToSet(Dequeued(w))
         /\ \A s \in ToSet(w) : \/ done[s[1]] \/ s \in ToSet(Dequeued(w))
                                \/ Claim(w) > 0 /\ s = w[Claim(w)]
<1>. DEFINE n == Len(w)
            open == {i \in 1..n : ~done[w[i][1]]}
            first == {i \in 1..n : ~done[w[i][1]] /\ \A j \in 1..i - 1 : done[w[j][1]]}
            k == Claim(w)
<1>1. n \in Nat /\ DOMAIN w = 1..n /\ ToSet(w) = {w[i] : i \in 1..n}
  BY Listed DEF ToSet
<1>2. k = Max({0} \cup first)
  BY <1>1 DEF Claim
<1>3. CASE open = {}
  <2>1. first = {}
    BY <1>3
  <2>2. k = 0
    <3>. HIDE DEF first, k
    <3>. QED BY <1>2, <2>1 DEF Max
  <2>3. Dequeued(w) = <<>>
    BY <2>2 DEF Dequeued
  <2>4. \A s \in ToSet(w) : done[s[1]]
    BY <1>1, <1>3
  <2>5. <<>> \in Seq(Sudog) /\ IsInjective(<<>>) /\ ToSet(<<>>) = {}
    BY DEF IsInjective, ToSet
  <2>. QED BY <2>2, <2>3, <2>4, <2>5
<1>4. CASE open # {}
  <2>1. PICK m \in open : \A j \in open : m <= j
    <3>1. open \in SUBSET Nat
      BY <1>1
    <3>. HIDE DEF open
    <3>. QED BY <1>4, <3>1, Least
  <2>2. m \in 1..n /\ \A j \in 1..n : ~done[w[j][1]] => m <= j
    BY <2>1
  <2>3. m \in first
    BY <1>1, <2>1, <2>2
  <2>4. ASSUME NEW i \in first PROVE i = m
    <3>1. m <= i
      BY <2>2
    <3>2. ~(m < i)
      BY <1>1, <2>1, <2>2
    <3>. QED BY <1>1, <2>2, <3>1, <3>2
  <2>5. first = {m} /\ m \in Nat /\ m > 0
    BY <1>1, <2>2, <2>3, <2>4
  <2>6. k = m
    <3>. HIDE DEF first, k
    <3>1. {0} \cup first = {0, m}
      BY <2>5
    <3>2. \A x \in {0, m} : (\A y \in {0, m} : x >= y) => x = m
      BY <2>5
    <3>3. m \in {0, m} /\ \A y \in {0, m} : m >= y
      BY <2>5
    <3>. QED BY <1>2, <3>1, <3>2, <3>3 DEF Max
  <2>7. w[m] \in ToSet(w) /\ ~done[w[m][1]]
    BY <1>1, <2>1
  <2>. DEFINE v == SubSeq(w, m + 1, n)
  <2>8. Dequeued(w) = v
    BY <2>5, <2>6 DEF Dequeued
  <2>9. /\ v \in Seq(Sudog) /\ DOMAIN v = 1..n - m
        /\ \A i \in 1..n - m : v[i] = w[m + i]
    <3>1. m + 1 \in 1..n + 1 /\ n \in 0..n
      BY <1>1, <2>2
    <3>2. \A i \in m + 1..n : w[i] \in Sudog
      BY <1>1, <2>2, ElementOfSeq
    <3>. QED BY <1>1, <2>2, <3>1, <3>2, SubSeqProperties, LenProperties
  <2>10. \A i \in 1..n - m : m + i \in 1..n /\ m + i # m
    BY <1>1, <2>2
  <2>11. \A i \in 1..n : i > m => i - m \in 1..n - m /\ m + (i - m) = i
    BY <1>1, <2>2
  <2>. HIDE DEF v, first, open, k
  <2>12. IsInjective(v)
    <3>1. ASSUME NEW i \in 1..n - m, NEW j \in 1..n - m, v[i] = v[j] PROVE i = j
      <4>1. m + i = m + j
        BY <1>1, <2>9, <2>10, <3>1 DEF IsInjective
      <4>. QED BY <1>1, <2>2, <4>1
    <3>. QED BY <2>9, <3>1 DEF IsInjective
  <2>13. ToSet(v) \subseteq ToSet(w) \ {w[m]}
    <3>1. ASSUME NEW i \in 1..n - m PROVE v[i] \in ToSet(w) /\ v[i] # w[m]
      BY <1>1, <2>2, <2>9, <2>10 DEF IsInjective
    <3>. QED BY <2>9, <3>1 DEF ToSet
  <2>14. ASSUME NEW i \in 1..n PROVE done[w[i][1]] \/ w[i] \in ToSet(v) \/ w[i] = w[m]
    <3>1. CASE i < m
      BY <1>1, <2>2, <3>1
    <3>2. CASE i > m
      <4>1. i - m \in DOMAIN v /\ v[i - m] = w[i]
        BY <2>9, <2>11, <3>2
      <4>. QED BY <4>1 DEF ToSet
    <3>. QED BY <1>1, <2>2, <3>1, <3>2
  <2>15. ASSUME NEW s \in ToSet(w) PROVE done[s[1]] \/ s \in ToSet(v) \/ s = w[m]
    BY <1>1, <2>14
  <2>16. Claim(w) = m /\ m \in Nat /\ m > 0
    BY <2>5, <2>6 DEF k
  <2>. QED BY <2>7, <2>8, <2>9, <2>12, <2>13, <2>15, <2>16
<1>. QED BY <1>3, <1>4

-----------------------------------------------------------------------------
\* The next step as one of its actions; the lemmas about steps split on it.
LEMMA Steps ==
  ASSUME [Next]_vars
  PROVE  \/ UNCHANGED vars
         \/ \E g \in G : \/ FastRead(g) \/ FastRead2(g) \/ ChanOp(g) \/ Closechan(g)
                         \/ ReleaseReader(g) \/ ReleaseWriter(g) \/ CloseDone(g)
                         \/ Handoff(g) \/ Woken(g) \/ Return(g) \/ Sellock(g) \/ Poll(g)
                         \/ WokenSelect(g) \/ Pass3(g) \/ (\E o \in Ops : Invoke(g, o))
BY DEF Next, Run

LEMMA CallFacts ==
  ASSUME TypeOK, Calling, NEW g \in G, pc[g] # "idle"
  PROVE  /\ op[g] \in Ops /\ op[g].sel \in BOOLEAN /\ op[g].block \in BOOLEAN
         /\ Len(op[g].cases) \in Nat \ {0} /\ DOMAIN op[g].cases = 1..Len(op[g].cases)
         /\ \A i \in DOMAIN op[g].cases :
              /\ i \in Nat \ {0} /\ Case(g, i) \in Cases /\ Case(g, i).c \in Chan
              /\ Case(g, i).dir \in {"send", "recv", "close"}
              /\ op[g].sel => Case(g, i).dir # "close"
         /\ 1 \in DOMAIN op[g].cases
         /\ ~op[g].sel => DOMAIN op[g].cases = {1}
         /\ Val(g) \in Value
<1>1. op[g] \in Ops /\ calls[g] \in 1..MaxCalls
  BY ChanAssumption DEF Calling, TypeOK
<1>2. /\ op[g] \in [cases : Seq(Cases), sel : BOOLEAN, block : BOOLEAN]
      /\ op[g].cases # <<>> /\ (~op[g].sel => Len(op[g].cases) = 1)
      /\ \A i \in DOMAIN op[g].cases :
           op[g].cases[i].dir = "close" => ~op[g].sel /\ op[g].block
  BY <1>1, CallsAssumption
<1>3. /\ op[g].cases \in Seq(Cases) /\ op[g].sel \in BOOLEAN /\ op[g].block \in BOOLEAN
  BY <1>2
<1>4. /\ Len(op[g].cases) \in Nat /\ DOMAIN op[g].cases = 1..Len(op[g].cases)
      /\ \A i \in 1..Len(op[g].cases) : op[g].cases[i] \in Cases
  BY <1>3, LenProperties, ElementOfSeq
<1>5. Len(op[g].cases) # 0
  BY <1>2, <1>3, EmptySeq
<1>6. \A k \in Cases : k.c \in Chan /\ k.dir \in {"send", "recv", "close"}
  BY DEF Cases
<1>7. 1 \in DOMAIN op[g].cases /\ (~op[g].sel => DOMAIN op[g].cases = {1})
  BY <1>2, <1>4, <1>5
<1>8. Val(g) \in Value
  BY <1>1 DEF Val, Value
<1>. QED BY <1>1, <1>2, <1>3, <1>4, <1>5, <1>6, <1>7, <1>8 DEF Case

\* A channel's record, and that its queues' members are sudogs.
LEMMA ChanFacts ==
  ASSUME TypeOK, NEW c \in Chan
  PROVE  /\ ch[c] \in Hchans(Cap(c)) /\ Cap(c) \in Nat
         /\ ch[c].recvq \in Seq(Sudog) /\ ch[c].sendq \in Seq(Sudog)
         /\ ch[c].qcount \in 0..Cap(c) /\ ch[c].closed \in BOOLEAN
         /\ ToSet(ch[c].recvq) \subseteq Sudog /\ ToSet(ch[c].sendq) \subseteq Sudog
<1>1. PICK size \in Sizes : ch[c] \in Hchans(size[c])
  BY DEF TypeOK
<1>2. size[c] \in Nat /\ Cap(c) = size[c]
  BY <1>1, ChanAssumption DEF Hchans, Cap
<1>3. /\ ch[c].recvq \in Seq(Sudog) /\ ch[c].sendq \in Seq(Sudog)
      /\ ch[c].qcount \in 0..Cap(c) /\ ch[c].closed \in BOOLEAN
  BY <1>1, <1>2 DEF Hchans
<1>. QED BY <1>1, <1>2, <1>3, Listed

LEMMA HandFacts ==
  ASSUME TypeOK, Handoffs, NEW g \in G, pc[g] = "handoff"
  PROVE  hand[g] \in Sudog /\ hand[g][1] \in G /\ hand[g][1] # g
BY DEF TypeOK, Handoffs, Sudog

LEMMA InitIInv == Init => IInv
<1>. SUFFICES ASSUME Init PROVE IInv
  OBVIOUS
<1>1. \A c \in Chan : ch[c].recvq = <<>> /\ ch[c].sendq = <<>>
  BY DEF Init, Hchan
<1>2. <<>> \in Seq(Sudog) /\ IsInjective(<<>>) /\ ToSet(<<>>) = {}
  BY DEF IsInjective, ToSet
<1>3. \E size \in Sizes : \A c \in Chan : ch[c] \in Hchans(size[c])
  <2>1. PICK size \in Sizes : ch = [c \in Chan |-> Hchan(size[c])]
    BY DEF Init
  <2>2. ASSUME NEW c \in Chan PROVE ch[c] \in Hchans(size[c])
    <3>1. size[c] \in Nat
      BY ChanAssumption
    <3>2. [i \in 0..size[c] - 1 |-> NoVal] \in [0..size[c] - 1 -> Value]
      BY DEF Value
    <3>. QED BY <1>2, <2>1, <3>1, <3>2 DEF Hchan, Hchans
  <2>. QED BY <2>2
<1>4. TypeOK
  BY <1>3, ChanAssumption DEF Init, TypeOK, PC, Value, Pending
<1>5. Calling /\ Handoffs /\ Waiting /\ Unready
  BY DEF Init, Calling, Handoffs, Waiting, Unready
<1>6. Queued /\ Barred
  BY <1>1, <1>2 DEF Queued, InQueue, Barred
<1>7. Locks
  BY NoneAssumption DEF Init, Locks
<1>. QED BY <1>4, <1>5, <1>6, <1>7 DEF IInv

-----------------------------------------------------------------------------
\* What a sudog that nobody has claimed says about its goroutine and its channel.
LEMMA Unclaimed ==
  ASSUME IInv, NEW c \in Chan, NEW s,
         s \in ToSet(ch[c].recvq) \cup ToSet(ch[c].sendq), ~done[s[1]]
  PROVE  /\ s = <<s[1], s[2]>> /\ s[1] \in G /\ pc[s[1]] = "parked" /\ Wakers(s[1]) = {}
         /\ ch[c].closed => Closing(c)
         /\ s \in ToSet(ch[c].sendq) =>
              /\ ch[c].qcount = Cap(c)
              /\ \A r \in ToSet(ch[c].recvq) : r[1] = s[1] \/ done[r[1]]
         /\ s \in ToSet(ch[c].recvq) =>
              /\ ch[c].qcount = 0
              /\ \A r \in ToSet(ch[c].sendq) : r[1] = s[1] \/ done[r[1]]
<1>. DEFINE g == s[1]
<1>1. s \in Sudog
  BY ChanFacts DEF IInv
<1>2. s = <<s[1], s[2]>> /\ g \in G
  BY <1>1 DEF Sudog
<1>3. /\ pc[g] = "parked" /\ Wakers(g) = {} /\ s[2] \in DOMAIN op[g].cases
      /\ s \in ToSet(ch[c].recvq) => Case(g, s[2]) = [c |-> c, dir |-> "recv"]
      /\ s \in ToSet(ch[c].sendq) => Case(g, s[2]) = [c |-> c, dir |-> "send"]
  BY DEF IInv, Queued, InQueue
<1>4. LET k == Case(g, s[2])  h == ch[k.c] IN
        /\ k.dir = "send" => h.qcount = Cap(k.c)
        /\ k.dir = "recv" => h.qcount = 0
        /\ \A r \in ToSet(IF k.dir = "send" THEN h.recvq ELSE h.sendq) : r[1] = g \/ done[r[1]]
  BY <1>2, <1>3 DEF IInv, Unready
<1>4a. ch[c].closed => Closing(c)
  BY DEF IInv, Barred
<1>5. CASE Case(g, s[2]) = [c |-> c, dir |-> "recv"]
  BY <1>2, <1>3, <1>4, <1>4a, <1>5
<1>6. CASE Case(g, s[2]) = [c |-> c, dir |-> "send"]
  BY <1>2, <1>3, <1>4, <1>4a, <1>6
<1>. QED BY <1>3, <1>5, <1>6

\* A step that takes sudogs out of queues: those that are claimed, and those in K. It
\* changes the buffer only where it takes all out, and closes a channel only to go on to
\* do so.
Shrinks(K) == \A c \in Chan :
  /\ IsInjective(ch'[c].recvq) /\ ToSet(ch'[c].recvq) \subseteq ToSet(ch[c].recvq) \ K
  /\ IsInjective(ch'[c].sendq) /\ ToSet(ch'[c].sendq) \subseteq ToSet(ch[c].sendq) \ K
  /\ \A s \in ToSet(ch[c].recvq) \ K : s \in ToSet(ch'[c].recvq) \/ done[s[1]]
  /\ \A s \in ToSet(ch[c].sendq) \ K : s \in ToSet(ch'[c].sendq) \/ done[s[1]]
  /\ \/ ch'[c].qcount = ch[c].qcount /\ (ch'[c].closed = ch[c].closed \/ Closing(c)')
     \/ \A s \in ToSet(ch[c].recvq) \cup ToSet(ch[c].sendq) : s \in K \/ done[s[1]]
  /\ ch'[c].dataqsiz = ch[c].dataqsiz

LEMMA NothingShrinks == Queued /\ UNCHANGED ch => Shrinks({})
BY DEF Queued, InQueue, Shrinks

\* Who is closing a channel goes on, unless he leaves its queues empty.
ClosersGoOn == \A c \in Chan :
  Closing(c) => Closing(c)' \/ ToSet(ch'[c].recvq) \cup ToSet(ch'[c].sendq) = {}

LEMMA ClosersStay ==
  ASSUME \A h \in G : pc[h] = "closing" => pc'[h] = "closing" /\ op'[h] = op[h]
  PROVE  ClosersGoOn
BY DEF ClosersGoOn, Closing, Case

\* The sudogs that are still in a queue.
Left == UNION {ToSet(ch'[c].recvq) \cup ToSet(ch'[c].sendq) : c \in Chan}

LEMMA LeftFacts ==
  ASSUME IInv, NEW K, Shrinks(K)
  PROVE  /\ \A c \in Chan : ToSet(ch'[c].recvq) \subseteq Left /\ ToSet(ch'[c].sendq) \subseteq Left
         /\ \A s \in Left :
              /\ s \notin K /\ s[1] \in G
              /\ pc[s[1]] \in {"parked", "woken", "relock", "pass3"}
              /\ done[s[1]] \/ (pc[s[1]] = "parked" /\ Wakers(s[1]) = {})
<1>1. \A c \in Chan : ToSet(ch'[c].recvq) \subseteq Left /\ ToSet(ch'[c].sendq) \subseteq Left
  BY DEF Left
<1>2. ASSUME NEW s \in Left
      PROVE  /\ s \notin K /\ s[1] \in G
             /\ pc[s[1]] \in {"parked", "woken", "relock", "pass3"}
             /\ done[s[1]] \/ (pc[s[1]] = "parked" /\ Wakers(s[1]) = {})
  <2>1. PICK c \in Chan : s \in ToSet(ch'[c].recvq) \cup ToSet(ch'[c].sendq)
    BY DEF Left
  <2>2. s \notin K /\ s \in ToSet(ch[c].recvq) \cup ToSet(ch[c].sendq)
    BY <2>1 DEF Shrinks
  <2>3. s \in Sudog
    BY <2>2, ChanFacts DEF IInv
  <2>. QED BY <2>2, <2>3 DEF IInv, Queued, InQueue, Sudog
<1>. QED BY <1>1, <1>2

\* Queued, after a step.
SudogAfter(s, c, dir) ==
  /\ pc'[s[1]] \in {"parked", "woken", "relock", "pass3"}
  /\ s[2] \in DOMAIN op'[s[1]].cases /\ Case(s[1], s[2])' = [c |-> c, dir |-> dir]
  /\ done'[s[1]] \/ (pc'[s[1]] = "parked" /\ Wakers(s[1])' = {})
QueueAfter(v, c, dir) == IsInjective(v) /\ \A s \in ToSet(v) : SudogAfter(s, c, dir)

LEMMA QueuesAfter ==
  ASSUME \A c \in Chan : /\ QueueAfter(ch'[c].recvq, c, "recv")
                         /\ QueueAfter(ch'[c].sendq, c, "send")
  PROVE  Queued'
<1>1. ASSUME NEW c \in Chan PROVE InQueue(ch[c].recvq, c, "recv")'
  BY DEF QueueAfter, SudogAfter, InQueue
<1>2. ASSUME NEW c \in Chan PROVE InQueue(ch[c].sendq, c, "send")'
  BY DEF QueueAfter, SudogAfter, InQueue
<1>. QED BY <1>1, <1>2 DEF Queued

LEMMA StillQueued ==
  ASSUME IInv, NEW K, Shrinks(K),
         \A s \in Left : /\ op'[s[1]] = op[s[1]]
                         /\ pc'[s[1]] \in {"parked", "woken", "relock", "pass3"}
                         /\ done'[s[1]] \/ (pc'[s[1]] = "parked" /\ Wakers(s[1])' = {})
  PROVE  Queued'
<1>1. ASSUME NEW c \in Chan, NEW dir, NEW w, NEW v, InQueue(w, c, dir), IsInjective(v),
             ToSet(v) \subseteq ToSet(w), ToSet(v) \subseteq Left
      PROVE  QueueAfter(v, c, dir)
  <2>. SUFFICES ASSUME NEW s \in ToSet(v) PROVE SudogAfter(s, c, dir)
    BY <1>1 DEF QueueAfter
  <2>1. s[2] \in DOMAIN op[s[1]].cases /\ Case(s[1], s[2]) = [c |-> c, dir |-> dir]
    BY <1>1 DEF InQueue
  <2>. QED BY <1>1, <2>1 DEF SudogAfter, Case
<1>2. ASSUME NEW c \in Chan
      PROVE  QueueAfter(ch'[c].recvq, c, "recv") /\ QueueAfter(ch'[c].sendq, c, "send")
  <2>1. ToSet(ch'[c].recvq) \subseteq Left /\ ToSet(ch'[c].sendq) \subseteq Left
    BY DEF Left
  <2>. QED BY <1>1, <2>1 DEF IInv, Queued, Shrinks
<1>. QED BY <1>2, QueuesAfter

LEMMA StillParked ==
  ASSUME IInv, NEW K, Shrinks(K), ClosersGoOn,
         \A s \in Left : done[s[1]] => done'[s[1]],
         \A h \in G : pc'[h] = "parked" /\ Wakers(h)' = {} =>
           /\ pc[h] = "parked" /\ Wakers(h) = {} /\ op'[h] = op[h]
           /\ \A s \in K : s[1] # h
  PROVE  Waiting' /\ Unready' /\ Barred'
<1>1. ASSUME NEW h \in G, pc'[h] = "parked", Wakers(h)' = {}, NEW i \in DOMAIN op'[h].cases
      PROVE  LET k == Case(h, i) IN
        /\ i \in DOMAIN op[h].cases /\ Case(h, i)' = k
        /\ pc[h] = "parked" /\ Wakers(h) = {} /\ ~done[h] /\ k.c \in Chan
        /\ \/ k.dir = "send" /\ <<h, i>> \in ToSet(ch[k.c].sendq)
                             /\ <<h, i>> \in ToSet(ch'[k.c].sendq) /\ <<h, i>> \notin K
           \/ k.dir = "recv" /\ <<h, i>> \in ToSet(ch[k.c].recvq)
                             /\ <<h, i>> \in ToSet(ch'[k.c].recvq) /\ <<h, i>> \notin K
  <2>1. /\ pc[h] = "parked" /\ Wakers(h) = {} /\ op'[h] = op[h] /\ ~done[h]
        /\ <<h, i>> \notin K
    BY <1>1 DEF IInv, Calling
  <2>2. i \in DOMAIN op[h].cases /\ Case(h, i)' = Case(h, i) /\ Case(h, i).c \in Chan
    BY <2>1, CallFacts DEF IInv, Case
  <2>3. LET k == Case(h, i) IN \/ k.dir = "send" /\ <<h, i>> \in ToSet(ch[k.c].sendq)
                               \/ k.dir = "recv" /\ <<h, i>> \in ToSet(ch[k.c].recvq)
    BY <2>1, <2>2 DEF IInv, Waiting
  <2>. QED BY <2>1, <2>2, <2>3 DEF Shrinks
<1>2. Waiting'
  BY <1>1 DEF Waiting
<1>3. ASSUME NEW h \in G, pc'[h] = "parked", Wakers(h)' = {}, NEW i \in DOMAIN op'[h].cases
      PROVE  LET k == Case(h, i)'  b == ch'[k.c] IN
        /\ k.dir = "send" => b.qcount = b.dataqsiz
        /\ k.dir = "recv" => b.qcount = 0
        /\ \A s \in ToSet(IF k.dir = "send" THEN b.recvq ELSE b.sendq) : s[1] = h \/ done'[s[1]]
  <2>. DEFINE k == Case(h, i)
  <2>1. /\ i \in DOMAIN op[h].cases /\ Case(h, i)' = k
        /\ pc[h] = "parked" /\ Wakers(h) = {} /\ ~done[h] /\ k.c \in Chan
        /\ \/ k.dir = "send" /\ <<h, i>> \in ToSet(ch[k.c].sendq) /\ <<h, i>> \notin K
           \/ k.dir = "recv" /\ <<h, i>> \in ToSet(ch[k.c].recvq) /\ <<h, i>> \notin K
    BY <1>1, <1>3
  <2>2. LET b == ch[k.c] IN
          /\ k.dir = "send" => b.qcount = b.dataqsiz
          /\ k.dir = "recv" => b.qcount = 0
          /\ \A s \in ToSet(IF k.dir = "send" THEN b.recvq ELSE b.sendq) : s[1] = h \/ done[s[1]]
    BY <2>1 DEF IInv, Unready, Cap
  <2>. HIDE DEF k
  <2>3. \E s \in ToSet(ch[k.c].recvq) \cup ToSet(ch[k.c].sendq) : s \notin K /\ ~done[s[1]]
    BY <2>1
  <2>4. LET b == ch'[k.c] IN
          /\ b.qcount = ch[k.c].qcount /\ b.dataqsiz = ch[k.c].dataqsiz
          /\ ToSet(b.recvq) \subseteq ToSet(ch[k.c].recvq) /\ ToSet(b.recvq) \subseteq Left
          /\ ToSet(b.sendq) \subseteq ToSet(ch[k.c].sendq) /\ ToSet(b.sendq) \subseteq Left
    <3>1. \A c \in Chan : ToSet(ch'[c].recvq) \subseteq Left /\ ToSet(ch'[c].sendq) \subseteq Left
      BY LeftFacts
    <3>. HIDE DEF Left
    <3>. QED BY <2>1, <2>3, <3>1 DEF Shrinks
  <2>5. CASE k.dir = "send"
    BY <2>1, <2>2, <2>4, <2>5
  <2>6. CASE k.dir = "recv"
    BY <2>1, <2>2, <2>4, <2>6
  <2>. QED BY <2>1, <2>5, <2>6
<1>4. Unready'
  BY <1>3 DEF Unready, Cap
<1>5. ASSUME NEW c \in Chan, ch'[c].closed, ~Closing(c)',
             NEW s \in ToSet(ch'[c].recvq) \cup ToSet(ch'[c].sendq)
      PROVE  done'[s[1]]
  <2>1. s \in Left /\ s \notin K /\ s \in ToSet(ch[c].recvq) \cup ToSet(ch[c].sendq)
    <3>1. s \in Left
      BY LeftFacts
    <3>. HIDE DEF Left
    <3>. QED BY <1>5, <3>1 DEF Shrinks
  <2>2. ~Closing(c)
    BY <1>5 DEF ClosersGoOn
  <2>. HIDE DEF Left
  <2>3. done[s[1]]
    <3>1. CASE ch'[c].closed = ch[c].closed
      BY <1>5, <2>1, <2>2, <3>1 DEF IInv, Barred
    <3>2. CASE ch'[c].closed # ch[c].closed
      BY <1>5, <2>1, <3>2 DEF Shrinks
    <3>. QED BY <3>1, <3>2
  <2>. QED BY <2>1, <2>3
<1>6. Barred'
  BY <1>5 DEF Barred
<1>. QED BY <1>2, <1>4, <1>6

\* The part of the invariant that the queues and the parked goroutines are in.
Parking == Calling /\ Queued /\ Handoffs /\ Waiting /\ Unready /\ Barred

\* A step of g that leaves the queues, the claims and the other goroutines alone.
LEMMA Quiet ==
  ASSUME IInv, NEW g \in G, pc[g] \notin {"parked", "handoff", "closing"},
         NEW l \in PC \ {"parked", "handoff", "closing"}, pc' = [pc EXCEPT ![g] = l],
         UNCHANGED <<ch, done, hand>>,
         \A h \in G \ {g} : op'[h] = op[h] /\ calls'[h] = calls[h],
         l # "idle" => op'[g] \in Ops /\ calls'[g] # 0,
         l \in {"fast", "fast2", "chan"} => ~op'[g].sel,
         l \in {"sellock", "poll", "relock", "pass3"} => op'[g].sel,
         done[g] => op'[g] = op[g] /\ l \in {"woken", "relock", "pass3"}
  PROVE  Parking'
<1>. USE DEF IInv
<1>1. pc \in [G -> PC] /\ pc'[g] = l /\ \A h \in G \ {g} : pc'[h] = pc[h]
  BY DEF TypeOK
<1>2. \A t \in G : Wakers(t)' = Wakers(t)
  BY <1>1 DEF Wakers
<1>3. Calling'
  BY <1>1, <1>2 DEF Calling
<1>4. Handoffs'
  <2>1. ASSUME NEW h \in G, pc'[h] = "handoff"
        PROVE  h # g /\ pc[h] = "handoff" /\ hand[h][1] \in G /\ hand[h][1] # g
    BY <1>1, <2>1, HandFacts DEF Handoffs
  <2>. QED BY <1>1, <2>1 DEF Handoffs, Wakers, Calling
<1>5. Shrinks({})
  BY NothingShrinks
<1>6. ASSUME NEW s \in Left
      PROVE  /\ s[1] \in G /\ (s[1] = g => done[g])
             /\ pc[s[1]] \in {"parked", "woken", "relock", "pass3"}
             /\ done[s[1]] \/ (pc[s[1]] = "parked" /\ Wakers(s[1]) = {})
  <2>1. \A t \in Left :
          /\ t[1] \in G /\ pc[t[1]] \in {"parked", "woken", "relock", "pass3"}
          /\ done[t[1]] \/ (pc[t[1]] = "parked" /\ Wakers(t[1]) = {})
    BY <1>5, LeftFacts
  <2>. QED BY <2>1
<1>7. Queued'
  BY <1>1, <1>2, <1>5, <1>6, StillQueued
<1>8. Waiting' /\ Unready' /\ Barred'
  <2>1. \A h \in G : pc'[h] = "parked" /\ Wakers(h)' = {} =>
           pc[h] = "parked" /\ Wakers(h) = {} /\ op'[h] = op[h]
    BY <1>1, <1>2
  <2>2. ClosersGoOn
    BY <1>1, ClosersStay
  <2>. QED BY <1>5, <2>1, <2>2, StillParked
<1>. QED BY <1>3, <1>4, <1>7, <1>8 DEF Parking

\* g's call goes on or is over without waking anybody.
LEMMA MovesOn ==
  ASSUME IInv, NEW g \in G, pc[g] \in {"chan", "poll", "closing"}, Shrinks({}), ClosersGoOn,
         NEW l \in {"closing", "return"}, l = "closing" => ~op[g].sel,
         pc' = [pc EXCEPT ![g] = l], UNCHANGED <<op, calls, done, hand>>
  PROVE  Parking'
<1>. USE DEF IInv
<1>1. pc \in [G -> PC] /\ pc'[g] = l /\ \A h \in G \ {g} : pc'[h] = pc[h]
  BY DEF TypeOK
<1>2. \A t \in G : Wakers(t)' = Wakers(t)
  BY <1>1 DEF Wakers
<1>3. Calling'
  BY <1>1, <1>2 DEF Calling
<1>4. Handoffs'
  BY <1>1, HandFacts DEF Handoffs, Wakers
<1>5. Queued'
  <2>1. \A t \in Left :
          /\ t[1] \in G /\ pc[t[1]] \in {"parked", "woken", "relock", "pass3"}
          /\ done[t[1]] \/ (pc[t[1]] = "parked" /\ Wakers(t[1]) = {})
    BY LeftFacts
  <2>2. \A t \in Left :
          /\ pc'[t[1]] \in {"parked", "woken", "relock", "pass3"}
          /\ done'[t[1]] \/ (pc'[t[1]] = "parked" /\ Wakers(t[1])' = {})
    BY <1>1, <1>2, <2>1
  <2>. QED BY <2>2, StillQueued
<1>6. Waiting' /\ Unready' /\ Barred'
  <2>1. \A h \in G : pc'[h] = "parked" /\ Wakers(h)' = {} => pc[h] = "parked" /\ Wakers(h) = {}
    BY <1>1, <1>2
  <2>. QED BY <2>1, StillParked
<1>. QED BY <1>3, <1>4, <1>5, <1>6 DEF Parking

\* It goes ahead or gives up.
LEMMA GoesAhead ==
  ASSUME IInv, NEW g \in G, pc[g] \in {"chan", "poll"}, Shrinks({}),
         pc' = [pc EXCEPT ![g] = "return"], UNCHANGED <<op, calls, done, hand>>
  PROVE  Parking'
<1>1. \A h \in G \ {g} : pc'[h] = pc[h]
  BY DEF IInv, TypeOK
<1>2. ClosersGoOn
  BY <1>1, ClosersStay
<1>. QED BY <1>2, MovesOn

LEMMA QueueFacts ==
  ASSUME IInv, NEW c \in Chan, NEW s \in ToSet(ch[c].recvq) \cup ToSet(ch[c].sendq)
  PROVE  /\ s[1] \in G /\ s = <<s[1], s[2]>>
         /\ pc[s[1]] \in {"parked", "woken", "relock", "pass3"}
         /\ s[2] \in DOMAIN op[s[1]].cases /\ Case(s[1], s[2]).c = c
         /\ ~op[s[1]].sel => s = <<s[1], 1>>
<1>1. s \in Sudog
  BY ChanFacts DEF IInv
<1>2. s[1] \in G /\ s = <<s[1], s[2]>>
  BY <1>1 DEF Sudog
<1>3. /\ pc[s[1]] \in {"parked", "woken", "relock", "pass3"}
      /\ s[2] \in DOMAIN op[s[1]].cases /\ Case(s[1], s[2]).c = c
  <2>1. CASE s \in ToSet(ch[c].recvq)
    <3>1. InQueue(ch[c].recvq, c, "recv")
      BY DEF IInv, Queued
    <3>2. /\ pc[s[1]] \in {"parked", "woken", "relock", "pass3"}
          /\ s[2] \in DOMAIN op[s[1]].cases /\ Case(s[1], s[2]) = [c |-> c, dir |-> "recv"]
      BY <2>1, <3>1 DEF InQueue
    <3>. QED BY <3>2
  <2>2. CASE s \in ToSet(ch[c].sendq)
    <3>1. InQueue(ch[c].sendq, c, "send")
      BY DEF IInv, Queued
    <3>2. /\ pc[s[1]] \in {"parked", "woken", "relock", "pass3"}
          /\ s[2] \in DOMAIN op[s[1]].cases /\ Case(s[1], s[2]) = [c |-> c, dir |-> "send"]
      BY <2>2, <3>1 DEF InQueue
    <3>. QED BY <3>2
  <2>. QED BY <2>1, <2>2
<1>4. ~op[s[1]].sel => s[2] = 1
  BY <1>2, <1>3, CallFacts DEF IInv
<1>. QED BY <1>2, <1>3, <1>4

\* g takes s out of its queue, and the goroutine of s is claimed.
LEMMA Claims ==
  ASSUME IInv, NEW g \in G, pc[g] \in {"chan", "poll"}, NEW c \in Chan,
         NEW s \in ToSet(ch[c].recvq) \cup ToSet(ch[c].sendq), ~done[s[1]], Shrinks({s}),
         pc' = [pc EXCEPT ![g] = "handoff"], hand' = [hand EXCEPT ![g] = s], Claimed(s),
         UNCHANGED <<op, calls>>
  PROVE  Parking'
<1>. USE DEF IInv
<1>. DEFINE t == s[1]
<1>1. t \in G /\ pc[t] = "parked" /\ Wakers(t) = {} /\ s # <<>>
  BY Unclaimed
<1>2. /\ t # g /\ pc'[g] = "handoff" /\ \A h \in G \ {g} : pc'[h] = pc[h]
      /\ hand'[g] = s /\ \A h \in G \ {g} : hand'[h] = hand[h]
      /\ done'[t] = op[t].sel /\ \A h \in G \ {t} : done'[h] = done[h]
  BY <1>1 DEF TypeOK, Claimed
<1>3. Wakers(t)' = {g} /\ \A h \in G \ {t} : Wakers(h)' = Wakers(h)
  BY <1>1, <1>2 DEF Wakers
<1>. HIDE DEF t
<1>4. Calling'
  <2>. SUFFICES ASSUME NEW h \in G
                PROVE  /\ pc'[h] # "idle" => op'[h] \in Ops /\ calls'[h] # 0
                       /\ pc'[h] \in {"fast", "fast2", "chan", "closing"} => ~op'[h].sel
                       /\ pc'[h] \in {"sellock", "poll", "relock", "pass3"} => op'[h].sel
                       /\ done'[h] => op'[h].sel /\ pc'[h] \in {"parked", "woken", "relock", "pass3"}
                       /\ done'[h] /\ pc'[h] = "parked" => Wakers(h)' # {}
    BY DEF Calling
  <2>1. CASE h = g
    BY <1>2, <2>1 DEF Calling
  <2>2. CASE h = t
    BY <1>1, <1>2, <1>3, <2>2 DEF Calling
  <2>3. CASE h # g /\ h # t
    BY <1>2, <1>3, <2>3 DEF Calling
  <2>. QED BY <2>1, <2>2, <2>3
<1>5. Handoffs'
  <2>1. ASSUME NEW h \in G \ {g}, pc'[h] = "handoff"
        PROVE  /\ pc[h] = "handoff" /\ hand'[h] = hand[h] /\ hand[h][1] \in G \ {g, t}
    <3>1. pc[h] = "handoff" /\ hand[h][1] \in G /\ pc[hand[h][1]] = "parked" /\ h \in Wakers(hand[h][1])
      BY <1>2, <2>1, HandFacts DEF Handoffs, Wakers
    <3>. QED BY <1>1, <1>2, <2>1, <3>1
  <2>2. ASSUME NEW h \in G \ {g}, pc'[h] = "handoff"
        PROVE /\ hand'[h] # <<>> /\ pc'[hand'[h][1]] = "parked"
              /\ op'[hand'[h][1]].sel => done'[hand'[h][1]]
              /\ {k \in G : pc'[k] = "handoff" /\ hand'[k][1] = hand'[h][1]} = {h}
    <3>. DEFINE x == hand[h][1]
    <3>1. x \in G \ {g, t} /\ hand'[h] = hand[h] /\ pc[h] = "handoff"
      BY <2>1, <2>2
    <3>2. Wakers(x)' = {h} /\ hand[h] # <<>> /\ pc[x] = "parked" /\ (op[x].sel => done[x])
      BY <1>3, <3>1 DEF Handoffs
    <3>3. {k \in G : pc'[k] = "handoff" /\ hand'[k][1] = x} = {h}
      BY <3>2 DEF Wakers
    <3>4. pc'[x] = "parked" /\ done'[x] = done[x]
      BY <1>2, <3>1, <3>2
    <3>. QED BY <3>1, <3>2, <3>3, <3>4
  <2>3. /\ hand'[g] # <<>> /\ pc'[hand'[g][1]] = "parked"
        /\ op'[hand'[g][1]].sel => done'[hand'[g][1]]
        /\ {k \in G : pc'[k] = "handoff" /\ hand'[k][1] = hand'[g][1]} = {g}
    BY <1>1, <1>2, <1>3 DEF Wakers, t
  <2>. QED BY <2>2, <2>3 DEF Handoffs, Wakers
<1>6. Queued'
  <2>1. ASSUME NEW r \in Left
        PROVE  /\ r \in UNION {ToSet(ch[d].recvq) \cup ToSet(ch[d].sendq) : d \in Chan}
               /\ r # s /\ r[1] \in G /\ pc[r[1]] \in {"parked", "woken", "relock", "pass3"}
               /\ done[r[1]] \/ (pc[r[1]] = "parked" /\ Wakers(r[1]) = {})
    <3>1. /\ r # s /\ r[1] \in G /\ pc[r[1]] \in {"parked", "woken", "relock", "pass3"}
          /\ done[r[1]] \/ (pc[r[1]] = "parked" /\ Wakers(r[1]) = {})
      BY LeftFacts
    <3>. QED BY <3>1 DEF Left, Shrinks
  <2>2. ASSUME NEW r \in Left, r[1] = t PROVE op[t].sel
    BY <2>1, <2>2, QueueFacts DEF t
  <2>3. ASSUME NEW r \in Left
        PROVE  /\ pc'[r[1]] \in {"parked", "woken", "relock", "pass3"}
               /\ done'[r[1]] \/ (pc'[r[1]] = "parked" /\ Wakers(r[1])' = {})
    <3>1. CASE r[1] = t
      BY <1>1, <1>2, <2>2, <3>1
    <3>2. CASE r[1] # t
      BY <1>2, <1>3, <2>1, <3>2
    <3>. QED BY <3>1, <3>2
  <2>. QED BY <2>3, StillQueued
<1>7. Waiting' /\ Unready' /\ Barred'
  <2>1. \A h \in G : pc'[h] = "parked" /\ Wakers(h)' = {} =>
           pc[h] = "parked" /\ Wakers(h) = {} /\ t # h
    BY <1>2, <1>3
  <2>3. ClosersGoOn
    BY <1>2, ClosersStay
  <2>2. \A r \in Left : done[r[1]] => done'[r[1]]
    <3>1. \A r \in Left : r[1] \in G
      BY LeftFacts
    <3>. QED BY <1>2, <3>1 DEF t
  <2>. QED BY <2>1, <2>2, <2>3, StillParked DEF t
<1>. QED BY <1>4, <1>5, <1>6, <1>7 DEF Parking

LEMMA HandoffParking ==
  ASSUME IInv, NEW g \in G, Handoff(g)
  PROVE  Parking'
<1>. USE DEF IInv
<1>0. pc[g] = "handoff" /\ hand[g][1] \in G
  BY HandFacts DEF Handoff
<1>. PICK t \in G : t = hand[g][1]
  BY <1>0
<1>1. pc[g] = "handoff" /\ t # g /\ hand[g] # <<>> /\ pc[t] = "parked"
      /\ (op[t].sel => done[t]) /\ Wakers(t) = {g}
  BY HandFacts DEF Handoff, Handoffs
<1>2. /\ pc'[g] = "return" /\ pc'[t] = "woken" /\ \A h \in G \ {g, t} : pc'[h] = pc[h]
      /\ hand'[g] = <<>> /\ \A h \in G \ {g} : hand'[h] = hand[h]
      /\ UNCHANGED <<ch, op, calls, done>>
  BY <1>1 DEF Handoff, TypeOK
<1>3. Wakers(t)' = {} /\ \A h \in G \ {t} : Wakers(h)' = Wakers(h)
  BY <1>1, <1>2 DEF Wakers
<1>4. Calling'
  BY <1>1, <1>2, <1>3 DEF Calling
<1>5. Handoffs'
  <2>1. ASSUME NEW h \in G, pc'[h] = "handoff"
        PROVE /\ hand'[h] # <<>> /\ pc'[hand'[h][1]] = "parked"
              /\ op'[hand'[h][1]].sel => done'[hand'[h][1]]
              /\ {k \in G : pc'[k] = "handoff" /\ hand'[k][1] = hand'[h][1]} = {h}
    <3>0. hand[h][1] \in G
      BY <1>2, <2>1, HandFacts
    <3>. PICK x \in G : x = hand[h][1]
      BY <3>0
    <3>1. h # g /\ h # t /\ pc[h] = "handoff" /\ hand'[h] = hand[h]
      BY <1>2, <2>1
    <3>2. /\ Wakers(x) = {h} /\ hand[h] # <<>> /\ pc[x] = "parked" /\ (op[x].sel => done[x])
      BY <3>1 DEF Handoffs
    <3>3. x # t /\ x # g
      BY <1>1, <3>1, <3>2
    <3>4. Wakers(x)' = {h}
      BY <1>3, <3>2, <3>3
    <3>5. {k \in G : pc'[k] = "handoff" /\ hand'[k][1] = x} = {h}
      BY <3>4 DEF Wakers
    <3>6. pc'[x] = "parked" /\ done'[x] = done[x]
      BY <1>2, <3>2, <3>3
    <3>. QED BY <1>2, <3>1, <3>2, <3>5, <3>6
  <2>. QED BY <2>1 DEF Handoffs, Wakers
<1>6. Shrinks({})
  BY <1>2, NothingShrinks
<1>7. \A r \in Left :
        /\ r[1] \in G /\ pc[r[1]] \in {"parked", "woken", "relock", "pass3"}
        /\ done[r[1]] \/ (pc[r[1]] = "parked" /\ Wakers(r[1]) = {})
  BY <1>6, LeftFacts
<1>8. Queued'
  <2>1. ASSUME NEW r \in Left
        PROVE  /\ pc'[r[1]] \in {"parked", "woken", "relock", "pass3"}
               /\ done'[r[1]] \/ (pc'[r[1]] = "parked" /\ Wakers(r[1])' = {})
    <3>1. CASE r[1] = t
      BY <1>1, <1>2, <1>7, <3>1
    <3>2. CASE r[1] # t
      BY <1>1, <1>2, <1>3, <1>7, <3>2
    <3>. QED BY <3>1, <3>2
  <2>. QED BY <1>2, <1>6, <2>1, StillQueued
<1>9. Waiting' /\ Unready' /\ Barred'
  <2>1. \A h \in G : pc'[h] = "parked" /\ Wakers(h)' = {} => pc[h] = "parked" /\ Wakers(h) = {}
    BY <1>2, <1>3
  <2>2. ClosersGoOn
    BY <1>1, <1>2, ClosersStay
  <2>. QED BY <1>2, <1>6, <2>1, <2>2, StillParked
<1>. QED BY <1>4, <1>5, <1>8, <1>9 DEF Parking

\* A close takes a sudog out of its queue and wakes its goroutine.
LEMMA ReleaseParking ==
  ASSUME IInv, NEW c \in Chan, NEW s \in ToSet(ch[c].recvq) \cup ToSet(ch[c].sendq),
         ~done[s[1]], Shrinks({s}), Release(s)
  PROVE  Parking'
<1>. USE DEF IInv
<1>. DEFINE t == s[1]
<1>1. t \in G /\ pc[t] = "parked" /\ Wakers(t) = {}
  BY Unclaimed
<1>2. /\ pc'[t] = "woken" /\ \A h \in G \ {t} : pc'[h] = pc[h]
      /\ done'[t] = op[t].sel /\ \A h \in G \ {t} : done'[h] = done[h]
      /\ UNCHANGED <<op, calls, hand>>
  BY <1>1 DEF TypeOK, Release, Claimed, Goto
<1>. HIDE DEF t
<1>3. \A h \in G : Wakers(h)' = Wakers(h)
  BY <1>1, <1>2 DEF Wakers
<1>4. Calling'
  <2>. SUFFICES ASSUME NEW h \in G
                PROVE  /\ pc'[h] # "idle" => op'[h] \in Ops /\ calls'[h] # 0
                       /\ pc'[h] \in {"fast", "fast2", "chan", "closing"} => ~op'[h].sel
                       /\ pc'[h] \in {"sellock", "poll", "relock", "pass3"} => op'[h].sel
                       /\ done'[h] => op'[h].sel /\ pc'[h] \in {"parked", "woken", "relock", "pass3"}
                       /\ done'[h] /\ pc'[h] = "parked" => Wakers(h)' # {}
    BY DEF Calling
  <2>1. CASE h = t
    BY <1>1, <1>2, <2>1 DEF Calling
  <2>2. CASE h # t
    BY <1>2, <1>3, <2>2 DEF Calling
  <2>. QED BY <2>1, <2>2
<1>5. Handoffs'
  <2>1. ASSUME NEW h \in G, pc'[h] = "handoff"
        PROVE /\ hand'[h] # <<>> /\ pc'[hand'[h][1]] = "parked"
              /\ op'[hand'[h][1]].sel => done'[hand'[h][1]]
              /\ {k \in G : pc'[k] = "handoff" /\ hand'[k][1] = hand'[h][1]} = {h}
    <3>1. h # t /\ pc[h] = "handoff"
      BY <1>2, <2>1
    <3>. PICK x \in G : x = hand[h][1]
      BY <3>1, HandFacts
    <3>2. Wakers(x) = {h} /\ hand[h] # <<>> /\ pc[x] = "parked" /\ (op[x].sel => done[x])
      BY <3>1 DEF Handoffs
    <3>3. x # t
      BY <1>1, <3>2
    <3>4. {k \in G : pc'[k] = "handoff" /\ hand'[k][1] = x} = {h}
      BY <1>3, <3>2 DEF Wakers
    <3>. QED BY <1>2, <3>2, <3>3, <3>4
  <2>. QED BY <2>1 DEF Handoffs, Wakers
<1>6. ASSUME NEW r \in Left
      PROVE /\ r[1] \in G /\ pc[r[1]] \in {"parked", "woken", "relock", "pass3"}
            /\ done[r[1]] \/ (pc[r[1]] = "parked" /\ Wakers(r[1]) = {})
            /\ r[1] = t => op[t].sel
  <2>1. /\ r # s /\ r[1] \in G /\ pc[r[1]] \in {"parked", "woken", "relock", "pass3"}
        /\ done[r[1]] \/ (pc[r[1]] = "parked" /\ Wakers(r[1]) = {})
    BY LeftFacts
  <2>2. r \in UNION {ToSet(ch[d].recvq) \cup ToSet(ch[d].sendq) : d \in Chan}
    BY DEF Left, Shrinks
  <2>3. r[1] = t => op[t].sel
    BY <2>1, <2>2, QueueFacts DEF t
  <2>. QED BY <2>1, <2>3
<1>7. Queued'
  <2>1. ASSUME NEW r \in Left
        PROVE  /\ pc'[r[1]] \in {"parked", "woken", "relock", "pass3"}
               /\ done'[r[1]] \/ (pc'[r[1]] = "parked" /\ Wakers(r[1])' = {})
    BY <1>2, <1>3, <1>6
  <2>. QED BY <1>2, <2>1, StillQueued
<1>8. Waiting' /\ Unready' /\ Barred'
  <2>1. \A h \in G : pc'[h] = "parked" /\ Wakers(h)' = {} =>
           pc[h] = "parked" /\ Wakers(h) = {} /\ op'[h] = op[h] /\ t # h
    BY <1>2, <1>3
  <2>2. \A r \in Left : done[r[1]] => done'[r[1]]
    BY <1>2, <1>6
  <2>3. ClosersGoOn
    BY <1>1, <1>2, ClosersStay
  <2>. QED BY <2>1, <2>2, <2>3, StillParked DEF t
<1>. QED BY <1>4, <1>5, <1>7, <1>8 DEF Parking

LEMMA Pass3Parking ==
  ASSUME IInv, NEW g \in G, Pass3(g)
  PROVE  Parking'
<1>. USE DEF IInv
<1>. DEFINE K == {s \in Sudog : s[1] = g}
            others(w) == Kept(w, {i \in DOMAIN w : w[i][1] # g})
<1>1. /\ pc[g] = "pass3" /\ op[g].sel /\ op[g] \in Ops /\ calls[g] # 0
      /\ ch' = [c \in Chan |-> [ch[c] EXCEPT !.recvq = others(@), !.sendq = others(@)]]
      /\ done' = [done EXCEPT ![g] = FALSE] /\ UNCHANGED <<op, calls, hand>>
      /\ pc' = [pc EXCEPT ![g] = "return"] \/ pc' = [pc EXCEPT ![g] = "poll"]
  BY DEF Pass3, Calling, Goto
<1>2. /\ pc'[g] \in {"return", "poll"} /\ \A h \in G \ {g} : pc'[h] = pc[h]
      /\ done'[g] = FALSE /\ \A h \in G \ {g} : done'[h] = done[h]
  BY <1>1 DEF TypeOK
<1>3. \A h \in G : Wakers(h)' = Wakers(h)
  BY <1>1, <1>2 DEF Wakers
<1>4. Calling'
  BY <1>1, <1>2, <1>3 DEF Calling
<1>5. Handoffs'
  <2>1. ASSUME NEW h \in G, pc'[h] = "handoff"
        PROVE /\ hand'[h] # <<>> /\ pc'[hand'[h][1]] = "parked"
              /\ op'[hand'[h][1]].sel => done'[hand'[h][1]]
              /\ {k \in G : pc'[k] = "handoff" /\ hand'[k][1] = hand'[h][1]} = {h}
    <3>1. h # g /\ pc[h] = "handoff"
      BY <1>2, <2>1
    <3>. PICK x \in G : x = hand[h][1]
      BY <3>1, HandFacts
    <3>2. Wakers(x) = {h} /\ hand[h] # <<>> /\ pc[x] = "parked" /\ (op[x].sel => done[x])
      BY <3>1 DEF Handoffs
    <3>3. x # g
      BY <1>1, <3>2
    <3>4. {k \in G : pc'[k] = "handoff" /\ hand'[k][1] = x} = {h}
      BY <1>3, <3>2 DEF Wakers
    <3>. QED BY <1>1, <1>2, <3>2, <3>3, <3>4
  <2>. QED BY <2>1 DEF Handoffs, Wakers
<1>6. ASSUME NEW w \in Seq(Sudog), IsInjective(w)
      PROVE  /\ IsInjective(others(w)) /\ ToSet(others(w)) \subseteq ToSet(w) \ K
             /\ \A s \in ToSet(w) \ K : s \in ToSet(others(w))
  <2>. DEFINE I == {i \in DOMAIN w : w[i][1] # g}
  <2>1. IsInjective(others(w)) /\ ToSet(others(w)) = {w[i] : i \in I}
    <3>1. I \in SUBSET DOMAIN w
      OBVIOUS
    <3>. HIDE DEF I
    <3>2. IsInjective(Kept(w, I)) /\ ToSet(Kept(w, I)) = {w[i] : i \in I}
      BY <1>6, <3>1, KeptFacts
    <3>. QED BY <3>2 DEF I
  <2>2. DOMAIN w = 1..Len(w) /\ ToSet(w) \subseteq Sudog
    BY Listed
  <2>3. \A i \in I : w[i] \in ToSet(w) /\ w[i] \notin K
    BY <2>2, Listed
  <2>4. ASSUME NEW s \in ToSet(w) \ K PROVE \E i \in I : s = w[i]
    <3>1. PICK i \in 1..Len(w) : s = w[i]
      BY Listed
    <3>2. w[i][1] # g
      BY <2>2, <2>4, <3>1
    <3>. QED BY <2>2, <3>1, <3>2
  <2>. QED BY <2>1, <2>3, <2>4
<1>7. Shrinks(K)
  <2>. HIDE DEF others, K
  <2>1. ASSUME NEW c \in Chan
        PROVE  /\ ch'[c].recvq = others(ch[c].recvq) /\ ch'[c].sendq = others(ch[c].sendq)
               /\ ch'[c].closed = ch[c].closed /\ ch'[c].qcount = ch[c].qcount
               /\ ch'[c].dataqsiz = ch[c].dataqsiz
    <3>1. ch[c] \in Hchans(Cap(c))
      BY ChanFacts
    <3>2. ch'[c] = [ch[c] EXCEPT !.recvq = others(ch[c].recvq), !.sendq = others(ch[c].sendq)]
      BY <1>1
    <3>. QED BY <3>1, <3>2 DEF Hchans
  <2>2. ASSUME NEW c \in Chan
        PROVE  /\ ch[c].recvq \in Seq(Sudog) /\ IsInjective(ch[c].recvq)
               /\ ch[c].sendq \in Seq(Sudog) /\ IsInjective(ch[c].sendq)
    BY ChanFacts DEF Queued, InQueue
  <2>. QED BY <1>6, <2>1, <2>2 DEF Shrinks
<1>8. ASSUME NEW r \in Left
      PROVE /\ r[1] \in G \ {g}
            /\ pc[r[1]] \in {"parked", "woken", "relock", "pass3"}
            /\ done[r[1]] \/ (pc[r[1]] = "parked" /\ Wakers(r[1]) = {})
  <2>. HIDE DEF K
  <2>1. /\ r \notin K /\ r[1] \in G /\ pc[r[1]] \in {"parked", "woken", "relock", "pass3"}
        /\ done[r[1]] \/ (pc[r[1]] = "parked" /\ Wakers(r[1]) = {})
    BY <1>7, LeftFacts
  <2>2. PICK c \in Chan : r \in ToSet(ch[c].recvq) \cup ToSet(ch[c].sendq)
    BY <1>7 DEF Left, Shrinks
  <2>3. r \in Sudog
    BY <2>2, ChanFacts
  <2>. QED BY <2>1, <2>3 DEF K
<1>9. Queued'
  <2>. HIDE DEF K
  <2>1. \A r \in Left : /\ op'[r[1]] = op[r[1]]
                        /\ pc'[r[1]] \in {"parked", "woken", "relock", "pass3"}
                        /\ done'[r[1]] \/ (pc'[r[1]] = "parked" /\ Wakers(r[1])' = {})
    BY <1>1, <1>2, <1>3, <1>8
  <2>. QED BY SMTT(30), <1>7, <2>1, StillQueued
<1>10. Waiting' /\ Unready' /\ Barred'
  <2>1. \A h \in G : pc'[h] = "parked" /\ Wakers(h)' = {} =>
           pc[h] = "parked" /\ Wakers(h) = {} /\ op'[h] = op[h] /\ \A s \in K : s[1] # h
    BY <1>1, <1>2, <1>3
  <2>. HIDE DEF K
  <2>2. \A r \in Left : done[r[1]] => done'[r[1]]
    BY <1>2, <1>8
  <2>3. ClosersGoOn
    BY <1>1, <1>2, ClosersStay
  <2>. QED BY <1>7, <2>1, <2>2, <2>3, StillParked
<1>. QED BY SMTT(30), <1>4, <1>5, <1>9, <1>10 DEF Parking

\* g's sudogs for the cases that do dir on c.
Mine(g, c, dir) == {<<g, i>> : i \in {j \in DOMAIN op[g].cases : Case(g, j) = [c |-> c, dir |-> dir]}}

\* v is the queue w for dir of c, without some that are claimed and with g's.
Grows(v, w, g, c, dir) ==
  /\ IsInjective(v) /\ ToSet(v) \subseteq ToSet(w) \cup Mine(g, c, dir)
  /\ Mine(g, c, dir) \subseteq ToSet(v)
  /\ \A s \in ToSet(w) : s \in ToSet(v) \/ done[s[1]]

\* g enqueues on its channels, none of which is ready, and parks.
LEMMA Parks ==
  ASSUME IInv, NEW g \in G, pc[g] \in {"chan", "poll"}, pc' = [pc EXCEPT ![g] = "parked"],
         done' = [done EXCEPT ![g] = FALSE], UNCHANGED <<op, calls, hand>>,
         \A i \in DOMAIN op[g].cases : LET k == Case(g, i) IN
           k.dir # "close" /\ ~Ready(ch[k.c], k.c, k.dir),
         \A c \in Chan : /\ ch'[c].closed = ch[c].closed /\ ch'[c].qcount = ch[c].qcount
                         /\ ch'[c].dataqsiz = ch[c].dataqsiz
                         /\ Grows(ch'[c].recvq, ch[c].recvq, g, c, "recv")
                         /\ Grows(ch'[c].sendq, ch[c].sendq, g, c, "send")
  PROVE  Parking'
<1>. USE DEF IInv
<1>1. /\ pc'[g] = "parked" /\ \A h \in G \ {g} : pc'[h] = pc[h]
      /\ ~done'[g] /\ \A h \in G \ {g} : done'[h] = done[h]
  BY DEF TypeOK
<1>2. (\A h \in G : Wakers(h)' = Wakers(h)) /\ Wakers(g) = {}
  <2>1. \A h \in G : Wakers(h)' = Wakers(h)
    BY <1>1 DEF Wakers
  <2>2. Wakers(g) = {}
    BY DEF Wakers, Handoffs
  <2>. QED BY <2>1, <2>2
<1>3. Calling'
  BY <1>1, <1>2 DEF Calling
<1>4. Handoffs'
  <2>1. ASSUME NEW h \in G, pc'[h] = "handoff"
        PROVE /\ hand'[h] # <<>> /\ pc'[hand'[h][1]] = "parked"
              /\ op'[hand'[h][1]].sel => done'[hand'[h][1]]
              /\ {k \in G : pc'[k] = "handoff" /\ hand'[k][1] = hand'[h][1]} = {h}
    <3>1. h # g /\ pc[h] = "handoff"
      BY <1>1, <2>1
    <3>. PICK x \in G : x = hand[h][1]
      BY <3>1, HandFacts
    <3>2. Wakers(x) = {h} /\ hand[h] # <<>> /\ pc[x] = "parked" /\ (op[x].sel => done[x])
      BY <3>1 DEF Handoffs
    <3>3. x # g
      BY <3>2
    <3>4. {k \in G : pc'[k] = "handoff" /\ hand'[k][1] = x} = {h}
      BY <1>2, <3>2 DEF Wakers
    <3>. QED BY <1>1, <3>2, <3>3, <3>4
  <2>. QED BY <2>1 DEF Handoffs, Wakers
<1>5. ASSUME NEW c \in Chan, NEW s \in ToSet(ch[c].recvq) \cup ToSet(ch[c].sendq)
      PROVE  s[1] \in G \ {g} /\ done'[s[1]] = done[s[1]]
  BY <1>1, QueueFacts
<1>6. Queued'
  <2>1. ASSUME NEW c \in Chan, NEW dir, NEW w, NEW v, InQueue(w, c, dir),
               Grows(v, w, g, c, dir), \A s \in ToSet(w) : s[1] \in G \ {g}
        PROVE  QueueAfter(v, c, dir)
    <3>. SUFFICES ASSUME NEW s \in ToSet(v) PROVE SudogAfter(s, c, dir)
      BY <2>1 DEF QueueAfter, Grows
    <3>1. CASE s \in ToSet(w)
      BY <1>1, <1>2, <2>1, <3>1 DEF InQueue, SudogAfter, Case
    <3>2. CASE s \in Mine(g, c, dir)
      BY <1>1, <1>2, <3>2 DEF Mine, SudogAfter, Case
    <3>. QED BY <2>1, <3>1, <3>2 DEF Grows
  <2>2. ASSUME NEW c \in Chan
        PROVE  QueueAfter(ch'[c].recvq, c, "recv") /\ QueueAfter(ch'[c].sendq, c, "send")
    BY <1>5, <2>1 DEF Queued
  <2>. QED BY <2>2, QueuesAfter
<1>7. ASSUME NEW i \in DOMAIN op[g].cases
      PROVE  LET k == Case(g, i)  b == ch[k.c] IN
        /\ k.c \in Chan /\ k = [c |-> k.c, dir |-> k.dir] /\ k.dir \in {"send", "recv"}
        /\ ~b.closed
        /\ k.dir = "send" => b.qcount = Cap(k.c) /\ \A s \in ToSet(b.recvq) : done[s[1]]
        /\ k.dir = "recv" => b.qcount = 0 /\ \A s \in ToSet(b.sendq) : done[s[1]]
  <2>. DEFINE k == Case(g, i)  b == ch[k.c]
  <2>1. k \in Cases /\ k.c \in Chan /\ k.dir \in {"send", "recv"}
    BY CallFacts
  <2>2. k = [c |-> k.c, dir |-> k.dir]
    BY <2>1 DEF Cases
  <2>3. ~Ready(b, k.c, k.dir)
    OBVIOUS
  <2>4. /\ b.recvq \in Seq(Sudog) /\ IsInjective(b.recvq) /\ b.qcount \in 0..Cap(k.c)
        /\ b.sendq \in Seq(Sudog) /\ IsInjective(b.sendq) /\ Cap(k.c) \in Nat
    BY <2>1, ChanFacts DEF Queued, InQueue
  <2>. HIDE DEF k
  <2>5. /\ Claim(b.recvq) \in Nat /\ (Claim(b.recvq) = 0 <=> \A s \in ToSet(b.recvq) : done[s[1]])
        /\ Claim(b.sendq) \in Nat /\ (Claim(b.sendq) = 0 <=> \A s \in ToSet(b.sendq) : done[s[1]])
    BY <2>4, ClaimFacts
  <2>6. CASE k.dir = "send"
    <3>1. ~b.closed /\ ~(Claim(b.recvq) > 0) /\ ~(b.qcount < Cap(k.c))
      BY <2>3, <2>6 DEF Ready
    <3>. QED BY <2>1, <2>2, <2>4, <2>5, <2>6, <3>1 DEF k
  <2>7. CASE k.dir = "recv"
    <3>1. ~b.closed /\ ~(Claim(b.sendq) > 0) /\ ~(b.qcount > 0)
      BY <2>3, <2>7 DEF Ready
    <3>. QED BY <2>1, <2>2, <2>4, <2>5, <2>7, <3>1 DEF k
  <2>. QED BY <2>1, <2>6, <2>7
<1>8. ASSUME NEW h \in G \ {g}, pc'[h] = "parked", Wakers(h)' = {}, NEW i \in DOMAIN op[h].cases
      PROVE  LET k == Case(h, i)  b == ch[k.c] IN
        /\ k.c \in Chan
        /\ \/ /\ k.dir = "send" /\ <<h, i>> \in ToSet(b.sendq)
              /\ <<h, i>> \in ToSet(ch'[k.c].sendq) /\ ~done[h] /\ b.qcount = Cap(k.c)
              /\ \A s \in ToSet(b.recvq) : s[1] = h \/ done[s[1]]
           \/ /\ k.dir = "recv" /\ <<h, i>> \in ToSet(b.recvq)
              /\ <<h, i>> \in ToSet(ch'[k.c].recvq) /\ ~done[h] /\ b.qcount = 0
              /\ \A s \in ToSet(b.sendq) : s[1] = h \/ done[s[1]]
  <2>. DEFINE k == Case(h, i)  b == ch[k.c]
  <2>1. pc[h] = "parked" /\ Wakers(h) = {} /\ ~done[h]
    BY <1>1, <1>2, <1>8 DEF Calling
  <2>2. k.c \in Chan
    BY <2>1, CallFacts
  <2>3. \/ k.dir = "send" /\ <<h, i>> \in ToSet(b.sendq)
        \/ k.dir = "recv" /\ <<h, i>> \in ToSet(b.recvq)
    BY <2>1 DEF Waiting
  <2>4. /\ k.dir = "send" => b.qcount = Cap(k.c)
        /\ k.dir = "recv" => b.qcount = 0
        /\ \A s \in ToSet(IF k.dir = "send" THEN b.recvq ELSE b.sendq) : s[1] = h \/ done[s[1]]
    BY <2>1 DEF Unready
  <2>. HIDE DEF k
  <2>5. /\ <<h, i>> \in ToSet(b.sendq) => <<h, i>> \in ToSet(ch'[k.c].sendq)
        /\ <<h, i>> \in ToSet(b.recvq) => <<h, i>> \in ToSet(ch'[k.c].recvq)
    BY <2>1, <2>2 DEF Grows
  <2>6. CASE k.dir = "send"
    BY <2>1, <2>2, <2>3, <2>4, <2>5, <2>6 DEF k
  <2>7. CASE k.dir = "recv"
    BY <2>1, <2>2, <2>3, <2>4, <2>5, <2>7 DEF k
  <2>. QED BY <2>3, <2>6, <2>7
<1>9. Waiting'
  <2>1. ASSUME NEW h \in G, pc'[h] = "parked", Wakers(h)' = {}, NEW i \in DOMAIN op[h].cases
        PROVE  LET k == Case(h, i) IN \/ k.dir = "send" /\ <<h, i>> \in ToSet(ch'[k.c].sendq)
                                      \/ k.dir = "recv" /\ <<h, i>> \in ToSet(ch'[k.c].recvq)
    <3>1. CASE h = g
      <4>1. LET k == Case(g, i) IN <<g, i>> \in Mine(g, k.c, k.dir) /\ k.c \in Chan
                                   /\ k.dir \in {"send", "recv"}
        BY <1>7, <3>1 DEF Mine
      <4>. QED BY <3>1, <4>1 DEF Grows
    <3>2. CASE h # g
      BY <1>8, <2>1, <3>2
    <3>. QED BY <3>1, <3>2
  <2>. QED BY <2>1 DEF Waiting, Case
<1>10. Unready'
  <2>. SUFFICES ASSUME NEW h \in G, pc'[h] = "parked", Wakers(h)' = {},
                       NEW i \in DOMAIN op[h].cases
                PROVE LET k == Case(h, i)  b == ch'[k.c] IN
                        /\ k.dir = "send" => b.qcount = b.dataqsiz
                        /\ k.dir = "recv" => b.qcount = 0
                        /\ \A s \in ToSet(IF k.dir = "send" THEN b.recvq ELSE b.sendq) :
                             s[1] = h \/ done'[s[1]]
    BY DEF Unready, Cap, Case
  <2>. DEFINE k == Case(h, i)
  <2>1. ASSUME NEW c \in Chan
        PROVE  /\ \A s \in ToSet(ch'[c].recvq) :
                    s \in ToSet(ch[c].recvq) \/ \E j \in DOMAIN op[g].cases :
                                s[1] = g /\ Case(g, j).c = c /\ Case(g, j).dir = "recv"
               /\ \A s \in ToSet(ch'[c].sendq) :
                    s \in ToSet(ch[c].sendq) \/ \E j \in DOMAIN op[g].cases :
                                s[1] = g /\ Case(g, j).c = c /\ Case(g, j).dir = "send"
    BY DEF Grows, Mine
  <2>2. CASE h = g
    <3>1. /\ k.c \in Chan /\ k.dir \in {"send", "recv"} /\ ~ch[k.c].closed
          /\ k.dir = "send" => ch[k.c].qcount = Cap(k.c) /\ \A s \in ToSet(ch[k.c].recvq) : done[s[1]]
          /\ k.dir = "recv" => ch[k.c].qcount = 0 /\ \A s \in ToSet(ch[k.c].sendq) : done[s[1]]
      BY <1>7, <2>2
    <3>. HIDE DEF k
    <3>2. /\ (k.dir = "send" => ch'[k.c].qcount = ch'[k.c].dataqsiz)
          /\ (k.dir = "recv" => ch'[k.c].qcount = 0)
      BY <3>1 DEF Cap
    <3>3. /\ k.dir = "send" => \A s \in ToSet(ch'[k.c].recvq) : s[1] = h \/ done'[s[1]]
          /\ k.dir = "recv" => \A s \in ToSet(ch'[k.c].sendq) : s[1] = h \/ done'[s[1]]
      BY <1>5, <2>1, <2>2, <3>1
    <3>4. CASE k.dir = "send"
      BY <3>2, <3>3, <3>4 DEF k
    <3>5. CASE k.dir = "recv"
      BY <3>2, <3>3, <3>5 DEF k
    <3>. QED BY <3>1, <3>4, <3>5
  <2>3. CASE h # g
    <3>1. /\ k.c \in Chan
          /\ \/ /\ k.dir = "send" /\ <<h, i>> \in ToSet(ch[k.c].sendq)
                /\ ~done[h] /\ ch[k.c].qcount = Cap(k.c)
                /\ \A s \in ToSet(ch[k.c].recvq) : s[1] = h \/ done[s[1]]
             \/ /\ k.dir = "recv" /\ <<h, i>> \in ToSet(ch[k.c].recvq)
                /\ ~done[h] /\ ch[k.c].qcount = 0
                /\ \A s \in ToSet(ch[k.c].sendq) : s[1] = h \/ done[s[1]]
      BY <1>8, <2>3
    <3>. HIDE DEF k
    <3>2. /\ (k.dir = "send" => ch'[k.c].qcount = ch'[k.c].dataqsiz)
          /\ (k.dir = "recv" => ch'[k.c].qcount = 0)
      BY <3>1 DEF Cap
    <3>3. \A j \in DOMAIN op[g].cases : Case(g, j).c = k.c =>
            /\ Case(g, j).dir = "send" => \A s \in ToSet(ch[k.c].recvq) : done[s[1]]
            /\ Case(g, j).dir = "recv" => \A s \in ToSet(ch[k.c].sendq) : done[s[1]]
      BY <1>7
    <3>4. CASE k.dir = "send"
      <4>1. ASSUME NEW s \in ToSet(ch'[k.c].recvq) PROVE s[1] = h \/ done'[s[1]]
        <5>0. <<h, i>> \in ToSet(ch[k.c].sendq) /\ ~done[<<h, i>>[1]]
          BY <3>1, <3>4
        <5>1. s \in ToSet(ch[k.c].recvq)
          <6>. PICK c \in Chan : c = k.c
            BY <3>1
          <6>1. s \in ToSet(ch[k.c].recvq) \/ \E j \in DOMAIN op[g].cases :
                  Case(g, j).c = k.c /\ Case(g, j).dir = "recv"
            <7>1. s \in ToSet(ch'[c].recvq)
              OBVIOUS
            <7>2. s \in ToSet(ch[c].recvq) \/ \E j \in DOMAIN op[g].cases :
                    s[1] = g /\ Case(g, j).c = c /\ Case(g, j).dir = "recv"
              BY <2>1, <7>1
            <7>. QED BY <7>2
          <6>. QED BY <3>3, <5>0, <6>1
        <5>. QED BY <1>5, <3>1, <3>4, <5>1
      <4>. QED BY <3>2, <3>4, <4>1 DEF k
    <3>5. CASE k.dir = "recv"
      <4>1. ASSUME NEW s \in ToSet(ch'[k.c].sendq) PROVE s[1] = h \/ done'[s[1]]
        <5>1. s \in ToSet(ch[k.c].sendq)
          BY ZenonT(60), <2>1, <3>1, <3>3, <3>5
        <5>. QED BY <1>5, <3>1, <3>5, <5>1
      <4>. QED BY <3>2, <3>5, <4>1 DEF k
    <3>. QED BY <3>1, <3>4, <3>5
  <2>. QED BY SMTT(30), <2>2, <2>3
<1>11. Barred'
  <2>. SUFFICES ASSUME NEW c \in Chan, ch'[c].closed, ~Closing(c)',
                       NEW s \in ToSet(ch'[c].recvq) \cup ToSet(ch'[c].sendq)
                PROVE  done'[s[1]]
    BY DEF Barred
  <2>1. ch[c].closed /\ ~Closing(c)
    <3>1. \A h \in G : pc[h] = "closing" => pc'[h] = "closing"
      BY <1>1
    <3>. QED BY <3>1 DEF Closing, Case
  <2>2. CASE s \in ToSet(ch[c].recvq) \cup ToSet(ch[c].sendq)
    <3>1. done[s[1]]
      BY <2>1, <2>2 DEF Barred
    <3>. QED BY <1>5, <2>2, <3>1
  <2>3. CASE s \in Mine(g, c, "recv") \cup Mine(g, c, "send")
    <3>1. PICK i \in DOMAIN op[g].cases : Case(g, i).c = c
      BY <2>3 DEF Mine
    <3>. QED BY <1>7, <2>1, <3>1
  <2>4. /\ ToSet(ch'[c].recvq) \subseteq ToSet(ch[c].recvq) \cup Mine(g, c, "recv")
        /\ ToSet(ch'[c].sendq) \subseteq ToSet(ch[c].sendq) \cup Mine(g, c, "send")
    BY DEF Grows
  <2>. QED BY <2>2, <2>3, <2>4
<1>. QED BY <1>3, <1>4, <1>6, <1>9, <1>10, <1>11 DEF Parking

-----------------------------------------------------------------------------
\* hs is ch, with queues emptied that hold none but claimed sudogs.
Purged(hs) == DOMAIN hs = Chan /\ \A c \in Chan :
  /\ hs[c] \in Hchans(Cap(c))
  /\ hs[c].qcount = ch[c].qcount /\ hs[c].closed = ch[c].closed
  /\ \/ hs[c].recvq = ch[c].recvq
     \/ hs[c].recvq = <<>> /\ \A s \in ToSet(ch[c].recvq) : done[s[1]]
  /\ \/ hs[c].sendq = ch[c].sendq
     \/ hs[c].sendq = <<>> /\ \A s \in ToSet(ch[c].sendq) : done[s[1]]

LEMMA PurgedFacts ==
  ASSUME IInv, NEW hs, Purged(hs), NEW c \in Chan
  PROVE  /\ hs[c] \in Hchans(Cap(c)) /\ Cap(c) \in Nat /\ hs[c].dataqsiz = ch[c].dataqsiz
         /\ hs[c].qcount = ch[c].qcount /\ hs[c].closed = ch[c].closed
         /\ hs[c].recvq \in Seq(Sudog) /\ IsInjective(hs[c].recvq)
         /\ hs[c].sendq \in Seq(Sudog) /\ IsInjective(hs[c].sendq)
         /\ ToSet(hs[c].recvq) \subseteq ToSet(ch[c].recvq)
         /\ ToSet(hs[c].sendq) \subseteq ToSet(ch[c].sendq)
         /\ \A s \in ToSet(ch[c].recvq) : s \in ToSet(hs[c].recvq) \/ done[s[1]]
         /\ \A s \in ToSet(ch[c].sendq) : s \in ToSet(hs[c].sendq) \/ done[s[1]]
<1>. USE DEF IInv
<1>1. /\ hs[c] \in Hchans(Cap(c)) /\ Cap(c) \in Nat
      /\ hs[c].qcount = ch[c].qcount /\ hs[c].closed = ch[c].closed
  BY ChanFacts DEF Purged
<1>2. /\ hs[c].dataqsiz = ch[c].dataqsiz
      /\ hs[c].recvq \in Seq(Sudog) /\ hs[c].sendq \in Seq(Sudog)
  BY <1>1 DEF Hchans, Cap
<1>3. IsInjective(ch[c].recvq) /\ IsInjective(ch[c].sendq)
  BY DEF Queued, InQueue
<1>4. IsInjective(<<>>) /\ ToSet(<<>>) = {}
  BY DEF IsInjective, ToSet
<1>. QED BY <1>1, <1>2, <1>3, <1>4 DEF Purged

LEMMA UntouchedPurged == IInv => Purged(ch)
BY ChanFacts DEF IInv, Purged, TypeOK

LEMMA DrainedPurged ==
  ASSUME IInv, NEW cs,
         \A c \in Chan, dir \in {"send", "recv"} :
           [c |-> c, dir |-> dir] \in cs => ~Ready(ch[c], c, dir)
  PROVE  Purged(Drained(ch, cs))
<1>. USE DEF IInv
<1>. DEFINE hs == Drained(ch, cs)
<1>. SUFFICES ASSUME NEW c \in Chan
              PROVE  /\ hs[c] \in Hchans(Cap(c))
                     /\ hs[c].qcount = ch[c].qcount /\ hs[c].closed = ch[c].closed
                     /\ \/ hs[c].recvq = ch[c].recvq
                        \/ hs[c].recvq = <<>> /\ \A s \in ToSet(ch[c].recvq) : done[s[1]]
                     /\ \/ hs[c].sendq = ch[c].sendq
                        \/ hs[c].sendq = <<>> /\ \A s \in ToSet(ch[c].sendq) : done[s[1]]
  BY DEF Purged, Drained
<1>1. /\ ch[c] \in Hchans(Cap(c))
      /\ ch[c].recvq \in Seq(Sudog) /\ IsInjective(ch[c].recvq)
      /\ ch[c].sendq \in Seq(Sudog) /\ IsInjective(ch[c].sendq)
  BY ChanFacts DEF Queued, InQueue
<1>2. /\ [c |-> c, dir |-> "send"] \in cs => \A s \in ToSet(ch[c].recvq) : done[s[1]]
      /\ [c |-> c, dir |-> "recv"] \in cs => \A s \in ToSet(ch[c].sendq) : done[s[1]]
  <2>1. /\ [c |-> c, dir |-> "send"] \in cs => ~(Claim(ch[c].recvq) > 0)
        /\ [c |-> c, dir |-> "recv"] \in cs => ~(Claim(ch[c].sendq) > 0)
    BY DEF Ready
  <2>2. /\ Claim(ch[c].recvq) \in Nat /\ (Claim(ch[c].recvq) = 0 <=> \A s \in ToSet(ch[c].recvq) : done[s[1]])
        /\ Claim(ch[c].sendq) \in Nat /\ (Claim(ch[c].sendq) = 0 <=> \A s \in ToSet(ch[c].sendq) : done[s[1]])
    BY <1>1, ClaimFacts
  <2>. QED BY <2>1, <2>2
<1>3. <<>> \in Seq(Sudog) /\ c \in DOMAIN hs
  BY DEF Drained
<1>. DEFINE v == IF [c |-> c, dir |-> "send"] \in cs THEN <<>> ELSE ch[c].recvq
            w == IF [c |-> c, dir |-> "recv"] \in cs THEN <<>> ELSE ch[c].sendq
<1>4. hs[c] = [ch[c] EXCEPT !.recvq = v, !.sendq = w]
  BY DEF Drained
<1>5. /\ v \in Seq(Sudog) /\ w \in Seq(Sudog)
      /\ v = ch[c].recvq \/ (v = <<>> /\ \A s \in ToSet(ch[c].recvq) : done[s[1]])
      /\ w = ch[c].sendq \/ (w = <<>> /\ \A s \in ToSet(ch[c].sendq) : done[s[1]])
  BY <1>1, <1>2, <1>3
<1>. HIDE DEF v, w, hs
<1>. QED BY <1>1, <1>3, <1>4, <1>5 DEF Hchans

\* A step that goes on from hs, and changes channel c only.
LEMMA Taken ==
  ASSUME IInv, NEW hs, Purged(hs), NEW c \in Chan, NEW K,
         \A d \in Chan \ {c} : ch'[d] = hs[d],
         K \subseteq ToSet(ch[c].recvq) \cup ToSet(ch[c].sendq),
         IsInjective(ch'[c].recvq), ToSet(ch'[c].recvq) \subseteq ToSet(hs[c].recvq) \ K,
         IsInjective(ch'[c].sendq), ToSet(ch'[c].sendq) \subseteq ToSet(hs[c].sendq) \ K,
         \A s \in ToSet(hs[c].recvq) \ K : s \in ToSet(ch'[c].recvq) \/ done[s[1]],
         \A s \in ToSet(hs[c].sendq) \ K : s \in ToSet(ch'[c].sendq) \/ done[s[1]],
         \/ ch'[c].qcount = ch[c].qcount /\ ch'[c].closed = ch[c].closed
         \/ \A s \in ToSet(hs[c].recvq) \cup ToSet(hs[c].sendq) : s \in K \/ done[s[1]],
         ch'[c].dataqsiz = ch[c].dataqsiz
  PROVE  Shrinks(K)
<1>1. ASSUME NEW d \in Chan \ {c}, NEW s \in ToSet(ch[d].recvq) \cup ToSet(ch[d].sendq)
      PROVE  s \notin K
  BY QueueFacts
<1>2. ASSUME NEW d \in Chan
      PROVE
        /\ IsInjective(ch'[d].recvq) /\ ToSet(ch'[d].recvq) \subseteq ToSet(ch[d].recvq) \ K
        /\ IsInjective(ch'[d].sendq) /\ ToSet(ch'[d].sendq) \subseteq ToSet(ch[d].sendq) \ K
        /\ \A s \in ToSet(ch[d].recvq) \ K : s \in ToSet(ch'[d].recvq) \/ done[s[1]]
        /\ \A s \in ToSet(ch[d].sendq) \ K : s \in ToSet(ch'[d].sendq) \/ done[s[1]]
        /\ \/ ch'[d].qcount = ch[d].qcount /\ ch'[d].closed = ch[d].closed
           \/ \A s \in ToSet(ch[d].recvq) \cup ToSet(ch[d].sendq) : s \in K \/ done[s[1]]
        /\ ch'[d].dataqsiz = ch[d].dataqsiz
  <2>1. CASE d = c
    BY <2>1, PurgedFacts
  <2>2. CASE d # c
    <3>1. ch'[d] = hs[d]
      BY <2>2
    <3>2. /\ hs[d].dataqsiz = ch[d].dataqsiz /\ hs[d].qcount = ch[d].qcount
          /\ hs[d].closed = ch[d].closed
          /\ IsInjective(hs[d].recvq) /\ IsInjective(hs[d].sendq)
          /\ ToSet(hs[d].recvq) \subseteq ToSet(ch[d].recvq)
          /\ ToSet(hs[d].sendq) \subseteq ToSet(ch[d].sendq)
          /\ \A s \in ToSet(ch[d].recvq) : s \in ToSet(hs[d].recvq) \/ done[s[1]]
          /\ \A s \in ToSet(ch[d].sendq) : s \in ToSet(hs[d].sendq) \/ done[s[1]]
      BY ZenonT(60), PurgedFacts
    <3>. QED BY <1>1, <2>2, <3>1, <3>2
  <2>. QED BY <2>1, <2>2
<1>. QED BY <1>2 DEF Shrinks

LEMMA PurgedShrinks ==
  ASSUME IInv, NEW hs, Purged(hs), \A d \in Chan : ch'[d] = hs[d]
  PROVE  Shrinks({})
<1>1. ASSUME NEW c \in Chan PROVE Shrinks({})
  <2>1. ch'[c] = hs[c]
    OBVIOUS
  <2>. QED BY <2>1, PurgedFacts, Taken
<1>2. CASE Chan = {}
  BY <1>2 DEF Shrinks
<1>. QED BY <1>1, <1>2

\* With nobody to claim in a channel's queues they may be emptied.
LEMMA EmptiedPurged ==
  ASSUME IInv, NEW c \in Chan, Claim(ch[c].recvq) = 0
  PROVE  /\ Purged([ch EXCEPT ![c].recvq = <<>>])
         /\ Claim(ch[c].sendq) = 0 => Purged([ch EXCEPT ![c].recvq = <<>>, ![c].sendq = <<>>])
<1>. USE DEF IInv
<1>1. \A d \in Chan : ch[d] \in Hchans(Cap(d))
  BY ChanFacts
<1>2. /\ ch[c].recvq \in Seq(Sudog) /\ IsInjective(ch[c].recvq)
      /\ ch[c].sendq \in Seq(Sudog) /\ IsInjective(ch[c].sendq)
  BY ChanFacts DEF Queued, InQueue
<1>3. /\ \A s \in ToSet(ch[c].recvq) : done[s[1]]
      /\ Claim(ch[c].sendq) = 0 => \A s \in ToSet(ch[c].sendq) : done[s[1]]
  BY <1>2, ClaimFacts
<1>4. DOMAIN ch = Chan /\ <<>> \in Seq(Sudog)
  BY DEF TypeOK
<1>5. Purged([ch EXCEPT ![c].recvq = <<>>])
  <2>. DEFINE hs == [ch EXCEPT ![c].recvq = <<>>]
  <2>1. /\ DOMAIN hs = Chan /\ \A d \in Chan \ {c} : hs[d] = ch[d]
        /\ hs[c] = [ch[c] EXCEPT !.recvq = <<>>]
    BY <1>4
  <2>. HIDE DEF hs
  <2>2. /\ hs[c] \in Hchans(Cap(c)) /\ hs[c].qcount = ch[c].qcount
        /\ hs[c].closed = ch[c].closed /\ hs[c].recvq = <<>> /\ hs[c].sendq = ch[c].sendq
    BY <1>1, <1>4, <2>1 DEF Hchans
  <2>3. Purged(hs)
    BY <1>1, <1>3, <2>1, <2>2 DEF Purged
  <2>. QED BY <2>3 DEF hs
<1>6. ASSUME Claim(ch[c].sendq) = 0
      PROVE  Purged([ch EXCEPT ![c].recvq = <<>>, ![c].sendq = <<>>])
  <2>. DEFINE hs == [ch EXCEPT ![c].recvq = <<>>, ![c].sendq = <<>>]
  <2>1. /\ DOMAIN hs = Chan /\ \A d \in Chan \ {c} : hs[d] = ch[d]
        /\ hs[c] = [ch[c] EXCEPT !.recvq = <<>>, !.sendq = <<>>]
    BY <1>4
  <2>. HIDE DEF hs
  <2>2. /\ hs[c] \in Hchans(Cap(c)) /\ hs[c].qcount = ch[c].qcount
        /\ hs[c].closed = ch[c].closed /\ hs[c].recvq = <<>> /\ hs[c].sendq = <<>>
    BY <1>1, <1>4, <2>1 DEF Hchans
  <2>3. Purged(hs)
    BY <1>1, <1>3, <1>6, <2>1, <2>2 DEF Purged
  <2>. QED BY <2>3 DEF hs
<1>. QED BY <1>5, <1>6

\* What dequeue hands out was unclaimed in the queue, and it has left it.
LEMMA DequeueShrinks ==
  ASSUME IInv, NEW hs, Purged(hs), NEW c \in Chan, NEW w, Claim(w) > 0,
         \/ w = hs[c].recvq /\ ch' = [hs EXCEPT ![c].recvq = Dequeued(w)]
         \/ w = hs[c].sendq /\ ch' = [hs EXCEPT ![c].sendq = Dequeued(w)]
  PROVE  LET s == w[Claim(w)] IN
           /\ s \in Sudog /\ s \in ToSet(ch[c].recvq) \cup ToSet(ch[c].sendq) /\ ~done[s[1]]
           /\ Shrinks({s}) /\ DOMAIN ch' = Chan /\ \A d \in Chan : ch'[d] \in Hchans(Cap(d))
<1>. DEFINE s == w[Claim(w)]
<1>1. /\ hs[c] \in Hchans(Cap(c)) /\ hs[c].dataqsiz = ch[c].dataqsiz
      /\ hs[c].qcount = ch[c].qcount /\ hs[c].closed = ch[c].closed
      /\ hs[c].recvq \in Seq(Sudog) /\ IsInjective(hs[c].recvq)
      /\ hs[c].sendq \in Seq(Sudog) /\ IsInjective(hs[c].sendq)
      /\ ToSet(hs[c].recvq) \subseteq ToSet(ch[c].recvq)
      /\ ToSet(hs[c].sendq) \subseteq ToSet(ch[c].sendq)
  BY ONLY IInv, Purged(hs), c \in Chan, PurgedFacts
<1>. USE DEF IInv
<1>2. /\ s \in ToSet(w) /\ ~done[s[1]] /\ s \notin ToSet(Dequeued(w))
      /\ Dequeued(w) \in Seq(Sudog) /\ IsInjective(Dequeued(w))
      /\ ToSet(Dequeued(w)) \subseteq ToSet(w)
      /\ \A r \in ToSet(w) : done[r[1]] \/ r \in ToSet(Dequeued(w)) \/ r = s
  BY <1>1, ClaimFacts
<1>. HIDE DEF s
<1>3. s \in Sudog /\ s \in ToSet(ch[c].recvq) \cup ToSet(ch[c].sendq)
  BY <1>1, <1>2, ChanFacts
<1>4. /\ s \in ToSet(ch[c].recvq) => Case(s[1], s[2]) = [c |-> c, dir |-> "recv"]
      /\ s \in ToSet(ch[c].sendq) => Case(s[1], s[2]) = [c |-> c, dir |-> "send"]
  BY DEF Queued, InQueue
<1>5. ~(s \in ToSet(ch[c].recvq) /\ s \in ToSet(ch[c].sendq))
  BY <1>4
<1>6. /\ DOMAIN ch' = Chan /\ \A d \in Chan \ {c} : ch'[d] = hs[d] /\ hs[d] \in Hchans(Cap(d))
      /\ \/ w = hs[c].recvq /\ ch'[c] = [hs[c] EXCEPT !.recvq = Dequeued(w)]
         \/ w = hs[c].sendq /\ ch'[c] = [hs[c] EXCEPT !.sendq = Dequeued(w)]
  BY DEF Purged
<1>7. /\ ch'[c] \in Hchans(Cap(c)) /\ ch'[c].dataqsiz = ch[c].dataqsiz
      /\ ch'[c].qcount = ch[c].qcount /\ ch'[c].closed = ch[c].closed
      /\ \/ w = hs[c].recvq /\ ch'[c].recvq = Dequeued(w) /\ ch'[c].sendq = hs[c].sendq
         \/ w = hs[c].sendq /\ ch'[c].sendq = Dequeued(w) /\ ch'[c].recvq = hs[c].recvq
  <2>1. CASE w = hs[c].recvq /\ ch'[c] = [hs[c] EXCEPT !.recvq = Dequeued(w)]
    BY <1>1, <1>2, <2>1 DEF Hchans
  <2>2. CASE w = hs[c].sendq /\ ch'[c] = [hs[c] EXCEPT !.sendq = Dequeued(w)]
    BY <1>1, <1>2, <2>2 DEF Hchans
  <2>. QED BY <1>6, <2>1, <2>2
<1>8. Shrinks({s})
  <2>1. /\ IsInjective(ch'[c].recvq) /\ ToSet(ch'[c].recvq) \subseteq ToSet(hs[c].recvq) \ {s}
        /\ IsInjective(ch'[c].sendq) /\ ToSet(ch'[c].sendq) \subseteq ToSet(hs[c].sendq) \ {s}
        /\ \A r \in ToSet(hs[c].recvq) \ {s} : r \in ToSet(ch'[c].recvq) \/ done[r[1]]
        /\ \A r \in ToSet(hs[c].sendq) \ {s} : r \in ToSet(ch'[c].sendq) \/ done[r[1]]
    <3>1. CASE w = hs[c].recvq /\ ch'[c].recvq = Dequeued(w) /\ ch'[c].sendq = hs[c].sendq
      BY <1>1, <1>2, <1>5, <3>1
    <3>2. CASE w = hs[c].sendq /\ ch'[c].sendq = Dequeued(w) /\ ch'[c].recvq = hs[c].recvq
      BY <1>1, <1>2, <1>5, <3>2
    <3>. QED BY <1>7, <3>1, <3>2
  <2>2. {s} \subseteq ToSet(ch[c].recvq) \cup ToSet(ch[c].sendq)
    BY <1>3
  <2>. QED BY <1>6, <1>7, <2>1, <2>2, Taken
<1>9. \A d \in Chan : ch'[d] \in Hchans(Cap(d))
  BY <1>6, <1>7
<1>. QED BY <1>2, <1>3, <1>6, <1>8, <1>9 DEF s

\* What a call that goes ahead does to the variables' types.
Typed == /\ DOMAIN ch' = Chan /\ \A c \in Chan : ch'[c] \in Hchans(Cap(c))
         /\ pc' \in [G -> PC] /\ done' \in [G -> BOOLEAN]
         /\ hand' \in [G -> Sudog \cup {<<>>}] /\ elem' \in [G -> Value]
         /\ ret' \in [G -> Nat \X {"pending", "ok", "closed", "panic", "default"}]

LEMMA SettleTyped ==
  ASSUME IInv, NEW g \in G, NEW i \in Nat, Settle(g, i, "ok") \/ Settle(g, i, "panic")
                  \/ Settle(g, i, "closed") \/ Settle(g, i, "default"),
         NEW l \in PC, Goto(g, l)
  PROVE  /\ ret' \in [G -> Nat \X {"pending", "ok", "closed", "panic", "default"}]
         /\ pc' \in [G -> PC]
<1>. DEFINE R == Nat \X {"pending", "ok", "closed", "panic", "default"}
<1>1. <<i, "ok">> \in R /\ <<i, "panic">> \in R /\ <<i, "closed">> \in R /\ <<i, "default">> \in R
  OBVIOUS
<1>2. ret \in [G -> R] /\ pc \in [G -> PC]
  BY DEF IInv, TypeOK
<1>. HIDE DEF R
<1>3. ret' \in [G -> R] /\ pc' \in [G -> PC]
  BY <1>1, <1>2 DEF Settle, Goto
<1>. QED BY <1>3 DEF R

\* The call ends without meeting anybody, and ch is as its examination left it.
LEMMA NobodyMet ==
  ASSUME IInv, NEW g \in G, pc[g] \in {"chan", "poll"}, NEW hs, Purged(hs), ch' = hs,
         NEW i \in Nat, Settle(g, i, "panic") \/ Settle(g, i, "closed") \/ Settle(g, i, "default"),
         Goto(g, "return"), UNCHANGED <<op, calls, done, hand, elem>>
  PROVE  Parking' /\ Typed
<1>1. Shrinks({})
  BY PurgedShrinks
<1>2. Parking'
  BY <1>1, GoesAhead DEF Goto
<1>3. Typed
  BY SettleTyped DEF Typed, Purged, PC, IInv, TypeOK
<1>. QED BY <1>2, <1>3

LEMMA SendToReceiverParking ==
  ASSUME IInv, NEW g \in G, pc[g] \in {"chan", "poll"}, NEW hs, Purged(hs),
         NEW i \in DOMAIN op[g].cases, SendToReceiver(g, i, hs), UNCHANGED <<op, calls>>
  PROVE  Parking' /\ Typed
<1>. USE DEF IInv
<1>. DEFINE c == Case(g, i).c  w == hs[c].recvq  s == w[Claim(w)]
<1>1. i \in Nat /\ c \in Chan
  BY CallFacts
<1>. HIDE DEF c
<1>2. /\ Claim(w) > 0 /\ ch' = [hs EXCEPT ![c].recvq = Dequeued(w)]
      /\ Claimed(s) /\ hand' = [hand EXCEPT ![g] = s]
      /\ Settle(g, i, "ok") /\ Goto(g, "handoff") /\ UNCHANGED elem
  BY DEF SendToReceiver, c
<1>3. /\ s \in Sudog /\ s \in ToSet(ch[c].recvq) \cup ToSet(ch[c].sendq) /\ ~done[s[1]]
      /\ Shrinks({s}) /\ DOMAIN ch' = Chan /\ \A d \in Chan : ch'[d] \in Hchans(Cap(d))
  BY <1>1, <1>2, DequeueShrinks
<1>. HIDE DEF s, w
<1>4. Parking'
  BY <1>1, <1>2, <1>3, Claims DEF Goto
<1>5. Typed
  <2>1. done' \in [G -> BOOLEAN]
    <3>1. s[1] \in G /\ pc[s[1]] \in {"parked", "woken", "relock", "pass3"}
      BY <1>1, <1>3, QueueFacts
    <3>2. op[s[1]].sel \in BOOLEAN
      BY <3>1, CallFacts
    <3>. QED BY <1>2, <3>2 DEF Claimed, TypeOK
  <2>2. /\ ret' \in [G -> Nat \X {"pending", "ok", "closed", "panic", "default"}]
        /\ pc' \in [G -> PC]
    BY <1>1, <1>2, SettleTyped DEF PC
  <2>3. hand' \in [G -> Sudog \cup {<<>>}] /\ elem' \in [G -> Value]
    BY <1>2, <1>3 DEF TypeOK
  <2>. QED BY <1>3, <2>1, <2>2, <2>3 DEF Typed
<1>. QED BY <1>4, <1>5

\* An index moves round the ring.
LEMMA StepFacts ==
  ASSUME TypeOK, NEW c \in Chan, Cap(c) # 0, NEW x \in 0..Cap(c) - 1
  PROVE  Step(c, x) \in 0..Cap(c) - 1
<1>1. Cap(c) \in Nat /\ x \in Nat
  BY ChanFacts
<1>. DEFINE n == Cap(c)
<1>2. \A m \in Nat : (m % n) \in 0..n - 1
  <2>1. n \in Nat \ {0}
    BY SMTT(30), <1>1
  <2>. HIDE DEF n
  <2>. QED BY <2>1
<1>. QED BY <1>1, <1>2 DEF Step

LEMMA RecvFromSenderParking ==
  ASSUME IInv, NEW g \in G, pc[g] \in {"chan", "poll"}, NEW hs, Purged(hs),
         NEW i \in DOMAIN op[g].cases, RecvFromSender(g, i, hs), UNCHANGED <<op, calls>>
  PROVE  Parking' /\ Typed
<1>. USE DEF IInv
<1>. DEFINE c == Case(g, i).c  w == hs[c].sendq  s == w[Claim(w)]
<1>1. i \in Nat /\ c \in Chan
  BY CallFacts
<1>. HIDE DEF c
<1>2. /\ Claim(w) > 0
      /\ \/ Cap(c) = 0 /\ ch' = [hs EXCEPT ![c].sendq = Dequeued(w)] /\ UNCHANGED elem
         \/ /\ Cap(c) # 0
            /\ ch' = [hs EXCEPT ![c].sendq = Dequeued(w), ![c].buf[hs[c].recvx] = Val(s[1]),
                                ![c].recvx = Step(c, @), ![c].sendx = Step(c, hs[c].recvx)]
            /\ elem' = [elem EXCEPT ![g] = hs[c].buf[hs[c].recvx]]
      /\ Claimed(s) /\ hand' = [hand EXCEPT ![g] = s]
      /\ Settle(g, i, "ok") /\ Goto(g, "handoff")
  BY Zenon DEF RecvFromSender, c
<1>3. w \in Seq(Sudog) /\ IsInjective(w) /\ ToSet(w) \subseteq ToSet(ch[c].sendq)
  BY <1>1, PurgedFacts
<1>4. /\ s \in ToSet(w) /\ ~done[s[1]] /\ s \notin ToSet(Dequeued(w))
      /\ Dequeued(w) \in Seq(Sudog) /\ IsInjective(Dequeued(w))
      /\ ToSet(Dequeued(w)) \subseteq ToSet(w)
      /\ \A r \in ToSet(w) : done[r[1]] \/ r \in ToSet(Dequeued(w)) \/ r = s
  BY <1>2, <1>3, ClaimFacts
<1>5. s \in Sudog /\ s \in ToSet(ch[c].sendq) /\ s \notin ToSet(ch[c].recvq)
  <2>1. s \in Sudog /\ s \in ToSet(ch[c].sendq)
    BY <1>1, <1>3, <1>4, ChanFacts
  <2>2. Case(s[1], s[2]) = [c |-> c, dir |-> "send"]
    BY <1>1, <2>1 DEF Queued, InQueue
  <2>3. s \in ToSet(ch[c].recvq) => Case(s[1], s[2]) = [c |-> c, dir |-> "recv"]
    BY <1>1 DEF Queued, InQueue
  <2>. QED BY <2>1, <2>2, <2>3
<1>6. op[s[1]].sel \in BOOLEAN /\ Val(s[1]) \in Value
  <2>1. s[1] \in G /\ pc[s[1]] \in {"parked", "woken", "relock", "pass3"}
    BY <1>1, <1>5, QueueFacts
  <2>. QED BY <2>1, CallFacts
<1>7. /\ \A d \in Chan \ {c} : ch'[d] = hs[d]
      /\ \/ Cap(c) = 0 /\ ch'[c] = [hs[c] EXCEPT !.sendq = Dequeued(w)]
         \/ /\ Cap(c) # 0
            /\ ch'[c] = [hs[c] EXCEPT !.sendq = Dequeued(w), !.buf[hs[c].recvx] = Val(s[1]),
                                      !.recvx = Step(c, @), !.sendx = Step(c, hs[c].recvx)]
      /\ hs[c] \in Hchans(Cap(c)) /\ DOMAIN ch' = Chan
  BY ZenonT(60), <1>1, <1>2 DEF Purged
<1>. HIDE DEF s, w
<1>8. /\ ch'[c].sendq = Dequeued(w) /\ ch'[c].recvq = hs[c].recvq
      /\ ch'[c].qcount = hs[c].qcount /\ ch'[c].closed = hs[c].closed
      /\ ch'[c].dataqsiz = hs[c].dataqsiz /\ ch'[c] \in Hchans(Cap(c))
      /\ Cap(c) # 0 => hs[c].buf[hs[c].recvx] \in Value
  <2>1. CASE Cap(c) = 0
    BY <1>4, <1>7, <2>1 DEF Hchans
  <2>2. CASE Cap(c) # 0
    <3>. DEFINE x == Step(c, hs[c].recvx)
                b == [hs[c].buf EXCEPT ![hs[c].recvx] = Val(s[1])]
    <3>1. hs[c].recvx \in 0..Cap(c) - 1 /\ hs[c].buf \in [0..Cap(c) - 1 -> Value]
      BY <1>1, <1>7, <2>2, ChanFacts DEF Hchans
    <3>2. x \in 0..Cap(c) - 1 /\ b \in [0..Cap(c) - 1 -> Value] /\ hs[c].buf[hs[c].recvx] \in Value
      BY <1>1, <1>6, <2>2, <3>1, StepFacts
    <3>3. ch'[c] = [hs[c] EXCEPT !.sendq = Dequeued(w), !.buf = b, !.recvx = x, !.sendx = x]
      BY <1>7, <2>2 DEF Hchans
    <3>. HIDE DEF x, b
    <3>. QED BY <1>4, <1>7, <3>2, <3>3 DEF Hchans
  <2>. QED BY <2>1, <2>2
<1>9. Shrinks({s})
  <2>1. ToSet(hs[c].recvq) \subseteq ToSet(hs[c].recvq) \ {s}
    BY <1>1, <1>5, PurgedFacts
  <2>2. /\ IsInjective(hs[c].recvq) /\ hs[c].qcount = ch[c].qcount
        /\ hs[c].closed = ch[c].closed /\ hs[c].dataqsiz = ch[c].dataqsiz
    BY <1>1, PurgedFacts
  <2>3. /\ ToSet(Dequeued(w)) \subseteq ToSet(w) \ {s}
        /\ \A r \in ToSet(w) \ {s} : r \in ToSet(Dequeued(w)) \/ done[r[1]]
    BY <1>4
  <2>4. /\ \A d \in Chan \ {c} : ch'[d] = hs[d]
        /\ {s} \subseteq ToSet(ch[c].recvq) \cup ToSet(ch[c].sendq)
        /\ IsInjective(ch'[c].recvq) /\ ToSet(ch'[c].recvq) \subseteq ToSet(hs[c].recvq) \ {s}
        /\ IsInjective(ch'[c].sendq) /\ ToSet(ch'[c].sendq) \subseteq ToSet(hs[c].sendq) \ {s}
        /\ \A r \in ToSet(hs[c].recvq) \ {s} : r \in ToSet(ch'[c].recvq) \/ done[r[1]]
        /\ \A r \in ToSet(hs[c].sendq) \ {s} : r \in ToSet(ch'[c].sendq) \/ done[r[1]]
        /\ ch'[c].qcount = ch[c].qcount /\ ch'[c].closed = ch[c].closed
        /\ ch'[c].dataqsiz = ch[c].dataqsiz
    BY <1>4, <1>5, <1>7, <1>8, <2>1, <2>2, <2>3 DEF w
  <2>. QED BY <1>1, <2>4, Taken
<1>10. Parking'
  BY <1>1, <1>2, <1>4, <1>5, <1>9, Claims DEF Goto
<1>11. Typed
  <2>1. done' \in [G -> BOOLEAN]
    BY <1>2, <1>6 DEF Claimed, TypeOK
  <2>2. /\ ret' \in [G -> Nat \X {"pending", "ok", "closed", "panic", "default"}]
        /\ pc' \in [G -> PC]
    BY <1>1, <1>2, SettleTyped DEF PC
  <2>3. hand' \in [G -> Sudog \cup {<<>>}] /\ elem' \in [G -> Value]
    BY <1>2, <1>5, <1>8 DEF TypeOK
  <2>4. \A d \in Chan : ch'[d] \in Hchans(Cap(d))
    BY <1>7, <1>8 DEF Purged
  <2>. QED BY <1>7, <2>1, <2>2, <2>3, <2>4 DEF Typed
<1>. QED BY <1>10, <1>11

\* A buffer with room has no sender waiting beside it, one that holds a value no receiver.
LEMMA BufferStep ==
  ASSUME IInv, NEW g \in G, pc[g] \in {"chan", "poll"}, NEW hs, Purged(hs), NEW c \in Chan,
         DOMAIN ch' = Chan, \A d \in Chan \ {c} : ch'[d] = hs[d], ch'[c] \in Hchans(Cap(c)),
         \A s \in ToSet(hs[c].recvq) \cup ToSet(hs[c].sendq) : done[s[1]],
         ch'[c].recvq \in {hs[c].recvq, <<>>}, ch'[c].sendq \in {hs[c].sendq, <<>>},
         NEW i \in Nat, Settle(g, i, "ok"), Goto(g, "return"),
         elem' \in [G -> Value], UNCHANGED <<op, calls, done, hand>>
  PROVE  Parking' /\ Typed
<1>. USE DEF IInv
<1>1. IsInjective(<<>>) /\ ToSet(<<>>) = {}
  BY DEF IsInjective, ToSet
<1>2. ch'[c].dataqsiz = ch[c].dataqsiz
  BY DEF Hchans, Cap
<1>3. Shrinks({})
  <2>1. IsInjective(hs[c].recvq) /\ IsInjective(hs[c].sendq)
    BY PurgedFacts
  <2>2. /\ IsInjective(ch'[c].recvq) /\ ToSet(ch'[c].recvq) \subseteq ToSet(hs[c].recvq) \ {}
        /\ IsInjective(ch'[c].sendq) /\ ToSet(ch'[c].sendq) \subseteq ToSet(hs[c].sendq) \ {}
        /\ \A s \in ToSet(hs[c].recvq) \ {} : s \in ToSet(ch'[c].recvq) \/ done[s[1]]
        /\ \A s \in ToSet(hs[c].sendq) \ {} : s \in ToSet(ch'[c].sendq) \/ done[s[1]]
        /\ \A s \in ToSet(hs[c].recvq) \cup ToSet(hs[c].sendq) : s \in {} \/ done[s[1]]
    BY <1>1, <2>1
  <2>. QED BY <1>2, <2>2, Taken
<1>4. Parking'
  BY <1>3, GoesAhead DEF Goto
<1>5. Typed
  <2>1. /\ ret' \in [G -> Nat \X {"pending", "ok", "closed", "panic", "default"}]
        /\ pc' \in [G -> PC]
    BY SettleTyped DEF PC
  <2>2. \A d \in Chan : ch'[d] \in Hchans(Cap(d))
    BY DEF Purged
  <2>. QED BY <2>1, <2>2 DEF Typed, TypeOK
<1>. QED BY <1>4, <1>5

LEMMA SendToBufferParking ==
  ASSUME IInv, NEW g \in G, pc[g] \in {"chan", "poll"}, NEW hs, Purged(hs),
         NEW i \in DOMAIN op[g].cases, SendToBuffer(g, i, hs), UNCHANGED <<op, calls>>
  PROVE  Parking' /\ Typed
<1>. USE DEF IInv
<1>. DEFINE c == Case(g, i).c
<1>1. i \in Nat /\ c \in Chan /\ Val(g) \in Value
  BY CallFacts
<1>. HIDE DEF c
<1>2. /\ Claim(hs[c].recvq) = 0 /\ hs[c].qcount < Cap(c)
      /\ ch' = [hs EXCEPT ![c].recvq = <<>>, ![c].buf[hs[c].sendx] = Val(g),
                          ![c].sendx = Step(c, @), ![c].qcount = @ + 1]
      /\ Settle(g, i, "ok") /\ Goto(g, "return") /\ UNCHANGED <<done, hand, elem>>
  BY DEF SendToBuffer, c
<1>3. \A s \in ToSet(hs[c].recvq) \cup ToSet(hs[c].sendq) : done[s[1]]
  <2>1. \A s \in ToSet(hs[c].recvq) : done[s[1]]
    BY <1>1, <1>2, PurgedFacts, ClaimFacts
  <2>2. ToSet(hs[c].sendq) \subseteq ToSet(ch[c].sendq) /\ ch[c].qcount # Cap(c)
    <3>1. /\ hs[c].qcount = ch[c].qcount /\ ToSet(hs[c].sendq) \subseteq ToSet(ch[c].sendq)
          /\ Cap(c) \in Nat
      BY <1>1, PurgedFacts
    <3>. QED BY <1>2, <3>1
  <2>3. \A s \in ToSet(ch[c].sendq) : ~done[s[1]] => ch[c].qcount = Cap(c)
    BY <1>1, Unclaimed
  <2>. QED BY <2>1, <2>2, <2>3
<1>4. /\ DOMAIN ch' = Chan /\ \A d \in Chan \ {c} : ch'[d] = hs[d]
      /\ ch'[c] = [hs[c] EXCEPT !.recvq = <<>>, !.buf[hs[c].sendx] = Val(g),
                                !.sendx = Step(c, @), !.qcount = @ + 1]
      /\ hs[c] \in Hchans(Cap(c))
  BY <1>1, <1>2 DEF Purged
<1>5. ch'[c] \in Hchans(Cap(c)) /\ ch'[c].recvq = <<>> /\ ch'[c].sendq = hs[c].sendq
  <2>. DEFINE x == Step(c, hs[c].sendx)
              b == [hs[c].buf EXCEPT ![hs[c].sendx] = Val(g)]
  <2>1. /\ Cap(c) \in Nat /\ hs[c].qcount + 1 \in 0..Cap(c) /\ Cap(c) # 0
        /\ hs[c].sendx \in 0..Cap(c) - 1 /\ hs[c].buf \in [0..Cap(c) - 1 -> Value]
    BY <1>1, <1>2, <1>4, ChanFacts DEF Hchans
  <2>2. x \in 0..Cap(c) - 1 /\ b \in [0..Cap(c) - 1 -> Value] /\ <<>> \in Seq(Sudog)
    BY <1>1, <2>1, StepFacts
  <2>3. ch'[c] = [hs[c] EXCEPT !.recvq = <<>>, !.buf = b, !.sendx = x, !.qcount = hs[c].qcount + 1]
    BY <1>4 DEF Hchans
  <2>. HIDE DEF x, b
  <2>. QED BY <1>4, <2>1, <2>2, <2>3 DEF Hchans
<1>6. elem' \in [G -> Value]
  BY <1>2 DEF TypeOK
<1>. QED BY <1>1, <1>2, <1>3, <1>4, <1>5, <1>6, BufferStep

LEMMA RecvFromBufferParking ==
  ASSUME IInv, NEW g \in G, pc[g] \in {"chan", "poll"}, NEW hs, Purged(hs),
         NEW i \in DOMAIN op[g].cases, RecvFromBuffer(g, i, hs), UNCHANGED <<op, calls>>
  PROVE  Parking' /\ Typed
<1>. USE DEF IInv
<1>. DEFINE c == Case(g, i).c
<1>1. i \in Nat /\ c \in Chan
  BY CallFacts
<1>. HIDE DEF c
<1>2. /\ Claim(hs[c].sendq) = 0 /\ hs[c].qcount > 0
      /\ ch' = [hs EXCEPT ![c].sendq = <<>>, ![c].buf[hs[c].recvx] = NoVal,
                          ![c].recvx = Step(c, @), ![c].qcount = @ - 1]
      /\ elem' = [elem EXCEPT ![g] = hs[c].buf[hs[c].recvx]]
      /\ Settle(g, i, "ok") /\ Goto(g, "return") /\ UNCHANGED <<done, hand>>
  BY DEF RecvFromBuffer, c
<1>3. \A s \in ToSet(hs[c].recvq) \cup ToSet(hs[c].sendq) : done[s[1]]
  <2>1. \A s \in ToSet(hs[c].sendq) : done[s[1]]
    BY <1>1, <1>2, PurgedFacts, ClaimFacts
  <2>2. ToSet(hs[c].recvq) \subseteq ToSet(ch[c].recvq) /\ ch[c].qcount # 0
    <3>1. hs[c].qcount = ch[c].qcount /\ ToSet(hs[c].recvq) \subseteq ToSet(ch[c].recvq)
      BY <1>1, PurgedFacts
    <3>. QED BY <1>2, <3>1
  <2>3. \A s \in ToSet(ch[c].recvq) : ~done[s[1]] => ch[c].qcount = 0
    BY <1>1, Unclaimed
  <2>. QED BY <2>1, <2>2, <2>3
<1>4. /\ DOMAIN ch' = Chan /\ \A d \in Chan \ {c} : ch'[d] = hs[d]
      /\ ch'[c] = [hs[c] EXCEPT !.sendq = <<>>, !.buf[hs[c].recvx] = NoVal,
                                !.recvx = Step(c, @), !.qcount = @ - 1]
      /\ hs[c] \in Hchans(Cap(c))
  BY <1>1, <1>2 DEF Purged
<1>5. /\ ch'[c] \in Hchans(Cap(c)) /\ ch'[c].sendq = <<>> /\ ch'[c].recvq = hs[c].recvq
      /\ hs[c].buf[hs[c].recvx] \in Value
  <2>. DEFINE x == Step(c, hs[c].recvx)
              b == [hs[c].buf EXCEPT ![hs[c].recvx] = NoVal]
  <2>1. /\ Cap(c) \in Nat /\ hs[c].qcount - 1 \in 0..Cap(c) /\ Cap(c) # 0
        /\ hs[c].recvx \in 0..Cap(c) - 1 /\ hs[c].buf \in [0..Cap(c) - 1 -> Value]
    BY <1>1, <1>2, <1>4, ChanFacts DEF Hchans
  <2>2. x \in 0..Cap(c) - 1 /\ b \in [0..Cap(c) - 1 -> Value] /\ <<>> \in Seq(Sudog)
    BY <1>1, <2>1, StepFacts DEF Value
  <2>3. ch'[c] = [hs[c] EXCEPT !.sendq = <<>>, !.buf = b, !.recvx = x, !.qcount = hs[c].qcount - 1]
    BY <1>4 DEF Hchans
  <2>. HIDE DEF x, b
  <2>. QED BY <1>4, <2>1, <2>2, <2>3 DEF Hchans
<1>6. elem' \in [G -> Value]
  BY <1>2, <1>5 DEF TypeOK
<1>. QED BY <1>1, <1>2, <1>3, <1>4, <1>5, <1>6, BufferStep

LEMMA FireParking ==
  ASSUME IInv, NEW g \in G, pc[g] \in {"chan", "poll"}, NEW hs, Purged(hs),
         NEW i \in DOMAIN op[g].cases, Fire(g, i, hs), UNCHANGED <<op, calls>>
  PROVE  Parking' /\ Typed
<1>1. i \in Nat
  BY CallFacts DEF IInv
<1>2. CASE SendClosed(g, i, hs)
  BY <1>1, <1>2, NobodyMet DEF SendClosed
<1>3. CASE RecvClosed(g, i, hs)
  BY <1>1, <1>3, NobodyMet DEF RecvClosed
<1>. QED BY <1>2, <1>3, SendToReceiverParking, SendToBufferParking, RecvFromSenderParking,
            RecvFromBufferParking DEF Fire

-----------------------------------------------------------------------------
\* From hs, every queue g belongs in gets its sudogs as well, and keeps the others'.
Joins(g, hs) == DOMAIN ch' = Chan /\ \A c \in Chan :
  /\ ch'[c] \in Hchans(Cap(c))
  /\ ch'[c].qcount = hs[c].qcount /\ ch'[c].closed = hs[c].closed
  /\ IsInjective(ch'[c].recvq)
  /\ ToSet(ch'[c].recvq) = ToSet(hs[c].recvq) \cup Mine(g, c, "recv")
  /\ IsInjective(ch'[c].sendq)
  /\ ToSet(ch'[c].sendq) = ToSet(hs[c].sendq) \cup Mine(g, c, "send")

LEMMA EnqueuedParking ==
  ASSUME IInv, NEW g \in G, pc[g] \in {"chan", "poll"}, NEW hs, Purged(hs), Joins(g, hs),
         \A i \in DOMAIN op[g].cases : LET k == Case(g, i) IN
           k.dir # "close" /\ ~Ready(ch[k.c], k.c, k.dir),
         Goto(g, "parked"), done' = [done EXCEPT ![g] = FALSE],
         UNCHANGED <<op, calls, hand, elem, ret>>
  PROVE  Parking' /\ Typed
<1>1. ASSUME NEW c \in Chan
      PROVE  /\ ch'[c].closed = ch[c].closed /\ ch'[c].qcount = ch[c].qcount
             /\ ch'[c].dataqsiz = ch[c].dataqsiz
             /\ Grows(ch'[c].recvq, ch[c].recvq, g, c, "recv")
             /\ Grows(ch'[c].sendq, ch[c].sendq, g, c, "send")
  <2>1. /\ hs[c].qcount = ch[c].qcount /\ hs[c].closed = ch[c].closed
        /\ ToSet(hs[c].recvq) \subseteq ToSet(ch[c].recvq)
        /\ ToSet(hs[c].sendq) \subseteq ToSet(ch[c].sendq)
        /\ \A s \in ToSet(ch[c].recvq) : s \in ToSet(hs[c].recvq) \/ done[s[1]]
        /\ \A s \in ToSet(ch[c].sendq) : s \in ToSet(hs[c].sendq) \/ done[s[1]]
    BY PurgedFacts
  <2>2. ch'[c].dataqsiz = ch[c].dataqsiz
    BY DEF Joins, Hchans, Cap
  <2>. QED BY <2>1, <2>2 DEF Joins, Grows
<1>2. Parking'
  BY <1>1, Parks DEF Goto
<1>3. Typed
  BY DEF IInv, Joins, Typed, TypeOK, Goto, PC
<1>. QED BY <1>2, <1>3

LEMMA MineIsNew ==
  ASSUME IInv, NEW g \in G, pc[g] \in {"chan", "poll"}, NEW hs, Purged(hs), NEW c \in Chan,
         NEW dir
  PROVE  /\ Mine(g, c, dir) \cap ToSet(hs[c].recvq) = {}
         /\ Mine(g, c, dir) \cap ToSet(hs[c].sendq) = {}
<1>1. \A s \in ToSet(hs[c].recvq) \cup ToSet(hs[c].sendq) : s[1] # g
  BY SMTT(30), PurgedFacts, QueueFacts
<1>2. \A s \in Mine(g, c, dir) : s[1] = g
  BY DEF Mine
<1>. QED BY <1>1, <1>2

LEMMA ChanOpParking ==
  ASSUME IInv, NEW g \in G, ChanOp(g)
  PROVE  Parking' /\ Typed
<1>. USE DEF IInv
<1>. DEFINE k == Case(g, 1)  hs == Drained(ch, {k})
<1>1. /\ pc[g] = "chan" /\ ~op[g].sel /\ DOMAIN op[g].cases = {1} /\ k \in Cases
      /\ k.c \in Chan /\ k.dir \in {"send", "recv"} /\ UNCHANGED <<op, calls>>
  <2>1. pc[g] = "chan" /\ ~op[g].sel /\ k.dir # "close" /\ UNCHANGED <<op, calls>>
    BY DEF ChanOp, Calling
  <2>. QED BY <2>1, CallFacts
<1>2. k = [c |-> k.c, dir |-> k.dir]
  BY <1>1 DEF Cases
<1>3. CASE Fire(g, 1, ch)
  BY <1>1, <1>3, UntouchedPurged, FireParking
<1>4. ASSUME ~Ready(ch[k.c], k.c, k.dir) PROVE Purged(hs)
  <2>1. \A c \in Chan, dir \in {"send", "recv"} :
          [c |-> c, dir |-> dir] \in {k} => ~Ready(ch[c], c, dir)
    BY <1>4
  <2>. HIDE DEF k
  <2>. QED BY <2>1, DrainedPurged
<1>5. CASE /\ ~Ready(ch[k.c], k.c, k.dir) /\ ch' = hs
           /\ Settle(g, 0, "default") /\ Goto(g, "return")
           /\ UNCHANGED <<done, param, hand, elem>>
  <2>. HIDE DEF hs
  <2>. QED BY <1>1, <1>4, <1>5, NobodyMet
<1>6. CASE /\ ~Ready(ch[k.c], k.c, k.dir)
           /\ ch' = Enqueue(hs, <<g, 1>>, k)
           /\ Goto(g, "parked")
           /\ UNCHANGED <<done, hand, elem, ret>>
  <2>1. <<g, 1>> \in Sudog
    BY DEF Sudog
  <2>2. Mine(g, k.c, k.dir) = {<<g, 1>>}
    BY <1>1, <1>2 DEF Mine
  <2>3. ASSUME NEW c \in Chan, NEW dir \in {"send", "recv"}, c # k.c \/ dir # k.dir
        PROVE  Mine(g, c, dir) = {}
    BY <1>1, <2>3 DEF Mine
  <2>4. ASSUME NEW c \in Chan
        PROVE  /\ hs[c] \in Hchans(Cap(c)) /\ DOMAIN hs = Chan
               /\ hs[c].recvq \in Seq(Sudog) /\ IsInjective(hs[c].recvq)
               /\ hs[c].sendq \in Seq(Sudog) /\ IsInjective(hs[c].sendq)
    <3>. HIDE DEF hs
    <3>. QED BY <1>4, <1>6, PurgedFacts DEF Purged
  <2>5. /\ Mine(g, k.c, "send") \cap ToSet(hs[k.c].sendq) = {}
        /\ Mine(g, k.c, "recv") \cap ToSet(hs[k.c].recvq) = {}
    <3>. HIDE DEF hs
    <3>. QED BY <1>1, <1>4, <1>6, MineIsNew
  <2>6. /\ k.dir = "send" => ch' = [hs EXCEPT ![k.c].sendq = Append(hs[k.c].sendq, <<g, 1>>)]
        /\ k.dir = "recv" => ch' = [hs EXCEPT ![k.c].recvq = Append(hs[k.c].recvq, <<g, 1>>)]
    BY <1>6 DEF Enqueue
  <2>. HIDE DEF hs, k
  <2>7. ASSUME NEW c \in Chan
        PROVE  /\ DOMAIN ch' = Chan /\ ch'[c] \in Hchans(Cap(c))
               /\ ch'[c].qcount = hs[c].qcount /\ ch'[c].closed = hs[c].closed
               /\ IsInjective(ch'[c].recvq)
               /\ ToSet(ch'[c].recvq) = ToSet(hs[c].recvq) \cup Mine(g, c, "recv")
               /\ IsInjective(ch'[c].sendq)
               /\ ToSet(ch'[c].sendq) = ToSet(hs[c].sendq) \cup Mine(g, c, "send")
    <3>1. CASE c # k.c
      <4>1. ch'[c] = hs[c] /\ DOMAIN ch' = Chan
        BY <1>1, <2>4, <2>6, <3>1
      <4>2. Mine(g, c, "send") = {} /\ Mine(g, c, "recv") = {}
        BY <2>3, <3>1
      <4>. QED BY <2>4, <4>1, <4>2
    <3>2. CASE c = k.c /\ k.dir = "send"
      <4>. DEFINE v == Append(hs[c].sendq, <<g, 1>>)
      <4>1. /\ v \in Seq(Sudog) /\ IsInjective(v)
            /\ ToSet(v) = ToSet(hs[c].sendq) \cup Mine(g, c, "send")
        BY <2>1, <2>2, <2>4, <2>5, <3>2, Pushed
      <4>2. ch'[c] = [hs[c] EXCEPT !.sendq = v] /\ DOMAIN ch' = Chan
        BY <2>4, <2>6, <3>2
      <4>. HIDE DEF v
      <4>3. /\ ch'[c] \in Hchans(Cap(c)) /\ ch'[c].sendq = v /\ ch'[c].recvq = hs[c].recvq
            /\ ch'[c].qcount = hs[c].qcount /\ ch'[c].closed = hs[c].closed
        BY <2>4, <4>1, <4>2 DEF Hchans
      <4>. QED BY <2>3, <2>4, <3>2, <4>1, <4>2, <4>3
    <3>3. CASE c = k.c /\ k.dir = "recv"
      <4>. DEFINE v == Append(hs[c].recvq, <<g, 1>>)
      <4>1. /\ v \in Seq(Sudog) /\ IsInjective(v)
            /\ ToSet(v) = ToSet(hs[c].recvq) \cup Mine(g, c, "recv")
        BY <2>1, <2>2, <2>4, <2>5, <3>3, Pushed
      <4>2. ch'[c] = [hs[c] EXCEPT !.recvq = v] /\ DOMAIN ch' = Chan
        BY <2>4, <2>6, <3>3
      <4>. HIDE DEF v
      <4>3. /\ ch'[c] \in Hchans(Cap(c)) /\ ch'[c].recvq = v /\ ch'[c].sendq = hs[c].sendq
            /\ ch'[c].qcount = hs[c].qcount /\ ch'[c].closed = hs[c].closed
        BY <2>4, <4>1, <4>2 DEF Hchans
      <4>. QED BY <2>3, <2>4, <3>3, <4>1, <4>2, <4>3
    <3>. QED BY <1>1, <3>1, <3>2, <3>3
  <2>8. done' = [done EXCEPT ![g] = FALSE]
    BY <1>1, <1>6 DEF Calling, TypeOK
  <2>9. \A i \in DOMAIN op[g].cases : LET j == Case(g, i) IN
          j.dir # "close" /\ ~Ready(ch[j.c], j.c, j.dir)
    BY <1>1, <1>6 DEF k
  <2>10. Joins(g, hs)
    BY <1>1, <2>7 DEF Joins
  <2>. QED BY <1>1, <1>4, <1>6, <2>8, <2>9, <2>10, EnqueuedParking
<1>. QED BY <1>3, <1>5, <1>6 DEF ChanOp

LEMMA UpTo ==
  ASSUME NEW n \in Nat
  PROVE  IsFiniteSet(1..n) /\ Cardinality(1..n) = n
<1>1. 1 \in Int /\ n \in Int
  OBVIOUS
<1>2. IsFiniteSet(1..n) /\ Cardinality(1..n) = IF 1 > n THEN 0 ELSE n - 1 + 1
  BY <1>1, FS_Interval
<1>. QED BY <1>2

\* A pollorder is a permutation of the cases.
LEMMA OrderFacts ==
  ASSUME IInv, NEW g \in G, pc[g] # "idle", NEW p \in SetToSeqs(DOMAIN op[g].cases)
  PROVE  /\ Len(p) \in Nat /\ DOMAIN p = 1..Len(p) /\ IsInjective(p)
         /\ \A j \in DOMAIN p : p[j] \in DOMAIN op[g].cases
         /\ \A i \in DOMAIN op[g].cases : \E j \in DOMAIN p : p[j] = i
<1>. DEFINE S == DOMAIN op[g].cases  n == Cardinality(S)
<1>1. S = 1..Len(op[g].cases) /\ Len(op[g].cases) \in Nat
  BY CallFacts DEF IInv
<1>2. IsFiniteSet(S) /\ n \in Nat /\ n = Len(op[g].cases)
  <2>. DEFINE m == Len(op[g].cases)
  <2>1. IsFiniteSet(1..m) /\ Cardinality(1..m) = m
    BY <1>1, UpTo
  <2>. QED BY <1>1, <2>1
<1>3. p \in [1..n -> S] /\ \A i, j \in 1..n : i # j => p[i] # p[j]
  BY DEF SetToSeqs
<1>. HIDE DEF S, n
<1>4. IsFiniteSet(1..n) /\ Cardinality(1..n) = n
  BY <1>2, UpTo
<1>5. IsInjective(p) /\ p \in Injection(1..n, S)
  BY <1>3 DEF Injection, IsInjective
<1>6. p \in Surjection(1..n, S)
  BY <1>2, <1>4, <1>5, FS_Injection DEF n
<1>7. p \in Seq(S)
  <2>1. p = [i \in 1..n |-> p[i]] /\ \A i \in 1..n : p[i] \in S
    BY <1>3
  <2>2. [i \in 1..n |-> p[i]] \in Seq(S)
    BY <1>2, <2>1, IsASeq
  <2>. QED BY <2>1, <2>2
<1>8. Len(p) \in Nat /\ DOMAIN p = 1..Len(p)
  BY <1>7, LenProperties
<1>9. \A i \in S : \E j \in DOMAIN p : p[j] = i
  BY <1>3, <1>6 DEF Surjection
<1>10. \A j \in DOMAIN p : p[j] \in S
  BY <1>3
<1>. QED BY <1>5, <1>8, <1>9, <1>10 DEF S

LEMMA SudogsFacts ==
  ASSUME IInv, NEW g \in G, pc[g] # "idle", NEW p \in SetToSeqs(DOMAIN op[g].cases),
         NEW c \in Chan, NEW dir
  PROVE  /\ Sudogs(g, p, c, dir) \in Seq(Sudog) /\ IsInjective(Sudogs(g, p, c, dir))
         /\ ToSet(Sudogs(g, p, c, dir)) = Mine(g, c, dir)
<1>. DEFINE w == [j \in DOMAIN p |-> <<g, p[j]>>]
            I == {j \in DOMAIN p : Case(g, p[j]) = [c |-> c, dir |-> dir]}
<1>1. /\ Len(p) \in Nat /\ DOMAIN p = 1..Len(p) /\ IsInjective(p)
      /\ \A j \in DOMAIN p : p[j] \in DOMAIN op[g].cases
      /\ \A i \in DOMAIN op[g].cases : \E j \in DOMAIN p : p[j] = i
  BY OrderFacts
<1>2. \A j \in DOMAIN p : <<g, p[j]>> \in Sudog
  BY <1>1, CallFacts DEF IInv, Sudog
<1>3. w \in Seq(Sudog) /\ I \in SUBSET DOMAIN w /\ IsInjective(w)
  <2>1. w \in Seq(Sudog)
    <3>. DEFINE n == Len(p)
    <3>1. w = [j \in 1..n |-> <<g, p[j]>>] /\ n \in Nat /\ \A j \in 1..n : <<g, p[j]>> \in Sudog
      BY <1>1, <1>2
    <3>. HIDE DEF n, w
    <3>. QED BY <3>1, IsASeq
  <2>2. IsInjective(w)
    BY <1>1 DEF IsInjective
  <2>. QED BY <2>1, <2>2
<1>4. Sudogs(g, p, c, dir) = Kept(w, I)
  BY DEF Sudogs
<1>5. {w[j] : j \in I} = Mine(g, c, dir)
  BY <1>1 DEF Mine
<1>. HIDE DEF w, I
<1>. QED BY <1>3, <1>4, <1>5, KeptFacts

LEMMA PollParking ==
  ASSUME IInv, NEW g \in G, Poll(g)
  PROVE  Parking' /\ Typed
<1>. DEFINE ready(p, j) == LET k == Case(g, p[j]) IN Ready(ch[k.c], k.c, k.dir)
            seen(p, n) == {Case(g, p[j]) : j \in 1..n}
<1>1. pc[g] = "poll" /\ op[g].sel /\ UNCHANGED <<op, calls>>
  BY DEF Poll, IInv, Calling
<1>2. \A i \in DOMAIN op[g].cases :
        /\ i \in Nat /\ Case(g, i) \in Cases /\ Case(g, i).c \in Chan
        /\ Case(g, i).dir \in {"send", "recv"}
  BY <1>1, CallFacts DEF IInv
<1>3. PICK p \in SetToSeqs(DOMAIN op[g].cases) :
        \/ \E j \in DOMAIN p :
             /\ \A i \in 1..j - 1 : ~ready(p, i)
             /\ Fire(g, p[j], Drained(ch, seen(p, j - 1)))
        \/ /\ \A j \in DOMAIN p : ~ready(p, j)
           /\ ch' = Drained(ch, seen(p, Len(p)))
           /\ Settle(g, 0, "default") /\ Goto(g, "return")
           /\ UNCHANGED <<done, hand, elem>>
        \/ /\ \A j \in DOMAIN p : ~ready(p, j)
           /\ ch' = EnqueueAll(Drained(ch, seen(p, Len(p))), g, p)
           /\ done' = [done EXCEPT ![g] = FALSE]
           /\ Goto(g, "parked")
           /\ UNCHANGED <<hand, elem, ret>>
  BY DEF Poll
<1>4. /\ Len(p) \in Nat /\ DOMAIN p = 1..Len(p)
      /\ \A j \in DOMAIN p : p[j] \in DOMAIN op[g].cases
      /\ \A i \in DOMAIN op[g].cases : \E j \in DOMAIN p : p[j] = i
  BY <1>1, OrderFacts
<1>5. ASSUME NEW n \in 0..Len(p), \A j \in 1..n : ~ready(p, j)
      PROVE  Purged(Drained(ch, seen(p, n)))
  <2>1. ASSUME NEW c \in Chan, NEW dir \in {"send", "recv"},
               [c |-> c, dir |-> dir] \in seen(p, n)
        PROVE  ~Ready(ch[c], c, dir)
    <3>1. PICK j \in 1..n : Case(g, p[j]) = [c |-> c, dir |-> dir]
      BY <2>1
    <3>2. Case(g, p[j]).c = c /\ Case(g, p[j]).dir = dir
      BY <3>1
    <3>. QED BY <1>5, <3>2
  <2>. HIDE DEF seen
  <2>. QED BY <2>1, DrainedPurged
<1>6. CASE \E j \in DOMAIN p : /\ \A i \in 1..j - 1 : ~ready(p, i)
                               /\ Fire(g, p[j], Drained(ch, seen(p, j - 1)))
  <2>1. PICK j \in DOMAIN p : /\ \A i \in 1..j - 1 : ~ready(p, i)
                              /\ Fire(g, p[j], Drained(ch, seen(p, j - 1)))
    BY <1>6
  <2>2. j - 1 \in 0..Len(p) /\ p[j] \in DOMAIN op[g].cases
    BY <1>4
  <2>3. Purged(Drained(ch, seen(p, j - 1)))
    BY <1>5, <2>1, <2>2
  <2>. HIDE DEF ready, seen
  <2>. QED BY <1>1, <2>1, <2>2, <2>3, FireParking
<1>7. ASSUME \A j \in DOMAIN p : ~ready(p, j)
      PROVE  Purged(Drained(ch, seen(p, Len(p))))
  BY <1>4, <1>5, <1>7
<1>8. CASE /\ \A j \in DOMAIN p : ~ready(p, j)
           /\ ch' = Drained(ch, seen(p, Len(p)))
           /\ Settle(g, 0, "default") /\ Goto(g, "return")
           /\ UNCHANGED <<done, hand, elem>>
  <2>. HIDE DEF ready, seen
  <2>. QED BY <1>1, <1>7, <1>8, NobodyMet
<1>9. CASE /\ \A j \in DOMAIN p : ~ready(p, j)
           /\ ch' = EnqueueAll(Drained(ch, seen(p, Len(p))), g, p)
           /\ done' = [done EXCEPT ![g] = FALSE]
           /\ Goto(g, "parked")
           /\ UNCHANGED <<hand, elem, ret>>
  <2>. DEFINE hs == Drained(ch, seen(p, Len(p)))
  <2>1. \A i \in DOMAIN op[g].cases : LET k == Case(g, i) IN
          k.dir # "close" /\ ~Ready(ch[k.c], k.c, k.dir)
    <3>1. ASSUME NEW i \in DOMAIN op[g].cases
          PROVE  LET k == Case(g, i) IN k.dir # "close" /\ ~Ready(ch[k.c], k.c, k.dir)
      <4>1. PICK j \in DOMAIN p : p[j] = i
        BY <1>4
      <4>2. ~ready(p, j)
        BY <1>9
      <4>. QED BY <1>2, <4>1, <4>2
    <3>. QED BY <3>1
  <2>2. Purged(hs)
    BY <1>7, <1>9
  <2>3. ch' = EnqueueAll(hs, g, p)
    BY <1>9
  <2>. HIDE DEF ready, seen, hs
  <2>4. ASSUME NEW c \in Chan
        PROVE  /\ ch'[c] \in Hchans(Cap(c))
               /\ ch'[c].qcount = hs[c].qcount /\ ch'[c].closed = hs[c].closed
               /\ IsInjective(ch'[c].recvq)
               /\ ToSet(ch'[c].recvq) = ToSet(hs[c].recvq) \cup Mine(g, c, "recv")
               /\ IsInjective(ch'[c].sendq)
               /\ ToSet(ch'[c].sendq) = ToSet(hs[c].sendq) \cup Mine(g, c, "send")
    <3>. DEFINE v == hs[c].sendq \o Sudogs(g, p, c, "send")
                w == hs[c].recvq \o Sudogs(g, p, c, "recv")
    <3>1. /\ hs[c] \in Hchans(Cap(c))
          /\ hs[c].recvq \in Seq(Sudog) /\ IsInjective(hs[c].recvq)
          /\ hs[c].sendq \in Seq(Sudog) /\ IsInjective(hs[c].sendq)
      BY <2>2, PurgedFacts
    <3>2. /\ Mine(g, c, "send") \cap ToSet(hs[c].sendq) = {}
          /\ Mine(g, c, "recv") \cap ToSet(hs[c].recvq) = {}
      BY <1>1, <2>2, MineIsNew
    <3>3. /\ Sudogs(g, p, c, "send") \in Seq(Sudog) /\ IsInjective(Sudogs(g, p, c, "send"))
          /\ ToSet(Sudogs(g, p, c, "send")) = Mine(g, c, "send")
          /\ Sudogs(g, p, c, "recv") \in Seq(Sudog) /\ IsInjective(Sudogs(g, p, c, "recv"))
          /\ ToSet(Sudogs(g, p, c, "recv")) = Mine(g, c, "recv")
      BY <1>1, SudogsFacts
    <3>4. /\ v \in Seq(Sudog) /\ IsInjective(v)
          /\ ToSet(v) = ToSet(hs[c].sendq) \cup Mine(g, c, "send")
      BY <3>1, <3>2, <3>3, Joined
    <3>5. /\ w \in Seq(Sudog) /\ IsInjective(w)
          /\ ToSet(w) = ToSet(hs[c].recvq) \cup Mine(g, c, "recv")
      BY <3>1, <3>2, <3>3, Joined
    <3>6. ch'[c] = [hs[c] EXCEPT !.sendq = v, !.recvq = w]
      BY <2>3 DEF EnqueueAll
    <3>. HIDE DEF v, w
    <3>7. /\ ch'[c] \in Hchans(Cap(c)) /\ ch'[c].sendq = v /\ ch'[c].recvq = w
          /\ ch'[c].qcount = hs[c].qcount /\ ch'[c].closed = hs[c].closed
      BY <3>1, <3>4, <3>5, <3>6 DEF Hchans
    <3>. QED BY <3>4, <3>5, <3>7
  <2>5. Joins(g, hs)
    BY <2>3, <2>4 DEF Joins, EnqueueAll
  <2>. QED BY <1>1, <1>9, <2>1, <2>2, <2>5, EnqueuedParking
<1>. QED BY <1>3, <1>6, <1>8, <1>9

-----------------------------------------------------------------------------
\* Each action keeps the queues and the types.
LEMMA TypeKept ==
  ASSUME IInv, Typed, op' \in [G -> Ops \cup {NoOp}], calls' \in [G -> 0..MaxCalls],
         param' \in [G -> Sudog \cup {<<>>}], lock' \in [Chan -> G \cup {NoG}]
  PROVE  TypeOK'
<1>1. PICK size \in Sizes : \A c \in Chan : ch[c] \in Hchans(size[c])
  BY DEF IInv, TypeOK
<1>2. \A c \in Chan : Cap(c) = size[c]
  BY <1>1 DEF Hchans, Cap
<1>3. \A c \in Chan : ch'[c] \in Hchans(size[c])
  BY <1>2 DEF Typed
<1>. QED BY <1>3 DEF Typed, TypeOK

LEMMA SameTyped ==
  ASSUME IInv, UNCHANGED <<ch, done, hand>>, pc' \in [G -> PC], elem' \in [G -> Value],
         ret' \in [G -> Nat \X {"pending", "ok", "closed", "panic", "default"}]
  PROVE  Typed
BY ChanFacts DEF IInv, TypeOK, Typed

LEMMA FastReadKept ==
  ASSUME IInv, NEW g \in G, FastRead(g) \/ FastRead2(g)
  PROVE  Parking' /\ TypeOK'
<1>. USE DEF IInv
<1>1. /\ pc[g] \in {"fast", "fast2"} /\ ~op[g].sel /\ ~done[g] /\ op[g] \in Ops /\ calls[g] # 0
      /\ UNCHANGED <<ch, lock, op, calls, done, param, hand, elem>>
  BY DEF FastRead, FastRead2, Calling
<1>2. PICK l \in {"fast2", "chan", "return"} :
        Goto(g, l) /\ (UNCHANGED ret \/ Settle(g, 0, "default"))
  BY DEF FastRead, FastRead2
<1>3. Parking'
  BY <1>1, <1>2, Quiet DEF Goto, PC
<1>4. Typed
  <2>1. pc' \in [G -> PC]
    BY <1>2 DEF Goto, PC, TypeOK
  <2>2. ret' \in [G -> Nat \X {"pending", "ok", "closed", "panic", "default"}]
    BY <1>2, SettleTyped DEF TypeOK, PC
  <2>3. elem' \in [G -> Value]
    BY <1>1 DEF TypeOK
  <2>. QED BY <1>1, <2>1, <2>2, <2>3, SameTyped
<1>. QED BY <1>1, <1>3, <1>4, TypeKept DEF TypeOK

LEMMA WokenKept ==
  ASSUME IInv, NEW g \in G, Woken(g) \/ WokenSelect(g)
  PROVE  Parking' /\ TypeOK'
<1>. USE DEF IInv
<1>1. /\ pc[g] = "woken" /\ op[g] \in Ops /\ calls[g] # 0 /\ (done[g] => op[g].sel)
      /\ UNCHANGED <<ch, lock, op, calls, done, hand, elem>>
      /\ param' \in [G -> Sudog \cup {<<>>}]
  BY DEF Woken, WokenSelect, Calling, TypeOK
<1>2. PICK l \in {"return", "relock"} :
        /\ Goto(g, l) /\ (l = "relock" <=> op[g].sel)
        /\ UNCHANGED ret \/ Settle(g, 1, "ok") \/ Settle(g, 1, "panic") \/ Settle(g, 1, "closed")
  BY DEF Woken, WokenSelect
<1>3. Parking'
  BY <1>1, <1>2, Quiet DEF Goto, PC
<1>4. Typed
  <2>1. pc' \in [G -> PC]
    BY <1>2 DEF Goto, PC, TypeOK
  <2>2. ret' \in [G -> Nat \X {"pending", "ok", "closed", "panic", "default"}]
    BY <1>2, SettleTyped DEF TypeOK, PC
  <2>3. elem' \in [G -> Value]
    BY <1>1 DEF TypeOK
  <2>. QED BY <1>1, <2>1, <2>2, <2>3, SameTyped
<1>. QED BY <1>1, <1>3, <1>4, TypeKept DEF TypeOK

LEMMA ReturnKept ==
  ASSUME IInv, NEW g \in G, Return(g)
  PROVE  Parking' /\ TypeOK'
<1>. USE DEF IInv
<1>1. /\ pc[g] = "return" /\ ~done[g]
      /\ UNCHANGED <<ch, lock, calls, done, param, hand>>
      /\ op' = [op EXCEPT ![g] = NoOp] /\ elem' = [elem EXCEPT ![g] = NoVal]
      /\ ret' = [ret EXCEPT ![g] = Pending] /\ Goto(g, "idle")
  BY DEF Return, Calling
<1>2. Parking'
  <2>1. \A h \in G \ {g} : op'[h] = op[h] /\ calls'[h] = calls[h]
    BY <1>1
  <2>. QED BY <1>1, <2>1, Quiet DEF Goto, PC
<1>3. Typed
  <2>1. pc' \in [G -> PC] /\ elem' \in [G -> Value]
    BY <1>1 DEF Goto, PC, Value, TypeOK
  <2>2. ret' \in [G -> Nat \X {"pending", "ok", "closed", "panic", "default"}]
    <3>1. Pending \in Nat \X {"pending", "ok", "closed", "panic", "default"}
      BY DEF Pending
    <3>2. ret \in [G -> Nat \X {"pending", "ok", "closed", "panic", "default"}]
      BY DEF TypeOK
    <3>. QED BY <1>1, <3>1, <3>2
  <2>. QED BY <1>1, <2>1, <2>2, SameTyped
<1>. QED BY <1>1, <1>2, <1>3, TypeKept DEF TypeOK

LEMMA InvokeKept ==
  ASSUME IInv, NEW g \in G, NEW o \in Ops, Invoke(g, o)
  PROVE  Parking' /\ TypeOK'
<1>. USE DEF IInv
<1>1. /\ pc[g] = "idle" /\ calls[g] < MaxCalls /\ ~done[g]
      /\ UNCHANGED <<ch, lock, done, param, hand, elem, ret>>
      /\ op' = [op EXCEPT ![g] = o] /\ calls' = [calls EXCEPT ![g] = @ + 1]
  BY DEF Invoke, Calling
<1>2. PICK l \in {"sellock", "chan", "fast"} : Goto(g, l) /\ (l = "sellock" <=> o.sel)
  BY DEF Invoke
<1>3. /\ op' \in [G -> Ops \cup {NoOp}] /\ calls' \in [G -> 0..MaxCalls]
      /\ op'[g] = o /\ calls'[g] # 0
      /\ \A h \in G \ {g} : op'[h] = op[h] /\ calls'[h] = calls[h]
  BY <1>1, ChanAssumption DEF TypeOK
<1>4. Parking'
  BY <1>1, <1>2, <1>3, Quiet DEF Goto, PC
<1>5. Typed
  <2>1. pc' \in [G -> PC]
    BY <1>2 DEF Goto, PC, TypeOK
  <2>. QED BY <1>1, <2>1, SameTyped DEF TypeOK
<1>. QED BY <1>1, <1>3, <1>4, <1>5, TypeKept DEF TypeOK

LEMMA HandoffKept ==
  ASSUME IInv, NEW g \in G, Handoff(g)
  PROVE  Parking' /\ TypeOK'
<1>. USE DEF IInv
<1>1. /\ pc[g] = "handoff" /\ hand[g] \in Sudog /\ hand[g][1] \in G
      /\ pc[hand[g][1]] = "parked" /\ UNCHANGED <<ch, lock, op, calls, done, ret>>
  BY HandFacts DEF Handoff, Handoffs
<1>. PICK t \in G : t = hand[g][1]
  BY <1>1
<1>2. Val(g) \in Value /\ Val(t) \in Value
  BY <1>1, CallFacts
<1>3. /\ pc' = [pc EXCEPT ![g] = "return", ![t] = "woken"]
      /\ hand' = [hand EXCEPT ![g] = <<>>] /\ param' = [param EXCEPT ![t] = hand[g]]
      /\ \/ elem' = elem \/ elem' = [elem EXCEPT ![t] = Val(g)]
         \/ elem' = [elem EXCEPT ![g] = Val(t)]
  BY DEF Handoff
<1>4. /\ pc' \in [G -> PC] /\ elem' \in [G -> Value] /\ hand' \in [G -> Sudog \cup {<<>>}]
      /\ param' \in [G -> Sudog \cup {<<>>}]
  <2>1. pc' \in [G -> PC]
    BY <1>3 DEF TypeOK, PC
  <2>2. elem' \in [G -> Value]
    <3>1. elem \in [G -> Value]
      BY DEF TypeOK
    <3>. QED BY <1>2, <1>3, <3>1
  <2>3. hand' \in [G -> Sudog \cup {<<>>}] /\ param' \in [G -> Sudog \cup {<<>>}]
    BY <1>1, <1>3 DEF TypeOK
  <2>. QED BY <2>1, <2>2, <2>3
<1>5. Typed
  BY <1>1, <1>4, ChanFacts DEF TypeOK, Typed
<1>6. Parking'
  BY HandoffParking
<1>. QED BY <1>1, <1>4, <1>5, <1>6, TypeKept DEF TypeOK

LEMMA UnlockTyped ==
  ASSUME IInv, NEW g \in G, Unlock(g)
  PROVE  lock' \in [Chan -> G \cup {NoG}]
BY DEF IInv, TypeOK, Unlock

LEMMA ClosechanKept ==
  ASSUME IInv, NEW g \in G, Closechan(g)
  PROVE  Parking' /\ TypeOK'
<1>. USE DEF IInv
<1>1. /\ pc[g] = "chan" /\ Case(g, 1).c \in Chan /\ ~done[g] /\ ~op[g].sel /\ op[g] \in Ops /\ calls[g] # 0
      /\ UNCHANGED <<op, calls, done, param, hand, elem>>
  BY CallFacts DEF Closechan, Calling
<1>. PICK c \in Chan : c = Case(g, 1).c
  BY <1>1
<1>2. CASE ch[c].closed
  <2>1. Settle(g, 1, "panic") /\ Goto(g, "return") /\ UNCHANGED <<ch, lock>>
    BY <1>2 DEF Closechan
  <2>2. Parking'
    BY <1>1, <2>1, Quiet DEF Goto, PC
  <2>3. Typed
    <3>1. /\ ret' \in [G -> Nat \X {"pending", "ok", "closed", "panic", "default"}]
          /\ pc' \in [G -> PC]
      BY <2>1, SettleTyped DEF PC
    <3>. QED BY <1>1, <2>1, <3>1, SameTyped DEF TypeOK
  <2>. QED BY <1>1, <2>1, <2>2, <2>3, TypeKept DEF TypeOK
<1>3. CASE ~ch[c].closed
  <2>1. /\ ch' = [ch EXCEPT ![c].closed = TRUE] /\ lock' = [lock EXCEPT ![c] = g]
        /\ Settle(g, 1, "ok") /\ Goto(g, "closing")
    BY <1>3 DEF Closechan
  <2>2. Closing(c)'
    BY <1>1, <2>1 DEF Closing, Goto, Case, TypeOK
  <2>3. /\ DOMAIN ch' = Chan /\ \A d \in Chan : ch'[d] \in Hchans(Cap(d))
        /\ \A d \in Chan : /\ ch'[d].recvq = ch[d].recvq /\ ch'[d].sendq = ch[d].sendq
                           /\ ch'[d].qcount = ch[d].qcount /\ ch'[d].dataqsiz = ch[d].dataqsiz
                           /\ d # c => ch'[d].closed = ch[d].closed
    <3>1. DOMAIN ch = Chan /\ \A d \in Chan : ch[d] \in Hchans(Cap(d))
      BY ChanFacts DEF TypeOK
    <3>2. \A d \in Chan \ {c} : ch'[d] = ch[d]
      BY <1>1, <2>1, <3>1
    <3>3. ch'[c] = [ch[c] EXCEPT !.closed = TRUE]
      BY <1>1, <2>1, <3>1
    <3>4. /\ ch'[c] \in Hchans(Cap(c)) /\ ch'[c].recvq = ch[c].recvq
          /\ ch'[c].sendq = ch[c].sendq /\ ch'[c].qcount = ch[c].qcount
          /\ ch'[c].dataqsiz = ch[c].dataqsiz
      BY <1>1, <3>1, <3>3 DEF Hchans
    <3>. QED BY <2>1, <3>1, <3>2, <3>4
  <2>4. Shrinks({})
    <3>1. \A d \in Chan : /\ IsInjective(ch'[d].recvq) /\ IsInjective(ch'[d].sendq)
      BY <2>3 DEF Queued, InQueue
    <3>2. ASSUME NEW d \in Chan PROVE ch'[d].closed = ch[d].closed \/ Closing(d)'
      <4>1. CASE d = c
        BY <2>2, <4>1
      <4>2. CASE d # c
        BY <2>3, <4>2
      <4>. QED BY <4>1, <4>2
    <3>. QED BY <2>3, <3>1, <3>2 DEF Shrinks
  <2>5. ClosersGoOn
    BY <1>1, <2>1, ClosersStay DEF Goto, TypeOK
  <2>6. Parking'
    BY <1>1, <2>1, <2>4, <2>5, MovesOn DEF Goto
  <2>7. Typed
    <3>1. /\ ret' \in [G -> Nat \X {"pending", "ok", "closed", "panic", "default"}]
          /\ pc' \in [G -> PC]
      BY <2>1, SettleTyped DEF PC
    <3>. QED BY <1>1, <2>3, <3>1 DEF Typed, TypeOK
  <2>. QED BY <1>1, <2>1, <2>6, <2>7, TypeKept DEF TypeOK
<1>. QED BY <1>2, <1>3

LEMMA ReleaseKept ==
  ASSUME IInv, NEW g \in G, ReleaseReader(g) \/ ReleaseWriter(g)
  PROVE  /\ Parking' /\ TypeOK'
         /\ \E s \in Sudog : LET h == ch[Case(g, 1).c] IN
              /\ s \in ToSet(h.recvq) \cup ToSet(h.sendq) /\ ~done[s[1]]
              /\ s[1] \in G /\ pc[s[1]] = "parked" /\ Release(s)
<1>. USE DEF IInv
<1>. DEFINE c == Case(g, 1).c
<1>1. pc[g] = "closing" /\ c \in Chan
  BY CallFacts DEF ReleaseReader, ReleaseWriter
<1>2. PICK hs, w :
        /\ Purged(hs) /\ Claim(w) > 0 /\ Release(w[Claim(w)])
        /\ \/ w = hs[c].recvq /\ ch' = [hs EXCEPT ![c].recvq = Dequeued(w)]
           \/ w = hs[c].sendq /\ ch' = [hs EXCEPT ![c].sendq = Dequeued(w)]
  <2>1. CASE ReleaseReader(g)
    BY <2>1, UntouchedPurged DEF ReleaseReader
  <2>2. CASE ReleaseWriter(g)
    <3>. DEFINE hs == [ch EXCEPT ![c].recvq = <<>>]  w == ch[c].sendq
    <3>1. /\ Claim(ch[c].recvq) = 0 /\ Claim(w) > 0 /\ Release(w[Claim(w)])
          /\ ch' = [ch EXCEPT ![c].recvq = <<>>, ![c].sendq = Dequeued(w)]
      BY <2>2 DEF ReleaseWriter
    <3>2. Purged(hs)
      BY <1>1, <3>1, EmptiedPurged
    <3>3. hs[c].sendq = w
      BY <1>1, ChanFacts DEF TypeOK, Hchans
    <3>4. ch' = [hs EXCEPT ![c].sendq = Dequeued(w)]
      BY <3>1
    <3>. QED BY <3>1, <3>2, <3>3, <3>4
  <2>. QED BY <2>1, <2>2
<1>. HIDE DEF c
<1>. DEFINE s == w[Claim(w)]
<1>3. /\ s \in Sudog /\ s \in ToSet(ch[c].recvq) \cup ToSet(ch[c].sendq) /\ ~done[s[1]]
      /\ Shrinks({s}) /\ DOMAIN ch' = Chan /\ \A d \in Chan : ch'[d] \in Hchans(Cap(d))
  BY <1>1, <1>2, DequeueShrinks
<1>4. Release(s)
  BY <1>2
<1>. HIDE DEF s
<1>5. Parking'
  BY <1>1, <1>3, <1>4, ReleaseParking
<1>6. s[1] \in G /\ pc[s[1]] = "parked"
  BY <1>1, <1>3, Unclaimed
<1>7. op[s[1]].sel \in BOOLEAN
  BY <1>6, CallFacts
<1>8. Typed
  <2>1. done' \in [G -> BOOLEAN] /\ pc' \in [G -> PC]
    BY <1>4, <1>7 DEF Release, Claimed, Goto, PC, TypeOK
  <2>. QED BY <1>3, <1>4, <2>1 DEF Typed, Release, TypeOK
<1>9. TypeOK'
  BY <1>4, <1>8, TypeKept DEF Release, TypeOK
<1>. QED BY <1>3, <1>4, <1>5, <1>6, <1>9 DEF c

LEMMA CloseDoneKept ==
  ASSUME IInv, NEW g \in G, CloseDone(g)
  PROVE  Parking' /\ TypeOK'
<1>. USE DEF IInv
<1>. DEFINE c == Case(g, 1).c  hs == [ch EXCEPT ![c].recvq = <<>>, ![c].sendq = <<>>]
<1>1. /\ pc[g] = "closing" /\ c \in Chan
      /\ Claim(ch[c].recvq) = 0 /\ Claim(ch[c].sendq) = 0 /\ ch' = hs
      /\ Unlock(g) /\ Goto(g, "return") /\ UNCHANGED <<op, calls, done, param, hand, elem, ret>>
  BY CallFacts DEF CloseDone
<1>2. Purged(hs)
  BY <1>1, EmptiedPurged
<1>3. ToSet(ch'[c].recvq) \cup ToSet(ch'[c].sendq) = {}
  <2>1. ch'[c].recvq = <<>> /\ ch'[c].sendq = <<>>
    BY <1>1, ChanFacts DEF TypeOK, Hchans
  <2>. QED BY <2>1 DEF ToSet
<1>4. ClosersGoOn
  <2>. SUFFICES ASSUME NEW d \in Chan, NEW h \in G, pc[h] = "closing", Case(h, 1).c = d, d # c
                PROVE  Closing(d)'
    BY <1>3 DEF ClosersGoOn, Closing
  <2>1. h # g
    OBVIOUS
  <2>. HIDE DEF c
  <2>2. pc'[h] = "closing" /\ Case(h, 1)'.c = d
    BY <1>1, <2>1 DEF Goto, Case, TypeOK
  <2>. QED BY <2>2 DEF Closing
<1>. HIDE DEF c, hs
<1>5. Shrinks({})
  BY <1>1, <1>2, PurgedShrinks
<1>6. Parking'
  BY <1>1, <1>4, <1>5, MovesOn DEF Goto
<1>7. pc' \in [G -> PC] /\ lock' \in [Chan -> G \cup {NoG}]
  BY <1>1, UnlockTyped DEF Goto, PC, TypeOK
<1>8. Typed
  BY <1>1, <1>2, <1>7 DEF Typed, Purged, TypeOK
<1>. QED BY <1>1, <1>6, <1>7, <1>8, TypeKept DEF TypeOK

LEMMA ChanOpKept ==
  ASSUME IInv, NEW g \in G, ChanOp(g)
  PROVE  Parking' /\ TypeOK'
<1>1. Parking' /\ Typed
  BY ChanOpParking
<1>2. UNCHANGED <<lock, op, calls>> /\ (UNCHANGED param \/ param' = [param EXCEPT ![g] = <<>>])
  BY DEF ChanOp
<1>. QED BY <1>1, <1>2, TypeKept DEF IInv, TypeOK

LEMMA PollKept ==
  ASSUME IInv, NEW g \in G, Poll(g)
  PROVE  Parking' /\ TypeOK'
<1>1. Parking' /\ Typed
  BY PollParking
<1>2. Unlock(g) /\ UNCHANGED <<op, calls>> /\ (UNCHANGED param \/ param' = [param EXCEPT ![g] = <<>>])
  BY DEF Poll
<1>3. lock' \in [Chan -> G \cup {NoG}]
  BY <1>2, UnlockTyped
<1>4. param' \in [G -> Sudog \cup {<<>>}]
  BY <1>2 DEF IInv, TypeOK
<1>. QED BY <1>1, <1>2, <1>3, <1>4, TypeKept DEF IInv, TypeOK

LEMMA Pass3Kept ==
  ASSUME IInv, NEW g \in G, Pass3(g)
  PROVE  Parking' /\ TypeOK'
<1>. DEFINE others(w) == Kept(w, {i \in DOMAIN w : w[i][1] # g})
<1>1. /\ ch' = [c \in Chan |-> [ch[c] EXCEPT !.recvq = others(@), !.sendq = others(@)]]
      /\ done' = [done EXCEPT ![g] = FALSE] /\ param' = [param EXCEPT ![g] = <<>>]
      /\ \/ param[g] # <<>> /\ Settle(g, param[g][2], "ok") /\ Goto(g, "return") /\ Unlock(g)
         \/ Goto(g, "poll") /\ UNCHANGED <<ret, lock>>
      /\ UNCHANGED <<op, calls, hand, elem>>
  BY DEF Pass3
<1>2. ASSUME NEW w \in Seq(Sudog) PROVE others(w) \in Seq(Sudog)
  <2>. DEFINE I == {i \in DOMAIN w : w[i][1] # g}
  <2>1. I \in SUBSET DOMAIN w
    OBVIOUS
  <2>. HIDE DEF I
  <2>2. Kept(w, I) \in Seq(Sudog)
    BY <2>1, KeptFacts
  <2>. QED BY <2>2 DEF I
<1>3. ASSUME NEW c \in Chan PROVE ch'[c] \in Hchans(Cap(c))
  <2>. HIDE DEF others
  <2>1. ch[c] \in Hchans(Cap(c)) /\ ch[c].recvq \in Seq(Sudog) /\ ch[c].sendq \in Seq(Sudog)
    BY ChanFacts DEF IInv
  <2>2. others(ch[c].recvq) \in Seq(Sudog) /\ others(ch[c].sendq) \in Seq(Sudog)
    BY <1>2, <2>1
  <2>3. ch'[c] = [ch[c] EXCEPT !.recvq = others(ch[c].recvq), !.sendq = others(ch[c].sendq)]
    BY <1>1
  <2>. QED BY <2>1, <2>2, <2>3 DEF Hchans
<1>. HIDE DEF others
<1>4. /\ ret' \in [G -> Nat \X {"pending", "ok", "closed", "panic", "default"}]
      /\ pc' \in [G -> PC] /\ lock' \in [Chan -> G \cup {NoG}]
  <2>1. CASE param[g] # <<>> /\ Settle(g, param[g][2], "ok") /\ Goto(g, "return") /\ Unlock(g)
    <3>1. param[g][2] \in Nat
      BY <2>1 DEF IInv, TypeOK, Sudog
    <3>. QED BY <2>1, <3>1, SettleTyped, UnlockTyped DEF PC
  <2>2. CASE Goto(g, "poll") /\ UNCHANGED <<ret, lock>>
    BY <2>2 DEF IInv, TypeOK, Goto, PC
  <2>. QED BY <1>1, <2>1, <2>2
<1>5. done' \in [G -> BOOLEAN] /\ param' \in [G -> Sudog \cup {<<>>}]
  BY <1>1 DEF IInv, TypeOK
<1>6. Typed
  BY <1>1, <1>3, <1>4, <1>5 DEF Typed, IInv, TypeOK
<1>7. Parking'
  BY Pass3Parking
<1>. QED BY <1>1, <1>4, <1>5, <1>6, <1>7, TypeKept DEF IInv, TypeOK

-----------------------------------------------------------------------------
\* The lock a select takes next is the least it has not got.
LEMMA NextFacts ==
  ASSUME IInv, NEW g \in G, pc[g] \in {"sellock", "relock"}
  PROVE  /\ NextLock(g) \in Missing(g) /\ \A d \in Missing(g) : NextLock(g) <= d
         /\ Missing(g) \subseteq Chan /\ IsFiniteSet(Missing(g))
<1>1. SelChans(g) \subseteq Chan
  BY CallFacts DEF IInv, SelChans
<1>2. Missing(g) \subseteq Chan /\ Missing(g) # {}
  BY <1>1 DEF IInv, Locks, Missing
<1>3. NextLock(g) \in Missing(g) /\ \A d \in Missing(g) : NextLock(g) <= d
  <2>. DEFINE M == Missing(g)
  <2>1. M \in SUBSET Nat /\ M # {}
    BY <1>2 DEF Chan
  <2>. HIDE DEF M
  <2>2. \E i \in M : \A j \in M : i <= j
    BY <2>1, Least
  <2>. QED BY <2>2 DEF NextLock, Min, M
<1>4. IsFiniteSet(Missing(g))
  <2>1. IsFiniteSet(Chan)
    BY ChanAssumption, UpTo DEF Chan
  <2>. QED BY <1>2, <2>1, FS_Subset
<1>. QED BY <1>2, <1>3, <1>4

LEMMA SellockKept ==
  ASSUME IInv, NEW g \in G, Sellock(g)
  PROVE  Parking' /\ TypeOK' /\ Locks'
<1>. USE DEF IInv
<1>. DEFINE n == NextLock(g)
<1>1. /\ pc[g] \in {"sellock", "relock"} /\ op[g].sel /\ op[g] \in Ops /\ calls[g] # 0
      /\ lock[n] = NoG /\ lock' = [lock EXCEPT ![n] = g]
      /\ UNCHANGED <<ch, op, calls, done, param, hand, elem, ret>>
      /\ done[g] => pc[g] = "relock"
  BY DEF Sellock, Calling
<1>2. /\ n \in Missing(g) /\ (\A d \in Missing(g) : n <= d) /\ Missing(g) \subseteq Chan
      /\ IsFiniteSet(Missing(g))
  BY <1>1, NextFacts
<1>3. PICK l \in {"sellock", "poll", "relock", "pass3"} :
        /\ Goto(g, l) /\ (l = pc[g] <=> Cardinality(Missing(g)) > 1)
        /\ l \in {"relock", "pass3"} <=> pc[g] = "relock"
  <2>1. CASE Cardinality(Missing(g)) > 1
    <3>1. pc' = [pc EXCEPT ![g] = pc[g]]
      BY <2>1 DEF Sellock, TypeOK
    <3>. QED BY <1>1, <2>1, <3>1 DEF Goto
  <2>2. CASE ~(Cardinality(Missing(g)) > 1)
    BY <1>1, <2>2 DEF Sellock
  <2>. QED BY <2>1, <2>2
<1>4. Parking'
  BY <1>1, <1>3, Quiet DEF Goto, PC
<1>5. TypeOK'
  <2>1. pc' \in [G -> PC] /\ lock' \in [Chan -> G \cup {NoG}]
    BY <1>1, <1>2, <1>3 DEF Goto, PC, TypeOK
  <2>2. Typed
    BY <1>1, <2>1, SameTyped DEF TypeOK
  <2>. QED BY <1>1, <2>1, <2>2, TypeKept DEF TypeOK
<1>. HIDE DEF n
<1>6. /\ \A c \in Chan, h \in G : lock'[c] = h <=> lock[c] = h \/ (h = g /\ c = n)
      /\ pc'[g] = l /\ \A h \in G \ {g} : pc'[h] = pc[h]
  BY <1>1, <1>2, <1>3, NoneAssumption DEF TypeOK, Goto
<1>7. \A h \in G : SelChans(h)' = SelChans(h)
  BY <1>1 DEF SelChans, Case
<1>8. \A h \in G : pc[h] \in {"closing", "sellock", "poll", "relock", "pass3"} => SelChans(h) \subseteq Chan
  BY CallFacts DEF SelChans
<1>9. /\ Missing(g)' = Missing(g) \ {n}
      /\ \A h \in G \ {g} : pc[h] \in {"closing", "sellock", "poll", "relock", "pass3"} => Missing(h)' = Missing(h)
  BY <1>1, <1>6, <1>7, <1>8 DEF Missing
<1>10. Missing(g)' = {} <=> ~(Cardinality(Missing(g)) > 1)
  <2>. DEFINE M == Missing(g)
  <2>1. IsFiniteSet(M) /\ n \in M /\ Cardinality(M) \in Nat
    BY <1>2, FS_CardinalityType
  <2>. HIDE DEF M
  <2>2. IsFiniteSet(M \ {n}) /\ Cardinality(M \ {n}) = Cardinality(M) - 1
    BY <2>1, FS_RemoveElement
  <2>3. (M \ {n} = {} <=> Cardinality(M \ {n}) = 0) /\ Cardinality(M) # 0
    BY <2>1, <2>2, FS_EmptySet
  <2>. QED BY <1>9, <2>1, <2>2, <2>3 DEF M
<1>11. Locks'
  <2>. SUFFICES ASSUME NEW h \in G
                PROVE /\ \A c \in Chan : lock'[c] = h => c \in SelChans(h)'
                                        /\ pc'[h] \in {"closing", "sellock", "poll", "relock", "pass3"}
                      /\ pc'[h] \in {"closing", "poll", "pass3"} => Missing(h)' = {}
                      /\ pc'[h] \in {"sellock", "relock"} => Missing(h)' # {}
                           /\ \A c \in Chan, d \in Missing(h)' : lock'[c] = h => c < d
    BY DEF Locks
  <2>1. CASE h # g
    BY <1>6, <1>7, <1>9, <2>1 DEF Locks
  <2>2. CASE h = g
    <3>1. \A c \in Chan : lock'[c] = g => c \in SelChans(g)'
      BY <1>2, <1>6, <1>7 DEF Locks, Missing
    <3>2. \A d \in Missing(g)' : d \in Nat /\ n \in Nat /\ n < d
      BY <1>2, <1>9 DEF Chan
    <3>3. \A c \in Chan, d \in Missing(g)' : lock'[c] = g => c < d
      BY <1>1, <1>6, <1>9, <3>2 DEF Locks
    <3>4. l \in {"poll", "pass3"} <=> ~(Cardinality(Missing(g)) > 1)
      BY <1>1, <1>3
    <3>. QED BY <1>3, <1>6, <1>10, <2>2, <3>1, <3>3, <3>4
  <2>. QED BY <2>1, <2>2
<1>. QED BY <1>4, <1>5, <1>11

\* A select whose step is not of the locks keeps what it has; no other step is about
\* locks but by going to take some, with none held.
LEMMA LocksKept ==
  ASSUME IInv, UNCHANGED lock,
         \A h \in G : pc'[h] \in {"closing", "sellock", "poll", "relock", "pass3"} =>
           \/ pc'[h] = pc[h] /\ op'[h] = op[h]
           \/ pc[h] = "pass3" /\ pc'[h] = "poll" /\ op'[h] = op[h]
           \/ /\ pc[h] \notin {"closing", "sellock", "poll", "relock", "pass3"}
              /\ pc'[h] \in {"sellock", "relock"} /\ SelChans(h)' # {} /\ op'[h] \in Ops,
         \A h \in G : pc[h] \in {"closing", "sellock", "poll", "relock", "pass3"} =>
           pc'[h] \in {"closing", "sellock", "poll", "relock", "pass3"}
  PROVE  Locks'
<1>. USE DEF IInv
<1>. SUFFICES ASSUME NEW h \in G
              PROVE /\ \A c \in Chan : lock'[c] = h => c \in SelChans(h)'
                                      /\ pc'[h] \in {"closing", "sellock", "poll", "relock", "pass3"}
                    /\ pc'[h] \in {"closing", "poll", "pass3"} => Missing(h)' = {}
                    /\ pc'[h] \in {"sellock", "relock"} => Missing(h)' # {}
                         /\ \A c \in Chan, d \in Missing(h)' : lock'[c] = h => c < d
  BY DEF Locks
<1>1. CASE pc'[h] \notin {"closing", "sellock", "poll", "relock", "pass3"}
  BY <1>1 DEF Locks
<1>2. CASE op'[h] = op[h] /\ (pc'[h] = pc[h] \/ (pc[h] = "pass3" /\ pc'[h] = "poll"))
  <2>1. SelChans(h)' = SelChans(h) /\ Missing(h)' = Missing(h)
    BY <1>2 DEF SelChans, Missing, Case
  <2>. QED BY <1>2, <2>1 DEF Locks
<1>3. CASE /\ pc[h] \notin {"closing", "sellock", "poll", "relock", "pass3"}
           /\ pc'[h] \in {"sellock", "relock"} /\ SelChans(h)' # {}
           /\ op'[h] \in Ops
  <2>1. \A c \in Chan : lock[c] # h
    BY <1>3 DEF Locks
  <2>2. SelChans(h)' \subseteq Chan
    <3>1. op'[h] \in [cases : Seq(Cases), sel : BOOLEAN, block : BOOLEAN]
      BY <1>3, CallsAssumption
    <3>2. \A i \in DOMAIN op'[h].cases : op'[h].cases[i] \in Cases
      <4>1. op'[h].cases \in Seq(Cases)
        BY <3>1
      <4>. QED BY <4>1, LenProperties, ElementOfSeq
    <3>. QED BY <3>2 DEF SelChans, Case, Cases
  <2>3. Missing(h)' = SelChans(h)'
    BY <2>1, <2>2 DEF Missing
  <2>. QED BY <1>3, <2>1, <2>3
<1>. QED BY <1>1, <1>2, <1>3

\* A select that has done with its channels gives back their locks.
LEMMA LocksReleased ==
  ASSUME IInv, NEW g \in G, Unlock(g), UNCHANGED op,
         pc'[g] \notin {"closing", "sellock", "poll", "relock", "pass3"},
         \A h \in G \ {g} : \/ pc'[h] = pc[h]
                            \/ /\ pc[h] \notin {"closing", "sellock", "poll", "relock", "pass3"}
                               /\ pc'[h] \notin {"closing", "sellock", "poll", "relock", "pass3"}
  PROVE  Locks'
<1>. USE DEF IInv
<1>1. \A c \in Chan, h \in G : lock'[c] = h <=> lock[c] = h /\ h # g
  BY NoneAssumption DEF Unlock, TypeOK
<1>2. ASSUME NEW h \in G \ {g}, pc[h] \in {"closing", "sellock", "poll", "relock", "pass3"}
      PROVE  SelChans(h)' = SelChans(h) /\ Missing(h)' = Missing(h)
  <2>1. SelChans(h)' = SelChans(h) /\ SelChans(h) \subseteq Chan
    BY <1>2, CallFacts DEF SelChans, Case
  <2>. QED BY <1>1, <2>1 DEF Missing
<1>. SUFFICES ASSUME NEW h \in G
              PROVE /\ \A c \in Chan : lock'[c] = h => c \in SelChans(h)'
                                      /\ pc'[h] \in {"closing", "sellock", "poll", "relock", "pass3"}
                    /\ pc'[h] \in {"closing", "poll", "pass3"} => Missing(h)' = {}
                    /\ pc'[h] \in {"sellock", "relock"} => Missing(h)' # {}
                         /\ \A c \in Chan, d \in Missing(h)' : lock'[c] = h => c < d
  BY DEF Locks
<1>3. CASE h = g
  BY <1>1, <1>3
<1>4. CASE h # g /\ pc[h] \in {"closing", "sellock", "poll", "relock", "pass3"}
  BY <1>1, <1>2, <1>4 DEF Locks
<1>5. CASE h # g /\ pc[h] \notin {"closing", "sellock", "poll", "relock", "pass3"}
  BY <1>1, <1>5 DEF Locks
<1>. QED BY <1>3, <1>4, <1>5

LEMMA WokenSelectLocks ==
  ASSUME IInv, NEW g \in G, WokenSelect(g)
  PROVE  Locks'
<1>1. /\ pc[g] = "woken" /\ UNCHANGED <<lock, op>> /\ op[g] \in Ops
      /\ pc'[g] = "relock" /\ \A h \in G \ {g} : pc'[h] = pc[h]
  BY DEF WokenSelect, Goto, IInv, TypeOK, Calling
<1>2. SelChans(g)' # {}
  <2>1. 1 \in DOMAIN op[g].cases
    BY <1>1, CallFacts DEF IInv
  <2>. QED BY <1>1, <2>1 DEF SelChans
<1>. QED BY <1>1, <1>2, LocksKept

LEMMA InvokeLocks ==
  ASSUME IInv, NEW g \in G, NEW o \in Ops, Invoke(g, o)
  PROVE  Locks'
<1>1. /\ pc[g] = "idle" /\ UNCHANGED lock /\ op'[g] = o
      /\ pc'[g] \in {"sellock", "chan", "fast"} /\ \A h \in G \ {g} : pc'[h] = pc[h] /\ op'[h] = op[h]
  BY DEF Invoke, Goto, IInv, TypeOK
<1>2. SelChans(g)' # {}
  <2>1. o \in [cases : Seq(Cases), sel : BOOLEAN, block : BOOLEAN] /\ o.cases # <<>>
    BY CallsAssumption
  <2>2. o.cases \in Seq(Cases)
    BY <2>1
  <2>3. 1 \in DOMAIN o.cases
    BY <2>1, <2>2, EmptySeq, LenProperties
  <2>. QED BY <1>1, <2>3 DEF SelChans
<1>. QED BY <1>1, <1>2, LocksKept

LEMMA PollLocks ==
  ASSUME IInv, NEW g \in G, Poll(g)
  PROVE  Locks'
<1>1. Unlock(g) /\ UNCHANGED op
  BY DEF Poll
<1>2. Goto(g, "return") \/ Goto(g, "handoff") \/ Goto(g, "parked")
  <2>1. \/ \E i, hs : Fire(g, i, hs)
        \/ Goto(g, "return") \/ Goto(g, "parked")
    BY Zenon DEF Poll
  <2>2. ASSUME NEW i, NEW hs, Fire(g, i, hs) PROVE Goto(g, "return") \/ Goto(g, "handoff")
    BY Zenon, <2>2 DEF Fire, SendClosed, SendToReceiver, SendToBuffer, RecvFromSender, RecvFromBuffer,
                RecvClosed
  <2>. QED BY <2>1, <2>2
<1>3. /\ pc'[g] \in {"return", "handoff", "parked"}
      /\ \A h \in G \ {g} : pc'[h] = pc[h]
  BY <1>2 DEF Goto, IInv, TypeOK
<1>. QED BY <1>1, <1>3, LocksReleased

LEMMA Pass3Locks ==
  ASSUME IInv, NEW g \in G, Pass3(g)
  PROVE  Locks'
<1>1. pc[g] = "pass3" /\ UNCHANGED op
  BY DEF Pass3
<1>2. CASE Goto(g, "return") /\ Unlock(g)
  BY <1>1, <1>2, LocksReleased DEF Goto, IInv, TypeOK
<1>3. CASE Goto(g, "poll") /\ UNCHANGED lock
  <2>1. pc'[g] = "poll" /\ \A h \in G \ {g} : pc'[h] = pc[h]
    BY <1>3 DEF Goto, IInv, TypeOK
  <2>. QED BY <1>1, <1>3, <2>1, LocksKept
<1>. QED BY <1>2, <1>3 DEF Pass3

LEMMA ClosechanLocks ==
  ASSUME IInv, NEW g \in G, Closechan(g)
  PROVE  Locks'
<1>. USE DEF IInv
<1>1. /\ pc[g] = "chan" /\ UNCHANGED op /\ Case(g, 1).c \in Chan /\ SelChans(g) = {Case(g, 1).c}
      /\ \A h \in G \ {g} : pc'[h] = pc[h]
  <2>1. pc[g] = "chan" /\ UNCHANGED op /\ (Goto(g, "return") \/ Goto(g, "closing"))
    BY DEF Closechan
  <2>2. ~op[g].sel
    BY <2>1 DEF Calling
  <2>. QED BY <2>1, <2>2, CallFacts DEF SelChans, Goto, TypeOK
<1>. PICK c \in Chan : c = Case(g, 1).c
  BY <1>1
<1>2. CASE UNCHANGED lock /\ Goto(g, "return")
  <2>1. pc'[g] = "return"
    BY <1>2 DEF Goto, TypeOK
  <2>. QED BY <1>1, <1>2, <2>1, LocksKept
<1>3. CASE lock[c] = NoG /\ lock' = [lock EXCEPT ![c] = g] /\ Goto(g, "closing")
  <2>1. /\ pc'[g] = "closing"
        /\ \A d \in Chan, h \in G : lock'[d] = h <=> lock[d] = h \/ (h = g /\ d = c)
    BY <1>3, NoneAssumption DEF Goto, TypeOK
  <2>2. SelChans(g)' = {c} /\ Missing(g)' = {} /\ \A d \in Chan : lock[d] # g
    BY <1>1, <2>1 DEF SelChans, Case, Missing, Locks
  <2>3. ASSUME NEW h \in G \ {g}, pc[h] \in {"closing", "sellock", "poll", "relock", "pass3"}
        PROVE  SelChans(h)' = SelChans(h) /\ Missing(h)' = Missing(h)
    <3>1. SelChans(h)' = SelChans(h) /\ SelChans(h) \subseteq Chan
      BY <1>1, <2>3, CallFacts DEF SelChans, Case
    <3>. QED BY <2>1, <3>1 DEF Missing
  <2>. SUFFICES ASSUME NEW h \in G
                PROVE /\ \A d \in Chan : lock'[d] = h => d \in SelChans(h)'
                           /\ pc'[h] \in {"closing", "sellock", "poll", "relock", "pass3"}
                      /\ pc'[h] \in {"closing", "poll", "pass3"} => Missing(h)' = {}
                      /\ pc'[h] \in {"sellock", "relock"} => Missing(h)' # {}
                           /\ \A x \in Chan, d \in Missing(h)' : lock'[x] = h => x < d
    BY DEF Locks
  <2>4. CASE h = g
    BY <2>1, <2>2, <2>4
  <2>5. CASE h # g /\ pc[h] \in {"closing", "sellock", "poll", "relock", "pass3"}
    BY <1>1, <2>1, <2>3, <2>5 DEF Locks
  <2>6. CASE h # g /\ pc[h] \notin {"closing", "sellock", "poll", "relock", "pass3"}
    BY <1>1, <2>1, <2>6 DEF Locks
  <2>. QED BY <2>4, <2>5, <2>6
<1>. QED BY <1>2, <1>3 DEF Closechan

LEMMA ReleaseLocks ==
  ASSUME IInv, NEW s \in Sudog, s[1] \in G, pc[s[1]] = "parked", Release(s)
  PROVE  Locks'
<1>. PICK t \in G : t = s[1]
  OBVIOUS
<1>1. pc[t] = "parked" /\ pc'[t] = "woken" /\ \A h \in G \ {t} : pc'[h] = pc[h]
  BY DEF Release, Goto, IInv, TypeOK
<1>2. UNCHANGED <<lock, op>>
  BY DEF Release
<1>. QED BY <1>1, <1>2, LocksKept

LEMMA CloseDoneLocks ==
  ASSUME IInv, NEW g \in G, CloseDone(g)
  PROVE  Locks'
<1>1. Unlock(g) /\ UNCHANGED op /\ Goto(g, "return")
  BY DEF CloseDone
<1>2. pc'[g] = "return" /\ \A h \in G \ {g} : pc'[h] = pc[h]
  BY <1>1 DEF Goto, IInv, TypeOK
<1>. QED BY <1>1, <1>2, LocksReleased

\* The steps that are not about locks held for longer.
LEMMA OtherLocks ==
  ASSUME IInv, NEW g \in G,
         FastRead(g) \/ FastRead2(g) \/ ChanOp(g) \/ Handoff(g) \/ Woken(g) \/ Return(g)
  PROVE  Locks'
<1>. USE DEF IInv
<1>1. CASE FastRead(g) \/ FastRead2(g) \/ Woken(g)
  BY <1>1, LocksKept DEF FastRead, FastRead2, Woken, Goto, TypeOK
<1>2. CASE Return(g)
  BY <1>2, LocksKept DEF Return, Goto, TypeOK
<1>3. CASE ChanOp(g)
  <2>1. Goto(g, "return") \/ Goto(g, "handoff") \/ Goto(g, "parked")
    BY Zenon, <1>3 DEF ChanOp, Fire, SendClosed, SendToReceiver, SendToBuffer, RecvFromSender,
                RecvFromBuffer, RecvClosed
  <2>2. pc[g] = "chan" /\ UNCHANGED <<lock, op>>
    BY <1>3 DEF ChanOp
  <2>. QED BY <2>1, <2>2, LocksKept DEF Goto, TypeOK
<1>4. CASE Handoff(g)
  <2>1. hand[g][1] \in G
    BY <1>4, HandFacts DEF Handoff
  <2>. PICK t \in G : t = hand[g][1]
    BY <2>1
  <2>2. pc[g] = "handoff" /\ pc[t] = "parked"
    BY <1>4 DEF Handoff, Handoffs
  <2>3. /\ UNCHANGED <<lock, op>> /\ pc' = [pc EXCEPT ![g] = "return", ![t] = "woken"]
    BY <1>4 DEF Handoff
  <2>. QED BY <2>2, <2>3, LocksKept DEF TypeOK
<1>. QED BY <1>1, <1>2, <1>3, <1>4

-----------------------------------------------------------------------------
LEMMA NothingHappens ==
  ASSUME IInv, UNCHANGED vars
  PROVE  IInv'
<1>1. TypeOK'
  BY DEF vars, IInv, TypeOK, Hchans, Cap
<1>2. \A g \in G : Wakers(g)' = Wakers(g)
  BY DEF vars, Wakers
<1>3. Calling'
  BY <1>2 DEF vars, IInv, Calling
<1>4. Queued'
  <2>1. Shrinks({})
    BY NothingShrinks DEF vars, IInv
  <2>2. \A s \in Left :
          /\ s[1] \in G /\ pc[s[1]] \in {"parked", "woken", "relock", "pass3"}
          /\ done[s[1]] \/ (pc[s[1]] = "parked" /\ Wakers(s[1]) = {})
    BY <2>1, LeftFacts
  <2>3. \A s \in Left :
          /\ op'[s[1]] = op[s[1]] /\ pc'[s[1]] \in {"parked", "woken", "relock", "pass3"}
          /\ done'[s[1]] \/ (pc'[s[1]] = "parked" /\ Wakers(s[1])' = {})
    BY <1>2, <2>2 DEF vars
  <2>. QED BY <2>1, <2>3, StillQueued
<1>5. Handoffs'
  BY SMTT(30) DEF vars, IInv, Handoffs, Wakers
<1>6. Waiting' /\ Unready' /\ Barred'
  BY <1>2 DEF vars, IInv, Waiting, Unready, Barred, Closing, Case, Cap
<1>7. Locks'
  BY DEF vars, IInv, Locks, SelChans, Missing, Case
<1>. QED BY <1>1, <1>3, <1>4, <1>5, <1>6, <1>7 DEF IInv

LEMMA NextIInv == IInv /\ [Next]_vars => IInv'
<1>. SUFFICES ASSUME IInv, [Next]_vars PROVE IInv'
  OBVIOUS
<1>1. CASE UNCHANGED vars
  BY <1>1, NothingHappens
<1>2. ASSUME NEW g \in G, Parking', TypeOK', Locks' PROVE IInv'
  BY <1>2 DEF Parking, IInv
<1>3. ASSUME NEW g \in G, FastRead(g) \/ FastRead2(g) PROVE IInv'
  BY <1>2, <1>3, FastReadKept, OtherLocks
<1>4. ASSUME NEW g \in G, ChanOp(g) PROVE IInv'
  BY <1>2, <1>4, ChanOpKept, OtherLocks
<1>5. ASSUME NEW g \in G, Closechan(g) \/ CloseDone(g) PROVE IInv'
  BY <1>2, <1>5, ClosechanKept, ClosechanLocks, CloseDoneKept, CloseDoneLocks
<1>14. ASSUME NEW g \in G, ReleaseReader(g) \/ ReleaseWriter(g) PROVE IInv'
  BY <1>2, <1>14, ReleaseKept, ReleaseLocks
<1>6. ASSUME NEW g \in G, Handoff(g) PROVE IInv'
  BY <1>2, <1>6, HandoffKept, OtherLocks
<1>7. ASSUME NEW g \in G, Woken(g) PROVE IInv'
  BY <1>2, <1>7, WokenKept, OtherLocks
<1>8. ASSUME NEW g \in G, Return(g) PROVE IInv'
  BY <1>2, <1>8, ReturnKept, OtherLocks
<1>9. ASSUME NEW g \in G, Sellock(g) PROVE IInv'
  BY <1>2, <1>9, SellockKept
<1>10. ASSUME NEW g \in G, Poll(g) PROVE IInv'
  BY <1>2, <1>10, PollKept, PollLocks
<1>11. ASSUME NEW g \in G, WokenSelect(g) PROVE IInv'
  BY <1>2, <1>11, WokenKept, WokenSelectLocks
<1>12. ASSUME NEW g \in G, Pass3(g) PROVE IInv'
  BY <1>2, <1>12, Pass3Kept, Pass3Locks
<1>13. ASSUME NEW g \in G, NEW o \in Ops, Invoke(g, o) PROVE IInv'
  BY <1>2, <1>13, InvokeKept, InvokeLocks
<1>. QED BY <1>1, <1>3, <1>4, <1>5, <1>6, <1>7, <1>8, <1>9, <1>10, <1>11, <1>12, <1>13,
            <1>14, Steps

\* The inductive invariant holds in every state of every run.
LEMMA AlwaysIInv == Spec => []IInv
BY InitIInv, NextIInv, PTL DEF Spec

\* Whatever a queue of sudogs says is so: it holds nobody twice, nobody whose call is
\* over, and every sudog on the channel and for a case it was made for (sudogs live in
\* frames and caches that a finished call gives back).
THEOREM QueuesAreTidy == Spec => []QueuesTidy
<1>1. ASSUME IInv PROVE QueuesTidy
  <2>1. ASSUME NEW c \in Chan, NEW w \in {ch[c].recvq, ch[c].sendq}, NEW s \in ToSet(w)
        PROVE  /\ pc[s[1]] \in {"parked", "woken", "relock", "pass3"}
               /\ s[2] \in DOMAIN op[s[1]].cases /\ Case(s[1], s[2]).c = c
    BY <1>1, <2>1, QueueFacts
  <2>2. \A c \in Chan : \A w \in {ch[c].recvq, ch[c].sendq} : IsInjective(w)
    BY <1>1 DEF IInv, Queued, InQueue
  <2>. QED BY <1>1, <2>1, <2>2 DEF QueuesTidy, IInv
<1>. QED BY <1>1, AlwaysIInv, PTL

\* However many channels somebody waits at, and with the lock of only one of them held,
\* at most one goroutine claims him, and only while he is parked: goready is never
\* called on a goroutine that runs.
THEOREM ClaimedByOne == Spec => []ClaimedOnce
<1>1. ASSUME IInv PROVE ClaimedOnce
  <2>1. ASSUME NEW t \in G, Wakers(t) # {}
        PROVE  pc[t] = "parked" /\ Cardinality(Wakers(t)) = 1
    <3>1. PICK g \in Wakers(t) : TRUE
      BY <2>1
    <3>2. Wakers(t) = {g} /\ pc[t] = "parked"
      BY <1>1, <3>1 DEF IInv, Handoffs, Wakers
    <3>. QED BY <3>2, FS_Singleton
  <2>2. ASSUME NEW t \in G, Wakers(t) = {} PROVE Cardinality(Wakers(t)) = 0
    BY <2>2, FS_EmptySet
  <2>3. ASSUME NEW t \in G PROVE Cardinality(Wakers(t)) <= 1
    BY <2>1, <2>2
  <2>. QED BY <2>1, <2>3 DEF ClaimedOnce
<1>. QED BY <1>1, AlwaysIInv, PTL

\* No lost wakeup: a goroutine that is parked and that nobody has claimed waits for
\* something that has not happened, at every one of its channels.
THEOREM ParkedForGoodReason == Spec => []ParkedMeansNotReady
<1>1. ASSUME IInv PROVE ParkedMeansNotReady
  <2>. SUFFICES ASSUME NEW g \in G, pc[g] = "parked", Wakers(g) = {}, NEW i \in DOMAIN op[g].cases
                PROVE LET k == Case(g, i)  h == ch[k.c]
                          w == IF k.dir = "send" THEN h.sendq ELSE h.recvq IN
                        /\ h.closed => Closing(k.c) /\ <<g, i>> \in ToSet(w)
                        /\ k.dir = "send" => h.qcount = Cap(k.c)
                        /\ k.dir = "recv" => h.qcount = 0
                        /\ \A s \in ToSet(IF k.dir = "send" THEN h.recvq ELSE h.sendq) :
                             s[1] = g \/ done[s[1]]
    BY DEF ParkedMeansNotReady
  <2>. DEFINE k == Case(g, i)
  <2>1. k.c \in Chan /\ ~done[g]
    BY <1>1, CallFacts DEF IInv, Calling
  <2>2. \/ k.dir = "send" /\ <<g, i>> \in ToSet(ch[k.c].sendq)
        \/ k.dir = "recv" /\ <<g, i>> \in ToSet(ch[k.c].recvq)
    BY <1>1 DEF IInv, Waiting
  <2>3. /\ k.dir = "send" => ch[k.c].qcount = Cap(k.c)
        /\ k.dir = "recv" => ch[k.c].qcount = 0
        /\ \A s \in ToSet(IF k.dir = "send" THEN ch[k.c].recvq ELSE ch[k.c].sendq) :
             s[1] = g \/ done[s[1]]
    BY <1>1 DEF IInv, Unready
  <2>. HIDE DEF k
  <2>4. ch[k.c].closed => Closing(k.c)
    <3>1. <<g, i>> \in ToSet(ch[k.c].recvq) \cup ToSet(ch[k.c].sendq) /\ ~done[<<g, i>>[1]]
      BY <2>1, <2>2
    <3>. QED BY <1>1, <2>1, <3>1 DEF IInv, Barred
  <2>5. CASE k.dir = "send"
    BY <2>2, <2>3, <2>4, <2>5 DEF k
  <2>6. CASE k.dir = "recv"
    BY <2>2, <2>3, <2>4, <2>6 DEF k
  <2>. QED BY <2>2, <2>5, <2>6
<1>. QED BY <1>1, AlwaysIInv, PTL

\* Selects over any channels, in any order of their cases, do not deadlock on the
\* channels' locks: sellock's order by address rules out a ring.
THEOREM LocksInOrder == Spec => []NoLockCycle
<1>1. ASSUME IInv, NEW S \in (SUBSET G) \ {{}}, \A g \in S : WaitsIn(g, S) PROVE FALSE
  <2>. DEFINE left(g) == NChan - NextLock(g)
              T == {left(g) : g \in S}
  <2>1. \A g \in S : /\ g \in G /\ pc[g] \in {"sellock", "relock"} /\ lock[NextLock(g)] \in S
    BY <1>1 DEF WaitsIn
  <2>2. \A g \in S : NextLock(g) \in Missing(g) /\ NextLock(g) \in 1..NChan
    BY <1>1, <2>1, NextFacts DEF Chan
  <2>3. ASSUME NEW g \in S PROVE \E h \in S : left(h) < left(g)
    <3>. DEFINE h == lock[NextLock(g)]
    <3>1. h \in S /\ NextLock(h) \in Missing(h) /\ NextLock(h) \in 1..NChan /\ NextLock(g) \in 1..NChan
      BY <2>1, <2>2
    <3>2. NextLock(g) < NextLock(h)
      <4>. PICK c \in Chan : c = NextLock(g)
        BY <3>1 DEF Chan
      <4>. PICK x \in S : x = lock[c]
        BY <3>1
      <4>1. NextLock(x) \in Missing(x) /\ pc[x] \in {"sellock", "relock"} /\ x \in G
        BY <2>1, <2>2
      <4>. QED BY <1>1, <4>1 DEF IInv, Locks
    <3>3. left(h) < left(g)
      BY <3>1, <3>2, ChanAssumption
    <3>. QED BY <3>1, <3>3
  <2>4. T \in SUBSET Nat /\ T # {}
    BY <1>1, <2>2, ChanAssumption
  <2>5. PICK g \in S : \A h \in S : left(g) <= left(h)
    <3>1. PICK i \in T : \A j \in T : i <= j
      <4>. HIDE DEF T
      <4>. QED BY <2>4, Least
    <3>. QED BY <3>1
  <2>6. PICK h \in S : left(h) < left(g)
    BY <2>3
  <2>7. left(h) \in Int /\ left(g) \in Int
    BY <2>2, ChanAssumption
  <2>. QED BY <2>5, <2>6, <2>7
<1>2. IInv => NoLockCycle
  BY <1>1 DEF NoLockCycle
<1>. QED BY <1>2, AlwaysIInv, PTL

-----------------------------------------------------------------------------
\* What is closed stays closed.
LEMMA ClosedStays ==
  ASSUME IInv, [Next]_vars, NEW c \in Chan, ch[c].closed
  PROVE  ch'[c].closed
<1>. USE DEF IInv
<1>1. DOMAIN ch = Chan /\ ch[c] \in Hchans(Cap(c))
  BY ChanFacts DEF TypeOK
<1>2. ASSUME NEW g, NEW i, NEW hs, DOMAIN hs = Chan, hs[c] \in Hchans(Cap(c)),
             hs[c].closed, Fire(g, i, hs)
      PROVE  ch'[c].closed
  <2>. USE DEF Hchans
  <2>1. CASE ch' = hs
    BY <1>2, <2>1
  <2>2. CASE \E d, v : ch' = [hs EXCEPT ![d].recvq = v] \/ ch' = [hs EXCEPT ![d].sendq = v]
    <3>1. PICK d, v : ch' = [hs EXCEPT ![d].recvq = v] \/ ch' = [hs EXCEPT ![d].sendq = v]
      BY <2>2
    <3>2. CASE d = c
      BY <1>2, <3>1, <3>2
    <3>3. CASE d # c
      BY <1>2, <3>1, <3>3
    <3>. QED BY <3>2, <3>3
  <2>3. CASE SendToBuffer(g, i, hs)
    BY <1>2, <2>3 DEF SendToBuffer
  <2>4. CASE RecvFromSender(g, i, hs)
    <3>. DEFINE d == Case(g, i).c
    <3>1. CASE Cap(d) = 0
      <4>1. \E v : ch' = [hs EXCEPT ![d].sendq = v]
        BY <2>4, <3>1 DEF RecvFromSender
      <4>. QED BY <2>2, <4>1
    <3>2. CASE Cap(d) # 0
      <4>1. PICK v, x : ch' = [hs EXCEPT ![d].sendq = v, ![d].buf[hs[d].recvx] = x,
                                         ![d].recvx = Step(d, @),
                                         ![d].sendx = Step(d, hs[d].recvx)]
        BY <2>4, <3>2 DEF RecvFromSender
      <4>. HIDE DEF d
      <4>. QED BY SMTT(30), <1>2, <4>1
    <3>. QED BY <3>1, <3>2
  <2>5. CASE RecvFromBuffer(g, i, hs)
    BY <1>2, <2>5 DEF RecvFromBuffer
  <2>. QED BY <1>2, <2>1, <2>2, <2>3, <2>4, <2>5
           DEF Fire, SendClosed, RecvClosed, SendToReceiver
<1>3. ASSUME NEW cs
      PROVE  LET hs == Drained(ch, cs) IN
               DOMAIN hs = Chan /\ hs[c] \in Hchans(Cap(c)) /\ hs[c].closed
  <2>. DEFINE v == IF [c |-> c, dir |-> "send"] \in cs THEN <<>> ELSE ch[c].recvq
              w == IF [c |-> c, dir |-> "recv"] \in cs THEN <<>> ELSE ch[c].sendq
  <2>1. DOMAIN Drained(ch, cs) = Chan /\ Drained(ch, cs)[c] = [ch[c] EXCEPT !.recvq = v, !.sendq = w]
    BY DEF Drained
  <2>2. v \in Seq(Sudog) /\ w \in Seq(Sudog)
    BY ChanFacts
  <2>. HIDE DEF v, w
  <2>. QED BY <1>1, <2>1, <2>2 DEF Hchans
<1>4. ASSUME NEW g \in G, ChanOp(g) PROVE ch'[c].closed
  <2>1. ASSUME NEW k, NEW s, NEW hs, DOMAIN hs = Chan, hs[c].closed, ch' = Enqueue(hs, s, k)
        PROVE  ch'[c].closed
    BY <2>1 DEF Enqueue
  <2>. QED BY <1>1, <1>2, <1>3, <1>4, <2>1 DEF ChanOp
<1>5. ASSUME NEW g \in G, Poll(g) PROVE ch'[c].closed
  <2>1. ASSUME NEW p, NEW hs, hs[c] \in Hchans(Cap(c)), hs[c].closed, ch' = EnqueueAll(hs, g, p)
        PROVE  ch'[c].closed
    BY <2>1 DEF EnqueueAll, Hchans
  <2>. QED BY <1>1, <1>2, <1>3, <1>5, <2>1 DEF Poll
<1>6. ASSUME NEW g \in G, Pass3(g) PROVE ch'[c].closed
  BY <1>1, <1>6 DEF Pass3, Hchans
<1>7. ASSUME NEW g \in G, Closechan(g) PROVE ch'[c].closed
  <2>1. \E d : ch' = ch \/ ch' = [ch EXCEPT ![d].closed = TRUE]
    BY <1>7 DEF Closechan
  <2>. QED BY <1>1, <2>1 DEF Hchans
<1>8. ASSUME NEW g \in G, ReleaseReader(g) \/ ReleaseWriter(g) \/ CloseDone(g)
      PROVE  ch'[c].closed
  <2>1. PICK d, v, w : \/ ch' = [ch EXCEPT ![d].recvq = v]
                       \/ ch' = [ch EXCEPT ![d].recvq = v, ![d].sendq = w]
    BY <1>8 DEF ReleaseReader, ReleaseWriter, CloseDone
  <2>2. CASE d = c
    BY <1>1, <2>1, <2>2 DEF Hchans
  <2>3. CASE d # c
    BY <1>1, <2>1, <2>3
  <2>. QED BY <2>2, <2>3
<1>9. ASSUME UNCHANGED ch PROVE ch'[c].closed
  BY <1>9
<1>. QED BY <1>4, <1>5, <1>6, <1>7, <1>8, <1>9, Steps
         DEF vars, FastRead, FastRead2, Handoff, Woken, Return, Sellock, WokenSelect, Invoke

\* Where the lock-free reads leave a goroutine, only it gets away from.
LEMMA BetweenReads ==
  ASSUME IInv, [Next]_vars, NEW g \in G
  PROVE  /\ pc[g] = "fast2" /\ pc'[g] = "return" => FastRead2(g)
         /\ pc[g] = "fast2" /\ pc'[g] = "fast2" => op'[g] = op[g]
         /\ pc[g] # "fast2" /\ pc'[g] = "fast2" => FastRead(g)
<1>. USE DEF IInv
<1>1. pc \in [G -> PC] /\ op \in [G -> Ops \cup {NoOp}]
  BY DEF TypeOK
<1>2. CASE UNCHANGED vars
  BY <1>2 DEF vars
<1>3. ASSUME NEW h \in G, Goto(h, "fast2") PROVE pc'[h] = "fast2" /\ \A x \in G \ {h} : pc'[x] = pc[x]
  BY <1>1, <1>3 DEF Goto
<1>4. ASSUME NEW h \in G, FastRead(h) \/ FastRead2(h)
      PROVE  /\ UNCHANGED op
             /\ h = g \/ pc'[g] = pc[g]
             /\ FastRead2(h) => pc[h] = "fast2" /\ pc'[h] # "fast2"
             /\ FastRead(h) => pc[h] = "fast"
  BY <1>1, <1>4 DEF FastRead, FastRead2, Goto
<1>5. ASSUME NEW h \in G, ChanOp(h) \/ Poll(h)
      PROVE  UNCHANGED op /\ pc[h] # "fast2" /\ pc'[h] # "fast2" /\ (h = g \/ pc'[g] = pc[g])
  <2>1. ASSUME NEW i, NEW hs, Fire(h, i, hs) PROVE Goto(h, "return") \/ Goto(h, "handoff")
    BY Zenon, <2>1 DEF Fire, SendClosed, SendToReceiver, SendToBuffer, RecvFromSender, RecvFromBuffer,
                RecvClosed
  <2>2. Goto(h, "return") \/ Goto(h, "handoff") \/ Goto(h, "parked")
    BY <1>5, <2>1 DEF ChanOp, Poll
  <2>3. UNCHANGED op /\ pc[h] # "fast2"
    BY <1>5 DEF ChanOp, Poll
  <2>. QED BY SMTT(30), <1>1, <2>2, <2>3 DEF Goto
<1>6. ASSUME NEW h \in G, Closechan(h) \/ CloseDone(h)
      PROVE  UNCHANGED op /\ pc[h] # "fast2" /\ pc'[h] # "fast2" /\ (h = g \/ pc'[g] = pc[g])
  BY <1>1, <1>6 DEF Closechan, CloseDone, Goto
<1>9. ASSUME NEW h \in G, ReleaseReader(h) \/ ReleaseWriter(h)
      PROVE  UNCHANGED op /\ pc'[g] \in {pc[g], "woken"}
  <2>1. PICK s \in Sudog : s[1] \in G /\ Release(s)
    BY <1>9, ReleaseKept
  <2>. QED BY <1>1, <2>1 DEF Release, Goto
<1>7. ASSUME NEW h \in G, Handoff(h)
      PROVE  /\ UNCHANGED op /\ pc[h] # "fast2" 
             /\ pc'[g] \in {pc[g], "return", "woken"} /\ (pc'[g] = "return" /\ h # g => pc[g] = "return")
  BY SMTT(30), <1>1, <1>7 DEF Handoff
<1>8. ASSUME NEW h \in G,
             \/ Woken(h) \/ Return(h) \/ Sellock(h) \/ WokenSelect(h) \/ Pass3(h)
             \/ \E o \in Ops : Invoke(h, o)
      PROVE  /\ pc[h] # "fast2" /\ pc'[h] # "fast2"
             /\ h = g \/ (pc'[g] = pc[g] /\ op'[g] = op[g])
  BY <1>1, <1>8 DEF Woken, Return, Sellock, WokenSelect, Pass3, Invoke, Goto
<1>. QED BY <1>2, <1>4, <1>5, <1>6, <1>7, <1>8, <1>9, Steps

\* A receiver between its reads has seen his channel at a moment when it was open and
\* not ready, or it is closed by now.
Calm == \A g \in G : pc[g] = "fast2" /\ Case(g, 1).dir = "recv" =>
  calm[g] \/ ch[Case(g, 1).c].closed

LEMMA AlwaysCalm == HSpec => [](IInv /\ Calm)
<1>1. HInit => IInv /\ Calm
  <2>1. ASSUME HInit PROVE Calm
    BY <2>1 DEF HInit, Init, Calm
  <2>. QED BY <2>1, InitIInv DEF HInit
<1>2. [HNext]_<<vars, calm>> => [Next]_vars
  BY DEF HNext
<1>3. ASSUME IInv, Calm, [HNext]_<<vars, calm>> PROVE Calm'
  <2>. SUFFICES ASSUME NEW g \in G, pc'[g] = "fast2", Case(g, 1)'.dir = "recv",
                       ~ch'[Case(g, 1)'.c].closed
                PROVE  calm'[g]
    BY DEF Calm
  <2>. DEFINE k == Case(g, 1)
  <2>1. CASE UNCHANGED <<vars, calm>>
    BY <1>3, <2>1 DEF vars, Calm, Case
  <2>2. CASE HNext /\ pc[g] = "fast2"
    <3>1. op'[g] = op[g]
      BY <1>2, <1>3, <2>2, BetweenReads
    <3>2. Case(g, 1)' = k /\ k.c \in Chan
      BY <1>3, <2>2, <3>1, CallFacts DEF IInv, Case
    <3>3. ~ch[k.c].closed
      <4>. PICK c \in Chan : c = k.c
        BY <3>2
      <4>. HIDE DEF k
      <4>. QED BY <1>2, <1>3, <3>2, ClosedStays
    <3>. QED BY <1>3, <2>2, <3>2, <3>3 DEF Calm, HNext
  <2>3. CASE HNext /\ pc[g] # "fast2"
    <3>1. FastRead(g)
      BY <1>2, <1>3, <2>3, BetweenReads
    <3>2. /\ pc[g] = "fast" /\ UNCHANGED <<ch, op, done>> /\ pc \in [G -> PC]
      BY <1>3, <3>1 DEF FastRead, IInv, TypeOK
    <3>3. Case(g, 1)' = k /\ k.c \in Chan /\ k.dir = "recv" /\ ~ch[k.c].closed
      BY <1>3, <3>2, CallFacts DEF IInv, Case
    <3>. PICK c \in Chan : c = k.c
      BY <3>3
    <3>. DEFINE w == ch[c].sendq
    <3>4. IF Cap(c) = 0 THEN w = <<>> ELSE ch[c].qcount = 0
      <4>1. GlanceFails(g, ClosedFirst(k.dir))
        BY <3>1, <3>2 DEF FastRead, Goto
      <4>. QED BY <3>3, <4>1 DEF GlanceFails, ClosedFirst, NotReadyAtAGlance
    <3>5. w \in Seq(Sudog) /\ IsInjective(w) /\ ch[c].qcount \in 0..Cap(c) /\ Cap(c) \in Nat
      BY <1>3, ChanFacts DEF IInv, Queued, InQueue
    <3>6. ch[c].qcount = 0
      BY <3>4, <3>5
    <3>7. Claim(w) = 0
      <4>1. Claim(w) \in Nat /\ (Claim(w) > 0 => w[Claim(w)] \in ToSet(w) /\ ~done[w[Claim(w)][1]])
        BY <3>5, ClaimFacts
      <4>2. ASSUME NEW s \in ToSet(w), ~done[s[1]] PROVE FALSE
        <5>1. ch[c].qcount = Cap(c)
          BY <1>3, <4>2, Unclaimed
        <5>2. w = <<>>
          BY <3>4, <3>6, <5>1
        <5>. QED BY <3>5, <4>2, <5>2, Listed
      <4>. QED BY <4>1, <4>2
    <3>8. OpenNotReady(g)
      <4>. HIDE DEF k
      <4>1. ~Ready(ch[c], c, "recv")
        BY <3>3, <3>6, <3>7 DEF Ready
      <4>. QED BY <3>3, <4>1 DEF OpenNotReady, k
    <3>. QED BY <2>3, <3>2, <3>8 DEF HNext
  <2>. QED BY <1>3, <2>1, <2>2, <2>3
<1>4. IInv /\ Calm /\ [HNext]_<<vars, calm>> => IInv' /\ Calm'
  BY <1>2, <1>3, NextIInv
<1>. QED BY <1>1, <1>4, PTL DEF HSpec

\* The two reads of a receive that does not block are not atomic, and others work on the
\* channel between them: when it gives up there was nevertheless a moment in its call
\* when the channel was open and had nothing for it.
THEOREM GivesUpRightly == HSpec => RecvGivesUpRightly
<1>1. ASSUME IInv, Calm, [HNext]_<<vars, calm>>
      PROVE  [\A g \in G : RecvGivesUp(g) => calm[g]]_vars
  <2>. SUFFICES ASSUME NEW g \in G, RecvGivesUp(g) PROVE calm[g]
    OBVIOUS
  <2>1. [Next]_vars
    BY <1>1 DEF HNext
  <2>2. FastRead2(g) /\ pc[g] = "fast2" /\ Case(g, 1).dir = "recv"
    BY <1>1, <2>1, BetweenReads DEF RecvGivesUp
  <2>3. GlanceFails(g, TRUE)
    BY <1>1, <2>2 DEF FastRead2, ClosedFirst, RecvGivesUp, Goto, IInv, TypeOK
  <2>. QED BY <1>1, <2>2, <2>3 DEF Calm, GlanceFails
<1>. QED BY <1>1, AlwaysCalm, PTL DEF HSpec, RecvGivesUpRightly

-----------------------------------------------------------------------------
\* That Chan implements ChanSpec.  First the buffer of a channel's record: a ring, and
\* what it holds in order.
Queue(h) == [i \in 1..h.qcount |-> h.buf[(h.recvx + i - 1) % h.dataqsiz]]
RingOf(h) == h.dataqsiz > 0 => h.sendx = (h.recvx + h.qcount) % h.dataqsiz

\* Where a walk of k places round a ring of n from its first comes to.
Spot(n, k) == IF k < n THEN k ELSE k - n

LEMMA Wrap ==
  ASSUME NEW n \in Nat \ {0}, NEW k \in Nat, k < n + n
  PROVE  k % n = Spot(n, k) /\ Spot(n, k) \in 0..n - 1
<1>1. CASE k \in 0..n - 1
  <2>1. k % n = k
    BY <1>1
  <2>. QED BY <1>1, <2>1 DEF Spot
<1>2. CASE k \in n..2 * n - 1
  <2>1. k % n = k - n
    BY <1>2
  <2>. QED BY <1>2, <2>1 DEF Spot
<1>. QED BY <1>1, <1>2

LEMMA RingFacts ==
  ASSUME NEW n \in Nat, NEW h \in Hchans(n)
  PROVE  /\ h.dataqsiz = n /\ h.qcount \in 0..n
         /\ n > 0 => /\ h.recvx \in 0..n - 1 /\ h.sendx \in 0..n - 1
                     /\ (h.recvx + 1) % n = Spot(n, h.recvx + 1)
                     /\ (h.sendx + 1) % n = Spot(n, h.sendx + 1)
                     /\ RingOf(h) <=> h.sendx = Spot(n, h.recvx + h.qcount)
         /\ h.buf \in [0..n - 1 -> Value]
         /\ \A i \in 1..h.qcount : LET j == Spot(n, h.recvx + i - 1) IN
              j \in 0..n - 1 /\ Queue(h)[i] = h.buf[j]
         /\ Queue(h) \in Seq(Value) /\ Len(Queue(h)) = h.qcount
<1>1. /\ h.dataqsiz = n /\ h.qcount \in 0..n
      /\ n > 0 => h.recvx \in 0..n - 1 /\ h.sendx \in 0..n - 1
      /\ h.buf \in [0..n - 1 -> Value]
  BY DEF Hchans
<1>2. ASSUME n > 0
      PROVE  /\ (h.recvx + 1) % n = Spot(n, h.recvx + 1)
             /\ (h.sendx + 1) % n = Spot(n, h.sendx + 1)
             /\ RingOf(h) <=> h.sendx = Spot(n, h.recvx + h.qcount)
  <2>1. h.recvx + 1 \in Nat /\ h.recvx + 1 < n + n
    BY <1>1, <1>2
  <2>2. h.sendx + 1 \in Nat /\ h.sendx + 1 < n + n
    BY <1>1, <1>2
  <2>3. h.recvx + h.qcount \in Nat /\ h.recvx + h.qcount < n + n
    BY <1>1, <1>2
  <2>4. (h.recvx + 1) % n = Spot(n, h.recvx + 1)
    BY <1>2, <2>1, Wrap
  <2>5. (h.sendx + 1) % n = Spot(n, h.sendx + 1)
    BY <1>2, <2>2, Wrap
  <2>6. (h.recvx + h.qcount) % n = Spot(n, h.recvx + h.qcount)
    BY <1>2, <2>3, Wrap
  <2>. QED BY <1>1, <1>2, <2>4, <2>5, <2>6 DEF RingOf
<1>3. ASSUME NEW i \in 1..h.qcount
      PROVE  LET j == Spot(n, h.recvx + i - 1) IN j \in 0..n - 1 /\ Queue(h)[i] = h.buf[j]
  <2>1. n \in Nat \ {0} /\ h.recvx + i - 1 \in Nat /\ h.recvx + i - 1 < n + n
    BY <1>1
  <2>2. Queue(h)[i] = h.buf[(h.recvx + i - 1) % n]
    BY <1>1 DEF Queue
  <2>. QED BY <2>1, <2>2, Wrap
<1>4. \A i \in 1..h.qcount : Queue(h)[i] \in Value
  BY <1>1, <1>3
<1>5. DOMAIN Queue(h) = 1..h.qcount /\ h.qcount \in Nat
  BY <1>1 DEF Queue
<1>6. Queue(h) \in Seq(Value)
  <2>. DEFINE f == [i \in 1..h.qcount |-> Queue(h)[i]]
  <2>1. Queue(h) = f
    BY DEF Queue
  <2>2. f \in Seq(Value)
    <3>. DEFINE e(i) == Queue(h)[i]
    <3>1. \A i \in 1..h.qcount : e(i) \in Value
      BY <1>4
    <3>2. f = [i \in 1..h.qcount |-> e(i)]
      OBVIOUS
    <3>. HIDE DEF e, f
    <3>. QED BY <1>5, <3>1, <3>2, IsASeq
  <2>. HIDE DEF f
  <2>. QED BY <2>1, <2>2
<1>7. Len(Queue(h)) = h.qcount
  BY <1>5, <1>6, LenProperties
<1>. QED BY <1>1, <1>2, <1>3, <1>6, <1>7

LEMMA RingSends ==
  ASSUME NEW n \in Nat, NEW h \in Hchans(n), NEW b \in Hchans(n), NEW v \in Value,
         h.qcount < n, RingOf(h), b.buf = [h.buf EXCEPT ![h.sendx] = v],
         b.recvx = h.recvx, b.qcount = h.qcount + 1, b.sendx = (h.sendx + 1) % n
  PROVE  Queue(b) = Append(Queue(h), v) /\ RingOf(b)
<1>. DEFINE m == h.qcount  r == h.recvx  s == h.sendx
<1>1. /\ n > 0 /\ m \in 0..n - 1 /\ r \in 0..n - 1 /\ s \in 0..n - 1
      /\ s = Spot(n, r + m) /\ b.sendx = Spot(n, s + 1)
      /\ b.recvx = r /\ b.qcount = m + 1
  BY RingFacts
<1>2. /\ Queue(h) \in Seq(Value) /\ Len(Queue(h)) = m
      /\ Queue(b) \in Seq(Value) /\ Len(Queue(b)) = m + 1
      /\ \A i \in 1..h.qcount : LET j == Spot(n, h.recvx + i - 1) IN
           j \in 0..n - 1 /\ Queue(h)[i] = h.buf[j]
      /\ \A i \in 1..b.qcount : LET j == Spot(n, b.recvx + i - 1) IN
           j \in 0..n - 1 /\ Queue(b)[i] = b.buf[j]
  BY <1>1, RingFacts
<1>3. RingOf(b)
  <2>1. Spot(n, s + 1) = Spot(n, r + (m + 1))
    BY <1>1 DEF Spot
  <2>. QED BY <1>1, <2>1, RingFacts
<1>4. ASSUME NEW i \in 1..m + 1 PROVE Queue(b)[i] = Append(Queue(h), v)[i]
  <2>. DEFINE j == Spot(n, r + i - 1)
  <2>1. j \in 0..n - 1 /\ Queue(b)[i] = b.buf[j]
    BY <1>1, <1>2
  <2>2. h.buf \in [0..n - 1 -> Value]
    BY RingFacts
  <2>3. CASE i \in 1..m
    <3>1. j # s
      BY <1>1, <2>3 DEF Spot
    <3>2. Queue(h)[i] = h.buf[j]
      BY <1>2, <2>3
    <3>3. Append(Queue(h), v)[i] = Queue(h)[i]
      BY <1>2, <2>3, AppendProperties
    <3>. HIDE DEF j
    <3>. QED BY <2>1, <2>2, <3>1, <3>2, <3>3
  <2>4. CASE i = m + 1
    <3>1. j = s
      BY <1>1, <2>4 DEF Spot
    <3>2. Append(Queue(h), v)[i] = v
      BY <1>2, <2>4, AppendProperties
    <3>. HIDE DEF j
    <3>. QED BY <1>1, <2>1, <2>2, <3>1, <3>2
  <2>5. i \in 1..m \/ i = m + 1
    BY <1>1
  <2>. QED BY <2>3, <2>4, <2>5
<1>5. Append(Queue(h), v) \in Seq(Value) /\ Len(Append(Queue(h), v)) = m + 1
  BY <1>2, AppendProperties
<1>. QED BY <1>2, <1>3, <1>4, <1>5, SeqEqual

LEMMA RingReceives ==
  ASSUME NEW n \in Nat, NEW h \in Hchans(n), NEW b \in Hchans(n), NEW v \in Value,
         h.qcount > 0, RingOf(h), b.buf = [h.buf EXCEPT ![h.recvx] = v],
         b.recvx = (h.recvx + 1) % n, b.qcount = h.qcount - 1, b.sendx = h.sendx
  PROVE  /\ Queue(h) # <<>> /\ Head(Queue(h)) = h.buf[h.recvx]
         /\ Queue(b) = Tail(Queue(h)) /\ RingOf(b)
<1>. DEFINE m == h.qcount  r == h.recvx  s == h.sendx  x == b.recvx
<1>1. /\ n > 0 /\ m \in 1..n /\ r \in 0..n - 1 /\ s \in 0..n - 1
      /\ s = Spot(n, r + m) /\ x = Spot(n, r + 1) /\ b.sendx = s /\ b.qcount = m - 1
  BY RingFacts
<1>2. /\ Queue(h) \in Seq(Value) /\ Len(Queue(h)) = m
      /\ Queue(b) \in Seq(Value) /\ Len(Queue(b)) = m - 1
      /\ \A i \in 1..h.qcount : LET j == Spot(n, h.recvx + i - 1) IN
           j \in 0..n - 1 /\ Queue(h)[i] = h.buf[j]
      /\ \A i \in 1..b.qcount : LET j == Spot(n, b.recvx + i - 1) IN
           j \in 0..n - 1 /\ Queue(b)[i] = b.buf[j]
  BY <1>1, RingFacts
<1>3. RingOf(b)
  <2>1. s = Spot(n, x + (m - 1))
    BY <1>1 DEF Spot
  <2>. QED BY <1>1, <2>1, RingFacts
<1>4. Queue(h) # <<>>
  BY <1>1, <1>2, EmptySeq
<1>5. Head(Queue(h)) = h.buf[r]
  <2>1. Spot(n, r + 1 - 1) = r /\ 1 \in 1..m
    BY <1>1 DEF Spot
  <2>2. Queue(h)[1] = h.buf[Spot(n, r + 1 - 1)]
    BY <1>2, <2>1
  <2>. QED BY <1>2, <1>4, <2>1, <2>2, HeadTailProperties
<1>6. /\ Tail(Queue(h)) \in Seq(Value) /\ Len(Tail(Queue(h))) = m - 1
      /\ \A i \in 1..m - 1 : Tail(Queue(h))[i] = Queue(h)[i + 1]
  BY <1>2, <1>4, HeadTailProperties
<1>7. ASSUME NEW i \in 1..m - 1 PROVE Queue(b)[i] = Tail(Queue(h))[i]
  <2>. DEFINE j == Spot(n, x + i - 1)  l == Spot(n, r + (i + 1) - 1)
  <2>1. j \in 0..n - 1 /\ Queue(b)[i] = b.buf[j]
    BY <1>1, <1>2
  <2>2. i + 1 \in 1..m
    BY <1>1
  <2>3. Queue(h)[i + 1] = h.buf[l]
    BY <1>2, <2>2
  <2>4. j = l /\ l # r
    BY <1>1 DEF Spot
  <2>5. h.buf \in [0..n - 1 -> Value]
    BY RingFacts
  <2>. HIDE DEF j, l
  <2>. QED BY <1>6, <2>1, <2>3, <2>4, <2>5
<1>. QED BY <1>2, <1>3, <1>4, <1>5, <1>6, <1>7, SeqEqual

LEMMA RingTurns ==
  ASSUME NEW n \in Nat, NEW h \in Hchans(n), NEW b \in Hchans(n), NEW v \in Value,
         n > 0, h.qcount = n, b.buf = [h.buf EXCEPT ![h.recvx] = v],
         b.recvx = (h.recvx + 1) % n, b.qcount = n, b.sendx = b.recvx
  PROVE  /\ Head(Append(Queue(h), v)) = h.buf[h.recvx]
         /\ Queue(b) = Tail(Append(Queue(h), v)) /\ RingOf(b)
<1>. DEFINE r == h.recvx  x == b.recvx  w == Append(Queue(h), v)
<1>1. r \in 0..n - 1 /\ x = Spot(n, r + 1)
  BY RingFacts
<1>2. /\ Queue(h) \in Seq(Value) /\ Len(Queue(h)) = n
      /\ Queue(b) \in Seq(Value) /\ Len(Queue(b)) = n
      /\ \A i \in 1..h.qcount : LET j == Spot(n, h.recvx + i - 1) IN
           j \in 0..n - 1 /\ Queue(h)[i] = h.buf[j]
      /\ \A i \in 1..b.qcount : LET j == Spot(n, b.recvx + i - 1) IN
           j \in 0..n - 1 /\ Queue(b)[i] = b.buf[j]
  BY RingFacts
<1>3. RingOf(b)
  <2>1. x = Spot(n, x + n)
    BY <1>1 DEF Spot
  <2>. QED BY <2>1, RingFacts
<1>4. /\ w \in Seq(Value) /\ Len(w) = n + 1 /\ \A i \in 1..n : w[i] = Queue(h)[i]
      /\ w[n + 1] = v
  BY <1>2, AppendProperties
<1>. HIDE DEF w
<1>5. w # <<>>
  BY <1>4, EmptySeq
<1>6. Head(w) = h.buf[r]
  <2>1. Spot(n, r + 1 - 1) = r /\ 1 \in 1..n
    BY <1>1 DEF Spot
  <2>2. Queue(h)[1] = h.buf[Spot(n, r + 1 - 1)]
    BY <1>2, <2>1
  <2>3. w[1] = Queue(h)[1]
    BY <1>4, <2>1
  <2>. QED BY <1>4, <1>5, <2>1, <2>2, <2>3, HeadTailProperties
<1>7. /\ Tail(w) \in Seq(Value) /\ Len(Tail(w)) = n
      /\ \A i \in 1..n : Tail(w)[i] = w[i + 1]
  BY <1>4, <1>5, HeadTailProperties
<1>8. ASSUME NEW i \in 1..n PROVE Queue(b)[i] = Tail(w)[i]
  <2>. DEFINE j == Spot(n, x + i - 1)  l == Spot(n, r + (i + 1) - 1)
  <2>1. j \in 0..n - 1 /\ Queue(b)[i] = b.buf[j]
    BY <1>2
  <2>2. h.buf \in [0..n - 1 -> Value]
    BY RingFacts
  <2>3. CASE i < n
    <3>1. i + 1 \in 1..n
      BY <2>3
    <3>2. Queue(h)[i + 1] = h.buf[l]
      BY <1>2, <3>1
    <3>3. j = l /\ l # r
      BY <1>1, <2>3 DEF Spot
    <3>4. Tail(w)[i] = Queue(h)[i + 1]
      BY <1>4, <1>7, <3>1
    <3>. HIDE DEF j, l
    <3>. QED BY <2>1, <2>2, <3>2, <3>3, <3>4
  <2>4. CASE i = n
    <3>1. j = r
      BY <1>1, <2>4 DEF Spot
    <3>2. Tail(w)[i] = v
      BY <1>4, <1>7, <2>4
    <3>. HIDE DEF j
    <3>. QED BY <2>1, <2>2, <3>1, <3>2
  <2>5. i < n \/ i = n
    OBVIOUS
  <2>. QED BY <2>3, <2>4, <2>5
<1>9. Queue(b) = Tail(w)
  BY <1>2, <1>7, <1>8, SeqEqual
<1>. QED BY <1>3, <1>6, <1>9 DEF w

\* Beyond IInv.  What a goroutine knows of its call: nothing until it is settled; then
\* param and elem, if another goroutine settled it for it, and ret.
Tells(g) ==
  /\ op[g] = NoOp <=> pc[g] = "idle"
  /\ pc[g] \in {"fast", "fast2"} => ~op[g].block
  /\ pc[g] \notin {"handoff", "closing", "return"} => ret[g] = Pending
  /\ pc[g] = "closing" => ret[g] = <<1, "ok">>
  /\ pc[g] = "return" => ret[g][2] # "pending"
  /\ param[g] # <<>> =>
       /\ pc[g] \in {"woken", "relock", "pass3"} /\ param[g][2] \in DOMAIN op[g].cases
       /\ Case(g, param[g][2]).dir # "recv" => elem[g] = NoVal
  /\ elem[g] # NoVal => pc[g] \in {"handoff", "return"} \/ param[g] # <<>>

\* Who wakes without a sudog that fired was woken by a close, which found a receiver's
\* buffer empty; and a close wakes nobody before the channel is closed.
Shut(g) == LET k == Case(g, 1) IN
  /\ pc[g] = "woken" /\ ~op[g].sel /\ param[g] = <<>> =>
       k.dir \in {"send", "recv"} /\ ch[k.c].closed /\ (k.dir = "recv" => ch[k.c].qcount = 0)
  /\ pc[g] = "closing" => ch[k.c].closed

\* Who hands over has settled his own case, and the one it meets.
Hands(g) == pc[g] = "handoff" => LET s == hand[g]  i == ret[g][1] IN
  /\ ret[g][2] = "ok" /\ i \in DOMAIN op[g].cases /\ s[2] \in DOMAIN op[s[1]].cases
  /\ \/ Case(g, i).dir = "send" /\ Case(s[1], s[2]).dir = "recv" /\ elem[g] = NoVal
     \/ Case(g, i).dir = "recv" /\ Case(s[1], s[2]).dir = "send"

RInv == /\ IInv /\ \A g \in G : Tells(g) /\ Shut(g) /\ Hands(g)
        /\ \A c \in Chan : RingOf(ch[c])

LEMMA NotWoken ==
  ASSUME IInv, NEW g \in G, pc[g] # "parked"
  PROVE  Wakers(g) = {}
BY DEF IInv, Handoffs, Wakers

\* A call that nobody has settled.
LEMMA Unsettled ==
  ASSUME RInv, NEW g \in G, Wakers(g) = {}, pc[g] \notin {"handoff", "closing", "return"},
         param[g] = <<>>
  PROVE  Outcome(g) = A!Pending /\ ret[g] = Pending /\ elem[g] = NoVal
BY DEF RInv, Tells, Outcome, A!Pending, Pending

LEMMA ParkedParam ==
  ASSUME RInv, NEW g \in G, pc[g] \notin {"woken", "relock", "pass3"}
  PROVE  param[g] = <<>>
BY DEF RInv, Tells

\* No step makes a channel another size, opens it, or sends to it when it is closed.
ChansKeep == \A c \in Chan :
  /\ Cap(c)' = Cap(c)
  /\ ch[c].closed => ch'[c].closed /\ (ch[c].qcount = 0 => ch'[c].qcount = 0)

\* A step by the goroutines in S.
Frame(S) ==
  /\ \A h \in G \ S :
       /\ pc'[h] = pc[h] /\ op'[h] = op[h] /\ ret'[h] = ret[h]
       /\ param'[h] = param[h] /\ elem'[h] = elem[h] /\ hand'[h] = hand[h]
       /\ Wakers(h)' = Wakers(h) /\ Wakers(h) \cap S = {}
  /\ \A h \in G : pc[h] = "parked" => op'[h] = op[h]
  /\ \A h \in G : pc[h] \in {"parked", "handoff"} => calls'[h] = calls[h]
  /\ ChansKeep

LEMMA Bystanders ==
  ASSUME RInv, NEW S, Frame(S), NEW h \in G \ S
  PROVE  Tells(h)' /\ Shut(h)' /\ Hands(h)' /\ Outcome(h)' = Outcome(h)
<1>. USE DEF RInv
<1>1. /\ pc'[h] = pc[h] /\ op'[h] = op[h] /\ ret'[h] = ret[h]
      /\ param'[h] = param[h] /\ elem'[h] = elem[h] /\ hand'[h] = hand[h]
      /\ Wakers(h)' = Wakers(h) /\ Wakers(h) \cap S = {}
  BY DEF Frame
<1>2. Tells(h)'
  BY <1>1 DEF Tells, Case
<1>3. Shut(h)'
  <2>1. pc[h] \in {"woken", "closing"} => Case(h, 1).c \in Chan
    BY CallFacts DEF IInv
  <2>. QED BY <1>1, <2>1 DEF Shut, Case, Frame, ChansKeep
<1>4. pc[h] = "handoff" => hand[h][1] \in G /\ pc[hand[h][1]] = "parked"
  BY HandFacts DEF IInv, Handoffs
<1>5. Hands(h)'
  <2>1. pc[h] = "handoff" => op'[hand[h][1]] = op[hand[h][1]]
    BY <1>4 DEF Frame
  <2>. QED BY <1>1, <2>1 DEF Hands, Case
<1>6. CASE Wakers(h) # {}
  <2>1. PICK w \in Wakers(h) : w = (CHOOSE x \in Wakers(h) : TRUE)
    BY <1>6
  <2>2. w \in G \ S /\ pc[w] = "handoff"
    BY <1>1 DEF Wakers
  <2>3. hand'[w] = hand[w] /\ calls'[w] = calls[w]
    BY <2>2 DEF Frame
  <2>. DEFINE receives(i, v) == IF Case(h, i).dir = "recv" THEN v ELSE NoVal
  <2>4. Outcome(h) = <<hand[w][2], "ok", receives(hand[w][2], Val(w))>>
    BY <1>6, <2>1 DEF Outcome
  <2>5. Outcome(h)' = <<hand[w][2], "ok", receives(hand[w][2], Val(w))>>
    BY <1>1, <1>6, <2>1, <2>3 DEF Outcome, Case, Val
  <2>. QED BY <1>2, <1>3, <1>5, <2>4, <2>5
<1>7. CASE Wakers(h) = {}
  <2>1. pc[h] = "handoff" => /\ Cap(Case(h, ret[h][1]).c)' = Cap(Case(h, ret[h][1]).c)
                             /\ calls'[hand[h][1]] = calls[hand[h][1]]
    <3>1. pc[h] = "handoff" => Case(h, ret[h][1]).c \in Chan /\ Case(h, ret[h][1])' = Case(h, ret[h][1])
      BY <1>1, CallFacts DEF Hands, IInv, Case
    <3>. QED BY <1>4, <3>1 DEF Frame, ChansKeep
  <2>2. Outcome(h)' = Outcome(h)
    BY <1>1, <1>7, <2>1 DEF Outcome, Case, Val
  <2>. QED BY <1>2, <1>3, <1>5, <2>2
<1>. QED BY <1>6, <1>7

\* The step keeps what is to be kept, and ChanSpec allows it.
Simulates == A!Next \/ UNCHANGED A!vars

LEMMA Keeps ==
  ASSUME RInv, IInv', NEW S \in SUBSET G, Frame(S),
         \A h \in S : Tells(h)' /\ Shut(h)' /\ Hands(h)',
         \A c \in Chan : RingOf(ch'[c])
  PROVE  RInv'
<1>1. \A h \in G \ S : Tells(h)' /\ Shut(h)' /\ Hands(h)'
  BY Bystanders
<1>. QED BY <1>1 DEF RInv

\* A step of g that claims nobody.
Others(g) == \A h \in G \ {g} :
  /\ op'[h] = op[h] /\ calls'[h] = calls[h] /\ ret'[h] = ret[h]
  /\ param'[h] = param[h] /\ elem'[h] = elem[h]

LEMMA Alone ==
  ASSUME RInv, NEW g \in G, pc[g] \notin {"parked", "handoff"},
         NEW l, l # "handoff", Goto(g, l), UNCHANGED hand, Others(g), ChansKeep
  PROVE  Frame({g}) /\ Wakers(g) = {} /\ Wakers(g)' = {} /\ pc'[g] = l
<1>1. pc \in [G -> PC]
  BY DEF RInv, IInv, TypeOK
<1>2. pc'[g] = l /\ \A h \in G \ {g} : pc'[h] = pc[h]
  BY <1>1 DEF Goto
<1>3. \A h \in G : Wakers(h)' = Wakers(h) /\ g \notin Wakers(h)
  BY <1>2 DEF Wakers
<1>4. Wakers(g) = {}
  BY NotWoken DEF RInv
<1>. QED BY <1>2, <1>3, <1>4 DEF Frame, Others

\* The data of a channel: all but who waits.
Same(h, b) ==
  /\ b.dataqsiz = h.dataqsiz /\ b.qcount = h.qcount /\ b.recvx = h.recvx
  /\ b.sendx = h.sendx /\ b.buf = h.buf /\ b.closed = h.closed

LEMMA Undisturbed ==
  ASSUME NEW c, Same(ch[c], ch'[c])
  PROVE  /\ Cap(c)' = Cap(c) /\ Contents(c)' = Contents(c) /\ ch'[c].closed = ch[c].closed
         /\ ch'[c].qcount = ch[c].qcount
         /\ RingOf(ch[c]) => RingOf(ch'[c])
BY DEF Same, Cap, Contents, RingOf

LEMMA Stutters ==
  ASSUME \A c \in Chan : Same(ch[c], ch'[c]), UNCHANGED <<op, calls>>,
         \A h \in G : Outcome(h)' = Outcome(h)
  PROVE  UNCHANGED A!vars
<1>1. \A c \in Chan : Cap(c)' = Cap(c) /\ Contents(c)' = Contents(c) /\ ch'[c].closed = ch[c].closed
  BY Undisturbed
<1>. QED BY <1>1 DEF A!vars

LEMMA Wanted ==
  ASSUME RInv, NEW g \in G, pc[g] # "idle", Outcome(g) = A!Pending, NEW dir
  PROVE  /\ A!Wants(g, dir) = {<<i, Case(g, i).c>> : i \in {j \in DOMAIN op[g].cases : Case(g, j).dir = dir}}
         /\ op[g] # NoOp
<1>1. op[g] # NoOp
  BY DEF RInv, Tells
<1>. QED BY <1>1 DEF A!Wants, Case

LEMMA Wants ==
  ASSUME RInv, NEW g \in G, pc[g] # "idle", Outcome(g) = A!Pending,
         NEW i \in DOMAIN op[g].cases
  PROVE  <<i, Case(g, i).c>> \in A!Wants(g, Case(g, i).dir)
BY Wanted

\* A step after which g's call is settled, and the others' are what they were.
LEMMA Settles ==
  ASSUME NEW g \in G, NEW i, NEW what, NEW v, Outcome(g)' = <<i, what, v>>,
         \A h \in G \ {g} : Outcome(h)' = Outcome(h)
  PROVE  A!Settle(g, i, what, v)
BY DEF A!Settle

LEMMA SpecSteps ==
  ASSUME \A c \in Chan : Cap(c)' = Cap(c), NEW g \in G,
         \/ A!Send(g) \/ A!Recv(g) \/ A!RecvClosed(g) \/ A!Panic(g) \/ A!Close(g)
         \/ A!GiveUp(g) \/ A!Return(g) \/ (\E o \in Ops : A!Invoke(g, o))
         \/ (\E h \in G : A!Meet(g, h))
  PROVE  Simulates
<1>1. A!Step(g)
  BY DEF A!Step
<1>. QED BY <1>1 DEF Simulates, A!Next

-----------------------------------------------------------------------------
\* Steps that leave the channels' data alone.
LEMMA StillSame == \A c \in Chan : ch'[c] = ch[c] => Same(ch[c], ch'[c])
BY DEF Same

LEMMA QuietStep ==
  ASSUME RInv, IInv', NEW g \in G, Frame({g}), \A c \in Chan : Same(ch[c], ch'[c]),
         UNCHANGED <<op, calls>>, Tells(g)', Shut(g)', Hands(g)', Outcome(g)' = Outcome(g)
  PROVE  RInv' /\ Simulates
<1>1. RInv'
  <2>1. \A c \in Chan : RingOf(ch'[c])
    BY Undisturbed DEF RInv
  <2>. QED BY <2>1, Keeps
<1>2. \A h \in G : Outcome(h)' = Outcome(h)
  BY Bystanders
<1>3. UNCHANGED A!vars
  BY <1>2, Stutters
<1>. QED BY <1>1, <1>3 DEF Simulates

\* A step of g that settles its call.
LEMMA SettlingStep ==
  ASSUME RInv, IInv', NEW g \in G, Frame({g}), \A c \in Chan : Same(ch[c], ch'[c]),
         UNCHANGED <<op, calls>>, Tells(g)', Shut(g)', Hands(g)',
         pc[g] # "idle", Outcome(g) = A!Pending,
         NEW i, NEW what, Outcome(g)' = <<i, what, NoVal>>,
         \/ /\ what = "panic" /\ i \in DOMAIN op[g].cases
            /\ Case(g, i).dir \in {"send", "close"} /\ ch[Case(g, i).c].closed
         \/ /\ what = "closed" /\ i \in DOMAIN op[g].cases
            /\ Case(g, i).dir = "recv" /\ ch[Case(g, i).c].closed /\ ch[Case(g, i).c].qcount = 0
         \/ /\ what = "default" /\ i = 0 /\ ~op[g].block
            /\ op[g].sel => \A j \in DOMAIN op[g].cases : LET k == Case(g, j) IN
                              ~Ready(ch[k.c], k.c, k.dir)
  PROVE  RInv' /\ Simulates
<1>. USE DEF RInv
<1>1. RInv'
  <2>1. \A c \in Chan : RingOf(ch'[c])
    BY Undisturbed
  <2>. QED BY <2>1, Keeps
<1>2. A!Settle(g, i, what, NoVal)
  BY Bystanders, Settles
<1>3. \A c \in Chan : Cap(c)' = Cap(c) /\ Contents(c)' = Contents(c) /\ ch'[c].closed = ch[c].closed
  BY Undisturbed
<1>. DEFINE qs == [c \in Chan |-> Contents(c)]
            cl == [c \in Chan |-> ch[c].closed]
<1>4. UNCHANGED <<qs, cl, op, calls>>
  BY <1>3
<1>5. \A j \in DOMAIN op[g].cases : Case(g, j).c \in Chan
  BY CallFacts DEF IInv
<1>6. \A c \in Chan : Len(Contents(c)) = ch[c].qcount /\ (ch[c].qcount = 0 <=> Contents(c) = <<>>)
                      /\ ch[c].qcount \in 0..Cap(c) /\ Cap(c) \in Nat
  <2>. SUFFICES ASSUME NEW c \in Chan
                PROVE  Len(Contents(c)) = ch[c].qcount /\ (ch[c].qcount = 0 <=> Contents(c) = <<>>)
                       /\ ch[c].qcount \in 0..Cap(c) /\ Cap(c) \in Nat
    OBVIOUS
  <2>1. ch[c] \in Hchans(Cap(c)) /\ Cap(c) \in Nat /\ ch[c].qcount \in 0..Cap(c)
    BY ChanFacts DEF IInv
  <2>2. Contents(c) = Queue(ch[c])
    BY DEF Contents, Queue, Cap
  <2>3. Contents(c) \in Seq(Value) /\ Len(Contents(c)) = ch[c].qcount
    BY <2>1, <2>2, RingFacts
  <2>. QED BY <2>1, <2>3, EmptySeq
<1>7. CASE what = "panic"
  <2>1. <<i, Case(g, i).c>> \in A!Wants(g, "send") \cup A!Wants(g, "close")
    BY <1>7, Wanted
  <2>2. A!Panic(g)
    BY <1>2, <1>4, <1>5, <1>7, <2>1 DEF A!Panic
  <2>. QED BY <1>1, <1>3, <2>2, SpecSteps
<1>8. CASE what = "closed"
  <2>1. <<i, Case(g, i).c>> \in A!Wants(g, "recv")
    BY <1>8, Wanted
  <2>2. A!RecvClosed(g)
    BY <1>2, <1>4, <1>5, <1>6, <1>8, <2>1 DEF A!RecvClosed
  <2>. QED BY <1>1, <1>3, <2>2, SpecSteps
<1>9. CASE what = "default"
  <2>1. op[g] # NoOp
    BY Wanted
  <2>2. ASSUME op[g].sel
        PROVE  /\ \A w \in A!Wants(g, "send") : ~ch[w[2]].closed /\ Len(Contents(w[2])) = Cap(w[2]) /\ w[2] \in Chan
               /\ \A w \in A!Wants(g, "recv") : ~ch[w[2]].closed /\ Contents(w[2]) = <<>> /\ w[2] \in Chan
    <3>1. ASSUME NEW w \in A!Wants(g, "send")
          PROVE  ~ch[w[2]].closed /\ Len(Contents(w[2])) = Cap(w[2]) /\ w[2] \in Chan
      <4>1. PICK j \in DOMAIN op[g].cases : Case(g, j).dir = "send" /\ w[2] = Case(g, j).c
        BY Wanted
      <4>. PICK c \in Chan : c = w[2]
        BY <1>5, <4>1
      <4>2. ~Ready(ch[c], c, "send")
        BY <1>9, <2>2, <4>1
      <4>. QED BY <1>6, <4>2 DEF Ready
    <3>2. ASSUME NEW w \in A!Wants(g, "recv")
          PROVE  ~ch[w[2]].closed /\ Contents(w[2]) = <<>> /\ w[2] \in Chan
      <4>1. PICK j \in DOMAIN op[g].cases : Case(g, j).dir = "recv" /\ w[2] = Case(g, j).c
        BY Wanted
      <4>. PICK c \in Chan : c = w[2]
        BY <1>5, <4>1
      <4>2. ~Ready(ch[c], c, "recv")
        BY <1>9, <2>2, <4>1
      <4>. QED BY <1>6, <4>2 DEF Ready
    <3>. QED BY <3>1, <3>2
  <2>3. A!GiveUp(g)
    BY <1>2, <1>4, <1>9, <2>1, <2>2 DEF A!GiveUp
  <2>. QED BY <1>1, <1>3, <2>3, SpecSteps
<1>. QED BY <1>7, <1>8, <1>9

LEMMA Untouched ==
  ASSUME \A c \in Chan : Same(ch[c], ch'[c])
  PROVE  ChansKeep
BY Undisturbed DEF ChansKeep

LEMMA FastReadRefines ==
  ASSUME RInv, IInv', NEW g \in G, FastRead(g)
  PROVE  RInv' /\ Simulates
<1>1. /\ pc[g] = "fast" /\ UNCHANGED <<ch, op, calls, hand, param, elem, ret>>
      /\ pc \in [G -> PC]
  BY DEF FastRead, RInv, IInv, TypeOK
<1>2. PICK l \in {"fast2", "chan"} : Goto(g, l)
  BY DEF FastRead
<1>3. \A c \in Chan : Same(ch[c], ch'[c])
  BY <1>1, StillSame
<1>4. Frame({g}) /\ Wakers(g) = {} /\ Wakers(g)' = {} /\ pc'[g] = l
  BY <1>1, <1>2, <1>3, Alone, Untouched DEF Others
<1>5. param[g] = <<>>
  BY <1>1, ParkedParam
<1>6. Outcome(g)' = Outcome(g)
  BY <1>1, <1>2, <1>4, <1>5 DEF Outcome
<1>7. Tells(g)' /\ Shut(g)' /\ Hands(g)'
  <2>1. Tells(g)
    BY DEF RInv
  <2>. QED BY <1>1, <1>2, <1>4, <1>5, <2>1 DEF Tells, Shut, Hands
<1>. QED BY <1>1, <1>3, <1>4, <1>6, <1>7, QuietStep

LEMMA FastRead2Refines ==
  ASSUME RInv, IInv', NEW g \in G, FastRead2(g)
  PROVE  RInv' /\ Simulates
<1>1. /\ pc[g] = "fast2" /\ UNCHANGED <<ch, op, calls, hand, param, elem>>
      /\ pc \in [G -> PC] /\ DOMAIN ret = G
  BY DEF FastRead2, RInv, IInv, TypeOK
<1>2. \A c \in Chan : Same(ch[c], ch'[c])
  BY <1>1, StillSame
<1>3. param[g] = <<>> /\ Tells(g) /\ ~op[g].sel
  BY <1>1, ParkedParam DEF RInv, IInv, Calling
<1>4. CASE Settle(g, 0, "default") /\ Goto(g, "return")
  <2>1. ret'[g] = <<0, "default">> /\ \A h \in G \ {g} : ret'[h] = ret[h]
    BY <1>1, <1>4 DEF Settle
  <2>2. Frame({g}) /\ Wakers(g) = {} /\ Wakers(g)' = {} /\ pc'[g] = "return"
    BY <1>1, <1>2, <1>4, <2>1, Alone, Untouched DEF Others
  <2>3. Outcome(g) = A!Pending /\ elem[g] = NoVal
    BY <1>1, <1>3, <2>2, Unsettled
  <2>4. Outcome(g)' = <<0, "default", NoVal>>
    BY <1>1, <1>3, <2>1, <2>2, <2>3 DEF Outcome
  <2>5. Tells(g)' /\ Shut(g)' /\ Hands(g)'
    BY <1>1, <1>3, <2>1, <2>2 DEF Tells, Shut, Hands
  <2>. QED BY <1>1, <1>2, <1>3, <2>2, <2>3, <2>4, <2>5, SettlingStep DEF Tells
<1>5. CASE Goto(g, "chan") /\ UNCHANGED ret
  <2>1. Frame({g}) /\ Wakers(g) = {} /\ Wakers(g)' = {} /\ pc'[g] = "chan"
    BY <1>1, <1>2, <1>5, Alone, Untouched DEF Others
  <2>2. Outcome(g)' = Outcome(g)
    BY <1>1, <1>3, <1>5, <2>1 DEF Outcome
  <2>3. Tells(g)' /\ Shut(g)' /\ Hands(g)'
    BY <1>1, <1>3, <1>5, <2>1 DEF Tells, Shut, Hands
  <2>. QED BY <1>1, <1>2, <2>1, <2>2, <2>3, QuietStep
<1>. QED BY <1>4, <1>5 DEF FastRead2

\* The steps of a select that has been claimed or is about to poll: nothing is settled.
LEMMA RelockRefines ==
  ASSUME RInv, IInv', NEW g \in G, Sellock(g) \/ WokenSelect(g)
  PROVE  RInv' /\ Simulates
<1>1. UNCHANGED <<ch, op, calls, hand, param, elem, ret>> /\ pc \in [G -> PC] /\ Tells(g)
  BY DEF Sellock, WokenSelect, RInv, IInv, TypeOK
<1>2. \/ pc[g] = "sellock" /\ \E l \in {"sellock", "poll"} : Goto(g, l)
      \/ pc[g] \in {"woken", "relock"} /\ \E l \in {"relock", "pass3"} : Goto(g, l)
  BY <1>1 DEF Sellock, WokenSelect, Goto
<1>3. PICK l \in {"sellock", "poll", "relock", "pass3"} :
        Goto(g, l) /\ (pc[g] # "sellock" => l \in {"relock", "pass3"})
  BY <1>2
<1>4. \A c \in Chan : Same(ch[c], ch'[c])
  BY <1>1, StillSame
<1>5. pc[g] \in {"sellock", "woken", "relock"}
  BY <1>2
<1>6. Frame({g}) /\ Wakers(g) = {} /\ Wakers(g)' = {} /\ pc'[g] = l
  BY <1>1, <1>3, <1>4, <1>5, Alone, Untouched DEF Others
<1>7. Outcome(g)' = Outcome(g)
  BY <1>1, <1>5, <1>6 DEF Outcome, Case
<1>8. Tells(g)' /\ Shut(g)' /\ Hands(g)'
  BY <1>1, <1>3, <1>5, <1>6 DEF Tells, Shut, Hands, Case
<1>. QED BY <1>1, <1>4, <1>6, <1>7, <1>8, QuietStep

LEMMA WokenRefines ==
  ASSUME RInv, IInv', NEW g \in G, Woken(g)
  PROVE  RInv' /\ Simulates
<1>1. /\ pc[g] = "woken" /\ ~op[g].sel /\ Goto(g, "return")
      /\ UNCHANGED <<ch, op, calls, hand, elem>>
      /\ DOMAIN ret = G /\ DOMAIN param = G /\ Tells(g) /\ Shut(g)
  BY DEF Woken, RInv, IInv, TypeOK
<1>2. \A c \in Chan : Same(ch[c], ch'[c])
  BY <1>1, StillSame
<1>3. DOMAIN op[g].cases = {1}
  BY <1>1, CallFacts DEF RInv, IInv
<1>4. /\ ret'[g][1] = 1 /\ ret'[g][2] # "pending" /\ param'[g] = <<>>
      /\ \A h \in G \ {g} : ret'[h] = ret[h] /\ param'[h] = param[h]
      /\ ret'[g] = <<1, IF param[g] # <<>> THEN "ok"
                        ELSE IF Case(g, 1).dir = "send" THEN "panic" ELSE "closed">>
  BY <1>1 DEF Woken, Settle
<1>5. Frame({g}) /\ Wakers(g) = {} /\ Wakers(g)' = {} /\ pc'[g] = "return"
  BY <1>1, <1>2, <1>4, Alone, Untouched DEF Others
<1>6. Tells(g)' /\ Shut(g)' /\ Hands(g)'
  BY <1>1, <1>4, <1>5 DEF Tells, Shut, Hands
<1>7. Outcome(g)' = <<1, ret'[g][2], elem[g]>>
  BY <1>1, <1>4, <1>5 DEF Outcome
<1>8. CASE param[g] # <<>>
  <2>1. param[g][2] = 1 /\ (Case(g, 1).dir # "recv" => elem[g] = NoVal)
    BY <1>1, <1>3, <1>8 DEF Tells
  <2>2. Outcome(g) = <<1, "ok", elem[g]>>
    BY <1>5, <1>8, <2>1 DEF Outcome
  <2>. QED BY <1>1, <1>2, <1>4, <1>5, <1>6, <1>7, <1>8, <2>2, QuietStep
<1>9. CASE param[g] = <<>>
  <2>1. Outcome(g) = A!Pending /\ elem[g] = NoVal
    BY <1>1, <1>5, <1>9, Unsettled
  <2>2. LET k == Case(g, 1) IN
          k.dir \in {"send", "recv"} /\ ch[k.c].closed /\ (k.dir = "recv" => ch[k.c].qcount = 0)
    BY <1>1, <1>9 DEF Shut
  <2>3. CASE Case(g, 1).dir = "send"
    <3>1. Outcome(g)' = <<1, "panic", NoVal>>
      BY <1>4, <1>7, <1>9, <2>1, <2>3
    <3>. QED BY <1>1, <1>2, <1>3, <1>5, <1>6, <2>1, <2>2, <2>3, <3>1, SettlingStep
  <2>4. CASE Case(g, 1).dir = "recv"
    <3>1. Outcome(g)' = <<1, "closed", NoVal>>
      BY <1>4, <1>7, <1>9, <2>1, <2>4
    <3>. QED BY <1>1, <1>2, <1>3, <1>5, <1>6, <2>1, <2>2, <2>4, <3>1, SettlingStep
  <2>. QED BY <2>2, <2>3, <2>4
<1>. QED BY <1>8, <1>9

LEMMA ReturnRefines ==
  ASSUME RInv, IInv', NEW g \in G, Return(g)
  PROVE  RInv' /\ Simulates
<1>1. /\ pc[g] = "return" /\ Goto(g, "idle") /\ UNCHANGED <<ch, calls, param, hand>>
      /\ op' = [op EXCEPT ![g] = NoOp] /\ elem' = [elem EXCEPT ![g] = NoVal]
      /\ ret' = [ret EXCEPT ![g] = Pending]
      /\ DOMAIN ret = G /\ DOMAIN op = G /\ DOMAIN elem = G /\ Tells(g)
  BY DEF Return, RInv, IInv, TypeOK
<1>2. \A c \in Chan : Same(ch[c], ch'[c])
  BY <1>1, StillSame
<1>3. op'[g] = NoOp /\ elem'[g] = NoVal /\ ret'[g] = Pending /\ Others(g)
  BY <1>1 DEF Others
<1>4. Frame({g}) /\ Wakers(g) = {} /\ Wakers(g)' = {} /\ pc'[g] = "idle"
  BY <1>1, <1>2, <1>3, Alone, Untouched
<1>5. param[g] = <<>>
  BY <1>1, ParkedParam
<1>6. Outcome(g) # A!Pending /\ Outcome(g)' = A!Pending
  <2>1. Outcome(g) = <<ret[g][1], ret[g][2], elem[g]>>
    BY <1>1, <1>4, <1>5 DEF Outcome
  <2>2. Outcome(g)' = <<0, "pending", NoVal>>
    BY <1>1, <1>3, <1>4, <1>5 DEF Outcome, Pending
  <2>. QED BY <1>1, <2>1, <2>2 DEF Tells, A!Pending
<1>7. Tells(g)' /\ Shut(g)' /\ Hands(g)'
  BY <1>1, <1>3, <1>4, <1>5 DEF Tells, Shut, Hands
<1>8. RInv'
  <2>1. \A c \in Chan : RingOf(ch'[c])
    BY <1>2, Undisturbed DEF RInv
  <2>. QED BY <1>4, <1>7, <2>1, Keeps
<1>9. \A h \in G \ {g} : Outcome(h)' = Outcome(h)
  BY <1>4, Bystanders
<1>10. \A c \in Chan : Cap(c)' = Cap(c) /\ Contents(c)' = Contents(c) /\ ch'[c].closed = ch[c].closed
  BY <1>2, Undisturbed
<1>11. A!Return(g)
  <2>. DEFINE qs == [c \in Chan |-> Contents(c)]
              cl == [c \in Chan |-> ch[c].closed]
              rs == [h \in G |-> Outcome(h)]
  <2>1. UNCHANGED <<qs, cl, calls>>
    BY <1>1, <1>10
  <2>2. rs' = [rs EXCEPT ![g] = A!Pending]
    <3>1. Outcome(g)' = <<0, "pending", NoVal>> /\ A!Pending = <<0, "pending", NoVal>>
      BY <1>6 DEF A!Pending
    <3>2. A!Settle(g, 0, "pending", NoVal)
      BY <1>9, <3>1, Settles
    <3>. QED BY <3>1, <3>2 DEF A!Settle
  <2>3. rs[g] # A!Pending
    BY <1>6
  <2>. QED BY <1>1, <2>1, <2>2, <2>3 DEF A!Return
<1>. QED BY <1>8, <1>10, <1>11, SpecSteps

LEMMA InvokeRefines ==
  ASSUME RInv, IInv', NEW g \in G, NEW o \in Ops, Invoke(g, o)
  PROVE  RInv' /\ Simulates
<1>1. /\ pc[g] = "idle" /\ UNCHANGED <<ch, done, param, hand, elem, ret>>
      /\ op' = [op EXCEPT ![g] = o] /\ calls' = [calls EXCEPT ![g] = @ + 1]
      /\ Goto(g, IF o.sel THEN "sellock" ELSE IF o.block THEN "chan" ELSE "fast")
      /\ DOMAIN op = G /\ DOMAIN calls = G /\ Tells(g)
  BY DEF Invoke, RInv, IInv, TypeOK
<1>2. \A c \in Chan : Same(ch[c], ch'[c])
  BY <1>1, StillSame
<1>3. op'[g] = o /\ o # NoOp /\ Others(g)
  BY <1>1, NoneAssumption DEF Others
<1>4. PICK l \in {"sellock", "chan", "fast"} : Goto(g, l) /\ (l = "fast" => ~o.block)
  BY <1>1
<1>5. Frame({g}) /\ Wakers(g) = {} /\ Wakers(g)' = {} /\ pc'[g] = l
  BY <1>1, <1>2, <1>3, <1>4, Alone, Untouched
<1>6. param[g] = <<>> /\ Outcome(g) = A!Pending /\ elem[g] = NoVal /\ ret[g] = Pending
  BY <1>1, <1>5, ParkedParam, Unsettled
<1>7. Outcome(g)' = Outcome(g)
  BY <1>1, <1>4, <1>5, <1>6 DEF Outcome
<1>8. Tells(g)' /\ Shut(g)' /\ Hands(g)'
  BY <1>1, <1>3, <1>4, <1>5, <1>6 DEF Tells, Shut, Hands
<1>9. RInv'
  <2>1. \A c \in Chan : RingOf(ch'[c])
    BY <1>2, Undisturbed DEF RInv
  <2>. QED BY <1>5, <1>8, <2>1, Keeps
<1>10. \A h \in G : Outcome(h)' = Outcome(h)
  BY <1>5, <1>7, Bystanders
<1>11. \A c \in Chan : Cap(c)' = Cap(c) /\ Contents(c)' = Contents(c) /\ ch'[c].closed = ch[c].closed
  BY <1>2, Undisturbed
<1>12. A!Invoke(g, o)
  <2>. DEFINE qs == [c \in Chan |-> Contents(c)]
              cl == [c \in Chan |-> ch[c].closed]
              rs == [h \in G |-> Outcome(h)]
  <2>1. UNCHANGED <<qs, cl, rs>> /\ op[g] = NoOp
    BY SMTT(30), <1>1, <1>10, <1>11 DEF Tells
  <2>. QED BY <1>1, <2>1 DEF A!Invoke
<1>. QED BY <1>9, <1>11, <1>12, SpecSteps

LEMMA Pass3Refines ==
  ASSUME RInv, IInv', NEW g \in G, Pass3(g)
  PROVE  RInv' /\ Simulates
<1>1. /\ pc[g] = "pass3" /\ UNCHANGED <<op, calls, hand, elem>>
      /\ param' = [param EXCEPT ![g] = <<>>]
      /\ DOMAIN param = G /\ DOMAIN ret = G /\ Tells(g) /\ op[g].sel
  BY DEF Pass3, RInv, IInv, TypeOK, Calling
<1>2. \A c \in Chan : Same(ch[c], ch'[c])
  <2>. SUFFICES ASSUME NEW c \in Chan PROVE Same(ch[c], ch'[c])
    OBVIOUS
  <2>. DEFINE others(w) == Kept(w, {i \in DOMAIN w : w[i][1] # g})
  <2>1. PICK v, w : ch'[c] = [ch[c] EXCEPT !.recvq = v, !.sendq = w]
    <3>1. ch'[c] = [ch[c] EXCEPT !.recvq = others(@), !.sendq = others(@)]
      BY DEF Pass3
    <3>. QED BY <3>1
  <2>2. ch[c] \in Hchans(Cap(c))
    BY ChanFacts DEF RInv, IInv
  <2>. QED BY <2>1, <2>2 DEF Same, Hchans
<1>3. CASE param[g] # <<>>
  <2>1. Goto(g, "return") /\ ret' = [ret EXCEPT ![g] = <<param[g][2], "ok">>]
    BY <1>3 DEF Pass3, Settle
  <2>2. ret'[g] = <<param[g][2], "ok">> /\ param'[g] = <<>> /\ Others(g)
    BY <1>1, <2>1 DEF Others
  <2>3. Frame({g}) /\ Wakers(g) = {} /\ Wakers(g)' = {} /\ pc'[g] = "return"
    BY <1>1, <1>2, <2>1, <2>2, Alone, Untouched
  <2>4. Outcome(g) = <<param[g][2], "ok", elem[g]>>
    BY <1>1, <1>3, <2>3 DEF Outcome, Tells
  <2>5. Outcome(g)' = <<param[g][2], "ok", elem[g]>>
    BY <1>1, <2>2, <2>3 DEF Outcome
  <2>6. Tells(g)' /\ Shut(g)' /\ Hands(g)'
    BY <1>1, <2>2, <2>3 DEF Tells, Shut, Hands
  <2>. QED BY SMTT(30), <1>1, <1>2, <2>3, <2>4, <2>5, <2>6, QuietStep
<1>4. CASE param[g] = <<>>
  <2>1. Goto(g, "poll") /\ UNCHANGED ret
    BY <1>4 DEF Pass3
  <2>2. param'[g] = <<>> /\ Others(g)
    BY <1>1, <2>1 DEF Others
  <2>3. Frame({g}) /\ Wakers(g) = {} /\ Wakers(g)' = {} /\ pc'[g] = "poll"
    BY <1>1, <1>2, <2>1, <2>2, Alone, Untouched
  <2>4. Outcome(g)' = Outcome(g)
    BY <1>1, <1>4, <2>1, <2>2, <2>3 DEF Outcome
  <2>5. Tells(g)' /\ Shut(g)' /\ Hands(g)'
    BY <1>1, <1>4, <2>1, <2>2, <2>3 DEF Tells, Shut, Hands
  <2>. QED BY SMTT(30), <1>1, <1>2, <2>3, <2>4, <2>5, QuietStep
<1>. QED BY <1>3, <1>4

LEMMA OnlyOne == ASSUME NEW x PROVE (CHOOSE y \in {x} : TRUE) = x
<1>. DEFINE y == CHOOSE y \in {x} : TRUE
<1>1. y \in {x}
  OBVIOUS
<1>. QED BY <1>1

LEMMA HandoffRefines ==
  ASSUME RInv, IInv', NEW g \in G, Handoff(g)
  PROVE  RInv' /\ Simulates
<1>. USE DEF RInv
<1>1. /\ pc[g] = "handoff" /\ UNCHANGED <<ch, op, calls, ret>>
      /\ DOMAIN pc = G /\ DOMAIN param = G /\ DOMAIN hand = G /\ DOMAIN elem = G
      /\ Tells(g) /\ Hands(g)
  BY DEF Handoff, IInv, TypeOK
<1>2. hand[g][1] \in G
  BY <1>1, HandFacts DEF IInv
<1>. PICK t \in G : t = hand[g][1]
  BY <1>2
<1>3. /\ t # g /\ pc[t] = "parked" /\ Wakers(t) = {g} /\ hand[g] # <<>>
  BY <1>1, HandFacts DEF IInv, Handoffs
<1>. PICK s : s = hand[g]
  OBVIOUS
<1>. PICK i : i = ret[g][1]
  OBVIOUS
<1>. DEFINE k == Case(g, i)
<1>4. /\ s # <<>> /\ s[1] = t /\ ret[g][2] = "ok" /\ i \in DOMAIN op[g].cases
      /\ s[2] \in DOMAIN op[t].cases
      /\ \/ k.dir = "send" /\ Case(t, s[2]).dir = "recv" /\ elem[g] = NoVal
         \/ k.dir = "recv" /\ Case(t, s[2]).dir = "send"
      /\ k.c \in Chan
  BY <1>1, <1>3, CallFacts DEF Hands, IInv
<1>5. /\ pc'[g] = "return" /\ pc'[t] = "woken" /\ \A h \in G \ {g, t} : pc'[h] = pc[h]
      /\ param'[t] = s /\ \A h \in G \ {t} : param'[h] = param[h]
      /\ hand'[g] = <<>> /\ \A h \in G \ {g} : hand'[h] = hand[h]
  BY <1>1, <1>3 DEF Handoff
<1>6. /\ \A h \in G \ {g, t} : elem'[h] = elem[h]
      /\ k.dir = "send" => elem'[t] = Val(g) /\ elem'[g] = elem[g]
      /\ k.dir = "recv" => elem'[t] = elem[t]
                           /\ elem'[g] = IF Cap(k.c) = 0 THEN Val(t) ELSE elem[g]
  BY <1>1, <1>3 DEF Handoff
<1>7. \A c \in Chan : Same(ch[c], ch'[c])
  BY <1>1, StillSame
<1>8. /\ Wakers(t)' = {} /\ Wakers(g) = {} /\ Wakers(g)' = {}
      /\ \A h \in G \ {g, t} : Wakers(h)' = Wakers(h) /\ Wakers(h) \cap {g, t} = {}
  <2>1. Wakers(g) = {}
    BY <1>1, NotWoken
  <2>2. \A h \in G : \A w \in G \ {g, t} : w \in Wakers(h)' <=> w \in Wakers(h)
    BY <1>5 DEF Wakers
  <2>3. \A h \in G : t \notin Wakers(h) /\ t \notin Wakers(h)' /\ g \notin Wakers(h)'
    BY <1>3, <1>5 DEF Wakers
  <2>4. \A h \in G \ {t} : g \notin Wakers(h)
    BY DEF Wakers
  <2>5. \A h \in G : Wakers(h) \subseteq G /\ Wakers(h)' \subseteq G
    BY DEF Wakers
  <2>6. \A h \in G \ {t} : \A w \in G : w \in Wakers(h)' <=> w \in Wakers(h)
    BY <2>2, <2>3, <2>4
  <2>7. \A h \in G \ {t} : Wakers(h)' = Wakers(h) /\ Wakers(h) \cap {g, t} = {}
    BY <2>3, <2>4, <2>5, <2>6
  <2>8. \A w \in G : w \notin Wakers(t)'
    BY <1>3, <2>2, <2>3
  <2>. QED BY <1>3, <2>1, <2>5, <2>7, <2>8
<1>9. Frame({g, t})
  BY <1>1, <1>5, <1>6, <1>7, <1>8, Untouched DEF Frame
<1>10. param[g] = <<>> /\ param[t] = <<>> /\ elem[t] = NoVal /\ ret[t] = Pending /\ op[t] # NoOp
  BY <1>1, <1>3, ParkedParam DEF Tells
<1>11. Outcome(t)' = Outcome(t)
  <2>. DEFINE receives(v) == IF Case(t, s[2]).dir = "recv" THEN v ELSE NoVal
  <2>1. Outcome(t) = <<s[2], "ok", receives(Val(g))>>
    BY <1>3, OnlyOne DEF Outcome
  <2>2. Outcome(t)' = <<s[2], "ok", receives(elem'[t])>>
    BY <1>1, <1>4, <1>5, <1>8 DEF Outcome, Case
  <2>3. receives(elem'[t]) = receives(Val(g))
    BY <1>4, <1>6
  <2>. HIDE DEF receives
  <2>. QED BY <2>1, <2>2, <2>3
<1>12. Outcome(g)' = Outcome(g)
  <2>1. Outcome(g)' = <<i, "ok", elem'[g]>>
    BY <1>1, <1>3, <1>4, <1>5, <1>8, <1>10 DEF Outcome
  <2>2. Outcome(g) = IF Cap(k.c) = 0 THEN <<i, "ok", IF k.dir = "recv" THEN Val(t) ELSE NoVal>>
                     ELSE <<i, "ok", elem[g]>>
    BY <1>1, <1>4, <1>8, <1>10 DEF Outcome
  <2>. HIDE DEF k
  <2>. QED BY <1>4, <1>6, <2>1, <2>2 DEF k
<1>13. Tells(g)' /\ Shut(g)' /\ Hands(g)'
  BY SMTT(30), <1>1, <1>3, <1>4, <1>5, <1>10 DEF Tells, Shut, Hands
<1>14. Tells(t)' /\ Shut(t)' /\ Hands(t)'
  BY Zenon, <1>1, <1>3, <1>4, <1>5, <1>6, <1>10 DEF Tells, Shut, Hands, Case
<1>15. RInv'
  <2>1. \A c \in Chan : RingOf(ch'[c])
    BY <1>7, Undisturbed
  <2>2. \A h \in {g, t} : Tells(h)' /\ Shut(h)' /\ Hands(h)'
    BY <1>13, <1>14
  <2>. QED BY <1>9, <2>1, <2>2, Keeps
<1>16. \A h \in G : Outcome(h)' = Outcome(h)
  BY <1>9, <1>11, <1>12, Bystanders
<1>17. UNCHANGED A!vars
  BY <1>1, <1>7, <1>16, Stutters
<1>. QED BY <1>15, <1>17 DEF Simulates

LEMMA ClosechanRefines ==
  ASSUME RInv, IInv', NEW g \in G, Closechan(g)
  PROVE  RInv' /\ Simulates
<1>. USE DEF RInv
<1>1. /\ pc[g] = "chan" /\ UNCHANGED <<op, calls, hand, param, elem>>
      /\ DOMAIN ret = G /\ DOMAIN ch = Chan /\ Tells(g)
  BY DEF Closechan, IInv, TypeOK
<1>2. 1 \in DOMAIN op[g].cases /\ Case(g, 1).c \in Chan /\ Case(g, 1).dir = "close"
  BY <1>1, CallFacts DEF IInv, Closechan
<1>. PICK c \in Chan : c = Case(g, 1).c
  BY <1>2
<1>3. Wakers(g) = {} /\ param[g] = <<>> /\ Outcome(g) = A!Pending /\ elem[g] = NoVal
  BY <1>1, NotWoken, ParkedParam, Unsettled
<1>4. CASE ch[c].closed
  <2>1. Settle(g, 1, "panic") /\ Goto(g, "return") /\ UNCHANGED ch
    BY <1>4 DEF Closechan
  <2>2. ret'[g] = <<1, "panic">> /\ Others(g)
    BY <1>1, <2>1 DEF Others, Settle
  <2>3. \A d \in Chan : Same(ch[d], ch'[d])
    BY <2>1, StillSame
  <2>4. Frame({g}) /\ Wakers(g)' = {} /\ pc'[g] = "return"
    BY <1>1, <2>1, <2>2, <2>3, Alone, Untouched
  <2>5. Outcome(g)' = <<1, "panic", NoVal>>
    BY <1>1, <1>3, <2>1, <2>2, <2>4 DEF Outcome
  <2>6. Tells(g)' /\ Shut(g)' /\ Hands(g)'
    BY <1>1, <1>3, <2>1, <2>2, <2>4 DEF Tells, Shut, Hands
  <2>. QED BY <1>1, <1>2, <1>3, <1>4, <2>3, <2>4, <2>5, <2>6, SettlingStep
<1>5. CASE ~ch[c].closed
  <2>1. /\ ch' = [ch EXCEPT ![c].closed = TRUE] /\ Goto(g, "closing")
        /\ Settle(g, 1, "ok")
    BY <1>5 DEF Closechan
  <2>2. ret'[g] = <<1, "ok">> /\ Others(g)
    BY <1>1, <2>1 DEF Others, Settle
  <2>3. ch[c] \in Hchans(Cap(c))
    BY ChanFacts DEF IInv
  <2>4. /\ \A d \in Chan \ {c} : ch'[d] = ch[d]
        /\ ch'[c].dataqsiz = ch[c].dataqsiz /\ ch'[c].qcount = ch[c].qcount
        /\ ch'[c].recvx = ch[c].recvx /\ ch'[c].sendx = ch[c].sendx
        /\ ch'[c].buf = ch[c].buf /\ ch'[c].closed
    BY <1>1, <2>1, <2>3 DEF Hchans
  <2>5. \A d \in Chan : /\ Cap(d)' = Cap(d) /\ Contents(d)' = Contents(d)
                        /\ RingOf(ch'[d])
    BY <2>4 DEF Cap, Contents, RingOf
  <2>6. ChansKeep
    BY <2>4 DEF ChansKeep, Cap
  <2>7. Frame({g}) /\ Wakers(g)' = {} /\ pc'[g] = "closing"
    BY <1>1, <2>1, <2>2, <2>6, Alone
  <2>8. Outcome(g)' = <<1, "ok", NoVal>>
    BY <1>1, <1>3, <2>2, <2>7 DEF Outcome
  <2>9. Tells(g)' /\ Shut(g)' /\ Hands(g)'
    BY <1>1, <1>3, <2>2, <2>4, <2>7 DEF Tells, Shut, Hands, Case
  <2>10. RInv'
    BY <2>5, <2>7, <2>9, Keeps
  <2>11. \A h \in G \ {g} : Outcome(h)' = Outcome(h)
    BY <2>7, Bystanders
  <2>12. A!Close(g)
    <3>. DEFINE qs == [d \in Chan |-> Contents(d)]
                cl == [d \in Chan |-> ch[d].closed]
    <3>1. A!Settle(g, 1, "ok", NoVal)
      BY <2>8, <2>11, Settles
    <3>2. <<1, c>> \in A!Wants(g, "close")
      BY <1>1, <1>2, <1>3, Wanted
    <3>3. UNCHANGED <<qs, op, calls>>
      BY <1>1, <2>5
    <3>4. cl' = [cl EXCEPT ![c] = TRUE] /\ ~cl[c]
      <4>1. ch'[c].closed = TRUE
        <5>1. IInv' => ch'[c].closed \in BOOLEAN
          BY DEF IInv, TypeOK, Hchans
        <5>. QED BY <2>4, <5>1
      <4>. QED BY <1>5, <2>4, <4>1
    <3>. HIDE DEF qs, cl
    <3>5. \E w \in A!Wants(g, "close") :
            /\ ~cl[w[2]] /\ cl' = [cl EXCEPT ![w[2]] = TRUE]
            /\ A!Settle(g, w[1], "ok", NoVal) /\ UNCHANGED <<qs, op, calls>>
      BY <3>1, <3>2, <3>3, <3>4
    <3>. QED BY <3>5 DEF A!Close, qs, cl
  <2>. QED BY <2>5, <2>10, <2>12, SpecSteps
<1>. QED BY <1>4, <1>5

\* It wakes a sleeper, whose call it does not settle: he does, when he runs.
LEMMA ReleaseRefines ==
  ASSUME RInv, IInv', NEW g \in G, ReleaseReader(g) \/ ReleaseWriter(g)
  PROVE  RInv' /\ Simulates
<1>. USE DEF RInv
<1>1. pc[g] = "closing" /\ Case(g, 1).c \in Chan /\ ch[Case(g, 1).c].closed
  BY CallFacts DEF ReleaseReader, ReleaseWriter, IInv, Shut
<1>. PICK c \in Chan : c = Case(g, 1).c
  BY <1>1
<1>2. \A d \in Chan : Same(ch[d], ch'[d])
  <2>1. PICK v, w : \/ ch' = [ch EXCEPT ![c].recvq = v]
                    \/ ch' = [ch EXCEPT ![c].recvq = v, ![c].sendq = w]
    BY DEF ReleaseReader, ReleaseWriter
  <2>2. DOMAIN ch = Chan /\ ch[c] \in Hchans(Cap(c))
    BY ChanFacts DEF IInv, TypeOK
  <2>. QED BY <2>1, <2>2 DEF Same, Hchans
<1>3. PICK s \in Sudog : /\ s \in ToSet(ch[c].recvq) \cup ToSet(ch[c].sendq) /\ ~done[s[1]]
                        /\ s[1] \in G /\ pc[s[1]] = "parked" /\ Release(s)
  BY ReleaseKept
<1>. PICK t \in G : t = s[1]
  BY <1>3
<1>4. /\ pc[t] = "parked" /\ Wakers(t) = {} /\ param[t] = <<>> /\ Outcome(t) = A!Pending
      /\ ret[t] = Pending /\ elem[t] = NoVal /\ Tells(t)
      /\ DOMAIN pc = G /\ DOMAIN param = G
  BY <1>3, Unclaimed, ParkedParam, Unsettled DEF IInv, TypeOK
<1>5. ~op[t].sel => LET k == Case(t, 1) IN
        k.c = c /\ k.dir \in {"send", "recv"} /\ (k.dir = "recv" => ch[c].qcount = 0)
  <2>1. ASSUME ~op[t].sel PROVE s = <<t, 1>>
    BY <1>3, <2>1, QueueFacts
  <2>2. CASE s \in ToSet(ch[c].recvq)
    <3>1. Case(t, s[2]) = [c |-> c, dir |-> "recv"]
      BY <2>2 DEF IInv, Queued, InQueue
    <3>2. ch[c].qcount = 0
      BY <1>3, <2>2, Unclaimed
    <3>. QED BY <2>1, <3>1, <3>2
  <2>3. CASE s \in ToSet(ch[c].sendq)
    <3>1. Case(t, s[2]) = [c |-> c, dir |-> "send"]
      BY <2>3 DEF IInv, Queued, InQueue
    <3>. QED BY <2>1, <3>1
  <2>. QED BY <1>3, <2>2, <2>3
<1>6. /\ UNCHANGED <<op, calls, hand, elem, ret>> /\ param'[t] = <<>> /\ pc'[t] = "woken"
      /\ \A h \in G \ {t} : pc'[h] = pc[h] /\ param'[h] = param[h]
  BY <1>3, <1>4 DEF Release, Goto
<1>7. \A h \in G : Wakers(h)' = Wakers(h) /\ t \notin Wakers(h)
  BY <1>4, <1>6 DEF Wakers
<1>8. Frame({t})
  BY <1>2, <1>6, <1>7, Untouched DEF Frame
<1>9. Outcome(t)' = Outcome(t)
  BY <1>4, <1>6, <1>7 DEF Outcome
<1>10. Shut(t)'
  <2>1. ch'[c].closed /\ ch'[c].qcount = ch[c].qcount
    BY <1>1, <1>2 DEF Same
  <2>2. Case(t, 1)' = Case(t, 1)
    BY <1>6 DEF Case
  <2>. QED BY <1>5, <1>6, <2>1, <2>2 DEF Shut
<1>11. Tells(t)' /\ Hands(t)'
  BY <1>4, <1>6 DEF Tells, Hands
<1>. QED BY <1>2, <1>6, <1>8, <1>9, <1>10, <1>11, QuietStep

LEMMA CloseDoneRefines ==
  ASSUME RInv, IInv', NEW g \in G, CloseDone(g)
  PROVE  RInv' /\ Simulates
<1>. USE DEF RInv
<1>1. /\ pc[g] = "closing" /\ Goto(g, "return")
      /\ UNCHANGED <<op, calls, param, hand, elem, ret>> /\ Tells(g)
  BY DEF CloseDone
<1>2. \A d \in Chan : Same(ch[d], ch'[d])
  <2>1. PICK c : ch' = [ch EXCEPT ![c].recvq = <<>>, ![c].sendq = <<>>]
    BY DEF CloseDone
  <2>2. DOMAIN ch = Chan /\ \A d \in Chan : ch[d] \in Hchans(Cap(d))
    BY ChanFacts DEF IInv, TypeOK
  <2>. QED BY <2>1, <2>2 DEF Same, Hchans
<1>3. Frame({g}) /\ Wakers(g) = {} /\ Wakers(g)' = {} /\ pc'[g] = "return"
  BY <1>1, <1>2, Alone, Untouched DEF Others
<1>4. param[g] = <<>>
  BY <1>1, ParkedParam
<1>5. Outcome(g)' = Outcome(g)
  BY <1>1, <1>3, <1>4 DEF Outcome
<1>6. Tells(g)' /\ Shut(g)' /\ Hands(g)'
  BY <1>1, <1>3, <1>4 DEF Tells, Shut, Hands
<1>. QED BY <1>1, <1>2, <1>3, <1>5, <1>6, QuietStep

-----------------------------------------------------------------------------
\* A case that goes ahead, from hs, which is ch but for queues that are emptied.
Plain(hs) == Purged(hs) /\ \A c \in Chan : Same(ch[c], hs[c])

LEMMA PlainFacts ==
  ASSUME RInv, NEW hs, Plain(hs), NEW c \in Chan
  PROVE  /\ hs[c] \in Hchans(Cap(c)) /\ Cap(c) \in Nat /\ hs[c].dataqsiz = Cap(c)
         /\ hs[c].closed = ch[c].closed /\ hs[c].qcount = ch[c].qcount
         /\ ch[c].qcount \in 0..Cap(c)
         /\ Contents(c) = Queue(hs[c]) /\ RingOf(hs[c])
         /\ Contents(c) \in Seq(Value) /\ Len(Contents(c)) = ch[c].qcount
         /\ ch[c].qcount = 0 <=> Contents(c) = <<>>
<1>1. /\ hs[c] \in Hchans(Cap(c)) /\ Cap(c) \in Nat
      /\ hs[c].closed = ch[c].closed /\ hs[c].qcount = ch[c].qcount
      /\ ch[c].qcount \in 0..Cap(c)
  BY ChanFacts DEF Plain, Purged, RInv, IInv
<1>2. hs[c].dataqsiz = Cap(c) /\ Contents(c) = Queue(hs[c]) /\ RingOf(hs[c])
  BY DEF RInv, Plain, Same, RingOf, Contents, Queue, Cap
<1>3. Contents(c) \in Seq(Value) /\ Len(Contents(c)) = ch[c].qcount
  BY <1>1, <1>2, RingFacts
<1>. QED BY <1>1, <1>2, <1>3, EmptySeq

LEMMA PlainStep ==
  ASSUME RInv, NEW hs, Plain(hs), ch' = hs
  PROVE  \A c \in Chan : Same(ch[c], ch'[c])
BY DEF Plain

\* Before g's call goes ahead nobody has settled it.
LEMMA NotYet ==
  ASSUME RInv, NEW g \in G, pc[g] \in {"chan", "poll"}, NEW i \in DOMAIN op[g].cases
  PROVE  /\ Case(g, i).c \in Chan /\ Wakers(g) = {} /\ param[g] = <<>>
         /\ Outcome(g) = A!Pending /\ elem[g] = NoVal /\ op[g] # NoOp /\ i \in Nat
         /\ DOMAIN ret = G /\ DOMAIN elem = G /\ DOMAIN hand = G /\ DOMAIN pc = G
<1>1. /\ DOMAIN ret = G /\ DOMAIN elem = G /\ DOMAIN hand = G /\ DOMAIN pc = G
  BY DEF RInv, IInv, TypeOK
<1>2. Case(g, i).c \in Chan /\ i \in Nat
  BY CallFacts DEF RInv, IInv
<1>3. Wakers(g) = {} /\ param[g] = <<>>
  BY NotWoken, ParkedParam DEF RInv
<1>. QED BY <1>1, <1>2, <1>3, Unsettled DEF RInv, Tells

LEMMA ClosedRefines ==
  ASSUME RInv, IInv', NEW g \in G, pc[g] \in {"chan", "poll"}, NEW hs, Plain(hs),
         NEW i \in DOMAIN op[g].cases, SendClosed(g, i, hs) \/ RecvClosed(g, i, hs),
         UNCHANGED <<op, calls, param>>
  PROVE  RInv' /\ Simulates
<1>. PICK c \in Chan : c = Case(g, i).c
  BY NotYet
<1>1. PICK what \in {"panic", "closed"} :
        /\ what = "panic" => Case(g, i).dir = "send" /\ hs[c].closed
        /\ what = "closed" => Case(g, i).dir = "recv" /\ hs[c].closed /\ hs[c].qcount = 0
        /\ ch' = hs /\ Settle(g, i, what) /\ Goto(g, "return") /\ UNCHANGED <<hand, elem>>
  BY DEF SendClosed, RecvClosed
<1>2. \A d \in Chan : Same(ch[d], ch'[d])
  BY <1>1, PlainStep
<1>3. ret'[g] = <<i, what>> /\ Others(g)
  BY <1>1, NotYet DEF Settle, Others
<1>4. Frame({g}) /\ Wakers(g)' = {} /\ pc'[g] = "return"
  BY <1>1, <1>2, <1>3, Alone, Untouched
<1>5. Outcome(g)' = <<i, what, NoVal>>
  <2>1. param'[g] = <<>> /\ elem'[g] = NoVal /\ pc'[g] # "handoff"
    BY <1>1, <1>4, NotYet
  <2>. QED BY <1>3, <1>4, <2>1 DEF Outcome
<1>6. Tells(g)' /\ Shut(g)' /\ Hands(g)'
  BY <1>1, <1>3, <1>4, NotYet DEF Tells, Shut, Hands
<1>7. hs[c].closed = ch[c].closed /\ hs[c].qcount = ch[c].qcount
  BY PlainFacts
<1>8. Outcome(g) = A!Pending /\ pc[g] # "idle"
  BY NotYet
<1>. QED BY <1>1, <1>2, <1>4, <1>5, <1>6, <1>7, <1>8, SettlingStep

LEMMA SendToBufferRefines ==
  ASSUME RInv, IInv', NEW g \in G, pc[g] \in {"chan", "poll"}, NEW hs, Plain(hs),
         NEW i \in DOMAIN op[g].cases, SendToBuffer(g, i, hs),
         UNCHANGED <<op, calls, param>>
  PROVE  RInv' /\ Simulates
<1>. PICK c \in Chan : c = Case(g, i).c
  BY NotYet
<1>. DEFINE h == hs[c]  b == ch'[c]  n == Cap(c)
<1>1. /\ h \in Hchans(n) /\ n \in Nat /\ h.closed = ch[c].closed /\ h.qcount = ch[c].qcount
      /\ Contents(c) = Queue(h) /\ RingOf(h) /\ Len(Contents(c)) = ch[c].qcount
  BY PlainFacts
<1>2. b \in Hchans(n) /\ Typed
  <2>1. Fire(g, i, hs)
    BY DEF Fire
  <2>. QED BY <2>1, FireParking DEF Plain, RInv, Typed
<1>3. /\ Case(g, i).dir = "send" /\ ~h.closed /\ h.qcount < n /\ DOMAIN hs = Chan
      /\ Settle(g, i, "ok") /\ Goto(g, "return") /\ UNCHANGED <<hand, elem>>
      /\ ch' = [hs EXCEPT ![c].recvq = <<>>, ![c].buf[h.sendx] = Val(g),
                          ![c].sendx = Step(c, @), ![c].qcount = @ + 1]
  BY SMTT(30) DEF SendToBuffer, Plain, Purged
<1>4. /\ b.buf = [h.buf EXCEPT ![h.sendx] = Val(g)] /\ b.recvx = h.recvx
      /\ b.qcount = h.qcount + 1 /\ b.sendx = (h.sendx + 1) % n
      /\ b.closed = h.closed /\ b.dataqsiz = h.dataqsiz
      /\ \A d \in Chan \ {c} : ch'[d] = hs[d]
  BY ZenonT(60), <1>1, <1>3 DEF Hchans, Step
<1>5. Val(g) \in Value
  BY CallFacts DEF RInv, IInv
<1>6. Queue(b) = Append(Queue(h), Val(g)) /\ RingOf(b)
  <2>. HIDE DEF b, h, n
  <2>. QED BY <1>1, <1>2, <1>3, <1>4, <1>5, RingSends
<1>7. ASSUME NEW d \in Chan \ {c}
      PROVE  /\ Cap(d)' = Cap(d) /\ Contents(d)' = Contents(d) /\ ch'[d].closed = ch[d].closed
             /\ ch'[d].qcount = ch[d].qcount /\ RingOf(ch'[d])
  <2>1. Same(ch[d], ch'[d])
    BY SMTT(30), <1>4 DEF Plain
  <2>. QED BY <2>1, Undisturbed DEF RInv
<1>8. Cap(c)' = Cap(c) /\ Contents(c)' = Append(Contents(c), Val(g))
  <2>1. b.dataqsiz = n
    BY SMTT(30), <1>4, PlainFacts
  <2>. QED BY Zenon, <1>1, <1>6, <2>1 DEF Contents, Queue, Cap
<1>9. ChansKeep
  BY Zenon, <1>1, <1>3, <1>7, <1>8 DEF ChansKeep
<1>10. ret'[g] = <<i, "ok">> /\ Others(g)
  BY <1>3, NotYet DEF Settle, Others
<1>11. Frame({g}) /\ Wakers(g)' = {} /\ pc'[g] = "return"
  BY <1>3, <1>9, <1>10, Alone
<1>12. Outcome(g)' = <<i, "ok", NoVal>>
  <2>1. param'[g] = <<>> /\ elem'[g] = NoVal /\ pc'[g] # "handoff"
    BY <1>3, <1>11, NotYet
  <2>. QED BY <1>10, <1>11, <2>1 DEF Outcome
<1>13. Tells(g)' /\ Shut(g)' /\ Hands(g)'
  BY <1>3, <1>10, <1>11, NotYet DEF Tells, Shut, Hands
<1>14. RInv'
  <2>1. \A d \in Chan : RingOf(ch'[d])
    BY <1>6, <1>7
  <2>. QED BY <1>11, <1>13, <2>1, Keeps
<1>15. A!Send(g)
  <2>. DEFINE qs == [d \in Chan |-> Contents(d)]
              cl == [d \in Chan |-> ch[d].closed]
              cs == [d \in Chan |-> Cap(d)]
  <2>1. A!Settle(g, i, "ok", NoVal)
    BY <1>11, <1>12, Bystanders, Settles
  <2>2. <<i, c>> \in A!Wants(g, "send")
    BY <1>3, NotYet, Wanted
  <2>3. qs' = [qs EXCEPT ![c] = Append(@, A!Val(g))]
    <3>1. A!Val(g) = Val(g)
      BY DEF A!Val, Val
    <3>. QED BY <1>7, <1>8, <3>1
  <2>4. UNCHANGED <<cl, op, calls>>
    <3>1. ch'[c].closed = ch[c].closed
      BY <1>1, <1>4
    <3>. QED BY <1>7, <3>1
  <2>5. ~cl[c] /\ Len(qs[c]) < cs[c]
    BY <1>1, <1>3
  <2>. HIDE DEF qs, cl, cs
  <2>6. \E w \in A!Wants(g, "send") :
          /\ ~cl[w[2]] /\ Len(qs[w[2]]) < cs[w[2]]
          /\ qs' = [qs EXCEPT ![w[2]] = Append(@, A!Val(g))]
          /\ A!Settle(g, w[1], "ok", NoVal) /\ UNCHANGED <<cl, op, calls>>
    BY <2>1, <2>2, <2>3, <2>4, <2>5
  <2>. QED BY <2>6 DEF A!Send, qs, cl, cs
<1>16. \A d \in Chan : Cap(d)' = Cap(d)
  BY <1>7, <1>8
<1>. QED BY <1>14, <1>15, <1>16, SpecSteps

LEMMA RecvFromBufferRefines ==
  ASSUME RInv, IInv', NEW g \in G, pc[g] \in {"chan", "poll"}, NEW hs, Plain(hs),
         NEW i \in DOMAIN op[g].cases, RecvFromBuffer(g, i, hs),
         UNCHANGED <<op, calls, param>>
  PROVE  RInv' /\ Simulates
<1>. PICK c \in Chan : c = Case(g, i).c
  BY NotYet
<1>. DEFINE h == hs[c]  b == ch'[c]  n == Cap(c)
<1>1. /\ h \in Hchans(n) /\ n \in Nat /\ h.closed = ch[c].closed /\ h.qcount = ch[c].qcount
      /\ Contents(c) = Queue(h) /\ RingOf(h) /\ Len(Contents(c)) = ch[c].qcount
  BY PlainFacts
<1>2. b \in Hchans(n) /\ Typed
  <2>1. Fire(g, i, hs)
    BY DEF Fire
  <2>. QED BY <2>1, FireParking DEF Plain, RInv, Typed
<1>3. /\ Case(g, i).dir = "recv" /\ h.qcount > 0 /\ DOMAIN hs = Chan
      /\ Settle(g, i, "ok") /\ Goto(g, "return") /\ UNCHANGED hand
      /\ elem' = [elem EXCEPT ![g] = h.buf[h.recvx]]
      /\ ch' = [hs EXCEPT ![c].sendq = <<>>, ![c].buf[h.recvx] = NoVal,
                          ![c].recvx = Step(c, @), ![c].qcount = @ - 1]
  BY SMTT(30) DEF RecvFromBuffer, Plain, Purged
<1>4. /\ b.buf = [h.buf EXCEPT ![h.recvx] = NoVal] /\ b.sendx = h.sendx
      /\ b.qcount = h.qcount - 1 /\ b.recvx = (h.recvx + 1) % n
      /\ b.closed = h.closed /\ b.dataqsiz = h.dataqsiz
      /\ \A d \in Chan \ {c} : ch'[d] = hs[d]
  BY Zenon, <1>1, <1>3 DEF Hchans, Step
<1>5. /\ Queue(h) # <<>> /\ Head(Queue(h)) = h.buf[h.recvx]
      /\ Queue(b) = Tail(Queue(h)) /\ RingOf(b)
  <2>1. NoVal \in Value
    BY DEF Value
  <2>. HIDE DEF b, h, n
  <2>. QED BY <1>1, <1>2, <1>3, <1>4, <2>1, RingReceives
<1>6. ASSUME NEW d \in Chan \ {c}
      PROVE  /\ Cap(d)' = Cap(d) /\ Contents(d)' = Contents(d) /\ ch'[d].closed = ch[d].closed
             /\ ch'[d].qcount = ch[d].qcount /\ RingOf(ch'[d])
  <2>1. Same(ch[d], ch'[d])
    BY <1>4 DEF Plain
  <2>. QED BY <2>1, Undisturbed DEF RInv
<1>7. Cap(c)' = Cap(c) /\ Contents(c)' = Tail(Contents(c)) /\ ch'[c].closed = ch[c].closed
  <2>1. b.dataqsiz = n
    BY <1>4, PlainFacts
  <2>. QED BY Zenon, <1>1, <1>4, <1>5, <2>1 DEF Contents, Queue, Cap
<1>8. ChansKeep
  <2>1. ch[c].qcount # 0
    BY <1>1, <1>3
  <2>2. \A d \in Chan : d = c \/ d \in Chan \ {c}
    OBVIOUS
  <2>. QED BY <1>6, <1>7, <2>1, <2>2 DEF ChansKeep
<1>9. ret'[g] = <<i, "ok">> /\ elem'[g] = Head(Contents(c)) /\ Others(g)
  BY Zenon, <1>1, <1>3, <1>5, NotYet DEF Settle, Others
<1>10. Frame({g}) /\ Wakers(g)' = {} /\ pc'[g] = "return"
  BY <1>3, <1>8, <1>9, Alone
<1>11. Outcome(g)' = <<i, "ok", Head(Contents(c))>>
  <2>1. param'[g] = <<>> /\ pc'[g] # "handoff"
    BY <1>10, NotYet
  <2>. QED BY <1>9, <1>10, <2>1 DEF Outcome
<1>12. Tells(g)' /\ Shut(g)' /\ Hands(g)'
  BY <1>3, <1>9, <1>10, NotYet DEF Tells, Shut, Hands
<1>13. RInv'
  <2>1. \A d \in Chan : RingOf(ch'[d])
    BY <1>5, <1>6
  <2>. QED BY <1>10, <1>12, <2>1, Keeps
<1>14. A!Recv(g)
  <2>. DEFINE qs == [d \in Chan |-> Contents(d)]
              cl == [d \in Chan |-> ch[d].closed]
  <2>1. A!Settle(g, i, "ok", Head(Contents(c)))
    BY <1>10, <1>11, Bystanders, Settles
  <2>2. <<i, c>> \in A!Wants(g, "recv")
    BY <1>3, NotYet, Wanted
  <2>3. qs' = [qs EXCEPT ![c] = Tail(@)]
    BY <1>6, <1>7
  <2>4. UNCHANGED <<cl, op, calls>>
    BY <1>6, <1>7
  <2>5. qs[c] # <<>> /\ qs[c] = Contents(c)
    BY <1>1, <1>5
  <2>. HIDE DEF qs, cl
  <2>6. \E w \in A!Wants(g, "recv") :
          /\ qs[w[2]] # <<>> /\ qs' = [qs EXCEPT ![w[2]] = Tail(@)]
          /\ A!Settle(g, w[1], "ok", Head(qs[w[2]])) /\ UNCHANGED <<cl, op, calls>>
    BY <2>1, <2>2, <2>3, <2>4, <2>5
  <2>. QED BY <2>6 DEF A!Recv, qs, cl
<1>15. \A d \in Chan : Cap(d)' = Cap(d)
  BY <1>6, <1>7
<1>. QED BY <1>13, <1>14, <1>15, SpecSteps

\* g goes ahead with i by claiming sudog s.
Takes(g, i, s) ==
  /\ Goto(g, "handoff") /\ hand' = [hand EXCEPT ![g] = s] /\ Settle(g, i, "ok")
  /\ \A h \in G \ {g} : elem'[h] = elem[h]
  /\ UNCHANGED <<op, calls, param>> /\ ChansKeep /\ \A c \in Chan : RingOf(ch'[c])
  /\ \/ Case(g, i).dir = "send" /\ Case(s[1], s[2]).dir = "recv" /\ elem'[g] = NoVal
     \/ Case(g, i).dir = "recv" /\ Case(s[1], s[2]).dir = "send"

\* What comes of it for g and for t, whose sudog it is.
Paired(g, i, s, t) ==
  /\ RInv' /\ t # g
  /\ \A h \in G \ {g, t} : Outcome(h)' = Outcome(h)
  /\ Outcome(t) = A!Pending /\ op[t] # NoOp
  /\ Outcome(t)' = <<s[2], "ok", IF Case(t, s[2]).dir = "recv" THEN Val(g) ELSE NoVal>>
  /\ Outcome(g)' = <<i, "ok", IF Cap(Case(g, i).c) # 0 THEN elem'[g]
                              ELSE IF Case(g, i).dir = "recv" THEN Val(t) ELSE NoVal>>

LEMMA Pair ==
  ASSUME RInv, IInv', NEW g \in G, pc[g] \in {"chan", "poll"}, NEW i \in DOMAIN op[g].cases,
         NEW s, NEW t \in G, s[1] = t, pc[t] = "parked", Wakers(t) = {},
         s[2] \in DOMAIN op[t].cases, Takes(g, i, s)
  PROVE  Paired(g, i, s, t)
<1>. USE DEF RInv, Takes
<1>1. /\ t # g /\ pc'[g] = "handoff" /\ hand'[g] = s /\ ret'[g] = <<i, "ok">>
      /\ \A h \in G \ {g} : pc'[h] = pc[h] /\ hand'[h] = hand[h] /\ ret'[h] = ret[h]
  BY NotYet DEF Goto, Settle
<1>2. Wakers(g) = {} /\ Case(g, i).c \in Chan /\ param[g] = <<>>
  BY NotYet
<1>3. /\ Wakers(t)' = {g} /\ Wakers(g)' = {}
      /\ \A h \in G \ {g, t} : Wakers(h)' = Wakers(h) /\ Wakers(h) \cap {g, t} = {}
  <2>1. \A h \in G : g \notin Wakers(h) /\ t \notin Wakers(h)
    BY DEF Wakers
  <2>2. \A h \in G : \A w \in G \ {g} : w \in Wakers(h)' <=> w \in Wakers(h)
    BY <1>1 DEF Wakers
  <2>3. \A h \in G : g \in Wakers(h)' <=> h = t
    BY <1>1 DEF Wakers
  <2>4. \A h \in G : Wakers(h) \subseteq G /\ Wakers(h)' \subseteq G
    BY DEF Wakers
  <2>5. \A w \in G : w \in Wakers(t)' <=> w = g
    BY <2>2, <2>3
  <2>6. \A w \in G : w \notin Wakers(g)'
    BY <1>1, <1>2, <2>2, <2>3
  <2>7. \A h \in G \ {g, t} : \A w \in G : w \in Wakers(h)' <=> w \in Wakers(h)
    BY <2>1, <2>2, <2>3
  <2>8. \A h \in G \ {g, t} : Wakers(h)' = Wakers(h)
    BY <2>4, <2>7
  <2>9. \A h \in G \ {g, t} : Wakers(h) \cap {g, t} = {}
    BY <2>1
  <2>10. Wakers(t)' = {g}
    BY <2>4, <2>5
  <2>11. Wakers(g)' = {}
    BY <2>4, <2>6
  <2>. QED BY <2>8, <2>9, <2>10, <2>11
<1>4. Frame({g, t})
  BY <1>1, <1>3 DEF Frame
<1>5. \A h \in G \ {g, t} : Outcome(h)' = Outcome(h)
  BY <1>4, Bystanders
<1>6. param[t] = <<>> /\ Outcome(t) = A!Pending /\ ret[t] = Pending /\ elem[t] = NoVal /\ op[t] # NoOp
  BY ParkedParam, Unsettled DEF Tells
<1>7. Outcome(t)' = <<s[2], "ok", IF Case(t, s[2]).dir = "recv" THEN Val(g) ELSE NoVal>>
  <2>1. (CHOOSE w \in Wakers(t)' : TRUE) = g
    BY <1>3, OnlyOne
  <2>. QED BY <1>1, <1>3, <2>1 DEF Outcome, Case, Val
<1>8. Outcome(g)' = <<i, "ok", IF Cap(Case(g, i).c) # 0 THEN elem'[g]
                               ELSE IF Case(g, i).dir = "recv" THEN Val(t) ELSE NoVal>>
  <2>1. Cap(Case(g, i).c)' = Cap(Case(g, i).c) /\ Case(g, i)' = Case(g, i) /\ Val(t)' = Val(t)
    <3>1. Case(g, i)' = Case(g, i) /\ Val(t)' = Val(t)
      BY DEF Case, Val
    <3>. PICK c \in Chan : c = Case(g, i).c
      BY <1>2
    <3>2. Cap(c)' = Cap(c) /\ Case(g, i)'.c = c
      BY <3>1 DEF ChansKeep
    <3>. QED BY <3>1, <3>2 DEF Cap
  <2>. QED BY <1>1, <1>2, <1>3, <2>1 DEF Outcome
<1>9. Tells(g)' /\ Shut(g)' /\ Hands(g)'
  <2>1. op'[g] # NoOp /\ param'[g] = <<>> /\ op'[g] = op[g] /\ op'[t] = op[t]
    BY <1>2, NotYet
  <2>2. Tells(g)' /\ Shut(g)'
    BY <1>1, <2>1 DEF Tells, Shut
  <2>3. ret'[g][1] = i /\ ret'[g][2] = "ok" /\ hand'[g][1] = t /\ hand'[g][2] = s[2]
    BY SMTT(30), <1>1
  <2>4. Hands(g)'
    BY <2>1, <2>3 DEF Hands, Case
  <2>. QED BY <2>2, <2>4
<1>10. Tells(t)' /\ Shut(t)' /\ Hands(t)'
  BY <1>1, <1>6 DEF Tells, Shut, Hands
<1>11. RInv'
  <2>1. \A h \in {g, t} : Tells(h)' /\ Shut(h)' /\ Hands(h)'
    BY <1>9, <1>10
  <2>. QED BY <1>4, <2>1, Keeps
<1>. QED BY <1>1, <1>5, <1>6, <1>7, <1>8, <1>11 DEF Paired

\* ChanSpec's Meet of a sender x and a receiver y.
Exchange(x, i, y, j, c) ==
  /\ <<i, c>> \in A!Wants(x, "send") /\ <<j, c>> \in A!Wants(y, "recv")
  /\ ~ch[c].closed /\ (Contents(c) = <<>> \/ Len(Contents(c)) = Cap(c))
  /\ Contents(c)' = Tail(Append(Contents(c), Val(x)))
  /\ \A d \in Chan \ {c} : Contents(d)' = Contents(d)
  /\ \A d \in Chan : ch'[d].closed = ch[d].closed /\ Cap(d)' = Cap(d)
  /\ Outcome(x)' = <<i, "ok", NoVal>>
  /\ Outcome(y)' = <<j, "ok", Head(Append(Contents(c), Val(x)))>>
  /\ \A h \in G \ {x, y} : Outcome(h)' = Outcome(h)
  /\ UNCHANGED <<op, calls>>

LEMMA Meeting ==
  ASSUME NEW x \in G, NEW y \in G, x # y, NEW i, NEW j, NEW c \in Chan,
         Exchange(x, i, y, j, c)
  PROVE  Simulates
<1>. USE DEF Exchange
<1>. DEFINE qs == [d \in Chan |-> Contents(d)]
            cl == [d \in Chan |-> ch[d].closed]
            cs == [d \in Chan |-> Cap(d)]
            rs == [h \in G |-> Outcome(h)]
<1>1. A!Val(x) = Val(x)
  BY DEF A!Val, Val
<1>2. qs' = [qs EXCEPT ![c] = Tail(Append(@, A!Val(x)))]
  BY <1>1
<1>3. qs[c] = Contents(c) /\ ~cl[c] /\ (qs[c] = <<>> \/ Len(qs[c]) = cs[c])
  OBVIOUS
<1>4. UNCHANGED <<cl, op, calls>>
  OBVIOUS
<1>5. rs' = [rs EXCEPT ![x] = <<i, "ok", NoVal>>,
                       ![y] = <<j, "ok", Head(Append(qs[c], A!Val(x)))>>]
  BY <1>1
<1>. HIDE DEF qs, cl, cs, rs
<1>6. \E w \in A!Wants(x, "send"), u \in A!Wants(y, "recv") :
        /\ x # y /\ w[2] = u[2] /\ ~cl[w[2]]
        /\ qs' = [qs EXCEPT ![w[2]] = Tail(Append(@, A!Val(x)))]
        /\ qs[w[2]] = <<>> \/ Len(qs[w[2]]) = cs[w[2]]
        /\ rs' = [rs EXCEPT ![x] = <<w[1], "ok", NoVal>>,
                            ![y] = <<u[1], "ok", Head(Append(qs[w[2]], A!Val(x)))>>]
        /\ UNCHANGED <<cl, op, calls>>
  BY <1>2, <1>3, <1>4, <1>5
<1>7. A!Meet(x, y)
  BY <1>6 DEF A!Meet, qs, cl, cs, rs
<1>. QED BY <1>7, SpecSteps

\* Nobody is at closing a channel that a goroutine works on with its lock held.
LEMMA NobodyCloses ==
  ASSUME RInv, NEW c \in Chan,
         lock[c] = NoG \/ (lock[c] \in G /\ pc[lock[c]] # "closing")
  PROVE  ~Closing(c)
<1>. SUFFICES ASSUME NEW h \in G, pc[h] = "closing", Case(h, 1).c = c PROVE FALSE
  BY DEF Closing
<1>1. 1 \in DOMAIN op[h].cases /\ Missing(h) = {}
  BY CallFacts DEF RInv, IInv, Locks
<1>2. lock[c] = h
  BY <1>1 DEF Missing, SelChans
<1>. QED BY <1>2, NoneAssumption

\* The sudog that dequeue hands to a case that goes ahead: nobody has claimed it, so its
\* channel is open, and empty or full.
Finds(hs, c, dir, s) == LET w == IF dir = "recv" THEN hs[c].recvq ELSE hs[c].sendq IN
  dir \in {"send", "recv"} /\ Claim(w) > 0 /\ s = w[Claim(w)]

Found(c, dir, s, t) ==
  /\ s[1] = t /\ pc[t] = "parked" /\ Wakers(t) = {} /\ s[2] \in DOMAIN op[t].cases
  /\ Case(t, s[2]).c = c /\ Case(t, s[2]).dir = dir
  /\ ~ch[c].closed
  /\ dir = "recv" => ch[c].qcount = 0
  /\ dir = "send" => ch[c].qcount = Cap(c)

LEMMA Peer ==
  ASSUME RInv, NEW hs, Plain(hs), NEW c \in Chan, NEW dir, NEW s, Finds(hs, c, dir, s),
         ~(ch[c].closed /\ Closing(c))
  PROVE  \E t \in G : Found(c, dir, s, t)
<1>. USE DEF RInv, Plain, Finds, Found
<1>1. CASE dir = "recv"
  <2>. DEFINE w == hs[c].recvq
  <2>1. w \in Seq(Sudog) /\ IsInjective(w) /\ ToSet(w) \subseteq ToSet(ch[c].recvq)
    BY <1>1, PurgedFacts
  <2>2. s \in ToSet(ch[c].recvq) /\ ~done[s[1]]
    <3>1. Claim(w) > 0 /\ s = w[Claim(w)]
      BY <1>1
    <3>. HIDE DEF w
    <3>. QED BY <2>1, <3>1, ClaimFacts
  <2>3. s[2] \in DOMAIN op[s[1]].cases /\ Case(s[1], s[2]) = [c |-> c, dir |-> "recv"]
    BY <2>2 DEF IInv, Queued, InQueue
  <2>4. s[1] \in G /\ pc[s[1]] = "parked" /\ Wakers(s[1]) = {} /\ ~ch[c].closed /\ ch[c].qcount = 0
    BY <2>2, Unclaimed
  <2>5. Found(c, dir, s, s[1])
    BY SMTT(30), <1>1, <2>3, <2>4
  <2>. QED BY Zenon, <2>4, <2>5
<1>2. CASE dir = "send"
  <2>. DEFINE w == hs[c].sendq
  <2>1. w \in Seq(Sudog) /\ IsInjective(w) /\ ToSet(w) \subseteq ToSet(ch[c].sendq)
    BY <1>2, PurgedFacts
  <2>2. s \in ToSet(ch[c].sendq) /\ ~done[s[1]]
    <3>1. Claim(w) > 0 /\ s = w[Claim(w)]
      BY <1>2
    <3>. HIDE DEF w
    <3>. QED BY <2>1, <3>1, ClaimFacts
  <2>3. s[2] \in DOMAIN op[s[1]].cases /\ Case(s[1], s[2]) = [c |-> c, dir |-> "send"]
    BY <2>2 DEF IInv, Queued, InQueue
  <2>4. s[1] \in G /\ pc[s[1]] = "parked" /\ Wakers(s[1]) = {} /\ ~ch[c].closed /\ ch[c].qcount = Cap(c)
    BY <2>2, Unclaimed
  <2>5. Found(c, dir, s, s[1])
    BY SMTT(30), <1>2, <2>3, <2>4
  <2>. QED BY Zenon, <2>4, <2>5
<1>. QED BY Zenon, <1>1, <1>2

LEMMA SendToReceiverRefines ==
  ASSUME RInv, IInv', NEW g \in G, pc[g] \in {"chan", "poll"}, NEW hs, Plain(hs),
         NEW i \in DOMAIN op[g].cases, SendToReceiver(g, i, hs),
         UNCHANGED <<op, calls, param>>
  PROVE  RInv' /\ Simulates
<1>. PICK c \in Chan : c = Case(g, i).c
  BY NotYet
<1>. PICK w : w = hs[c].recvq
  OBVIOUS
<1>. PICK s : s = w[Claim(w)]
  OBVIOUS
<1>1. /\ Case(g, i).dir = "send" /\ Claim(w) > 0 /\ ch' = [hs EXCEPT ![c].recvq = Dequeued(w)]
      /\ hand' = [hand EXCEPT ![g] = s] /\ Settle(g, i, "ok") /\ Goto(g, "handoff")
      /\ UNCHANGED elem /\ DOMAIN hs = Chan
  BY SMTT(30) DEF SendToReceiver, Plain, Purged
<1>2. PICK t \in G : Found(c, "recv", s, t)
  <2>1. Finds(hs, c, "recv", s)
    BY <1>1 DEF Finds
  <2>2. ~ch[c].closed
    BY PlainFacts DEF SendToReceiver
  <2>. QED BY <2>1, <2>2, Peer
<1>2a. /\ s[1] = t /\ pc[t] = "parked" /\ Wakers(t) = {} /\ s[2] \in DOMAIN op[t].cases
       /\ Case(t, s[2]).c = c /\ Case(t, s[2]).dir = "recv" /\ ~ch[c].closed
       /\ ch[c].qcount = 0
  BY <1>2 DEF Found
<1>3. \A d \in Chan : Same(ch[d], ch'[d])
  <2>1. hs[c] \in Hchans(Cap(c))
    BY PlainFacts
  <2>2. Same(hs[c], ch'[c])
    BY <1>1, <2>1 DEF Same, Hchans
  <2>3. \A d \in Chan \ {c} : ch'[d] = hs[d]
    BY <1>1
  <2>. QED BY <2>2, <2>3 DEF Plain, Same
<1>4. \A d \in Chan : /\ Cap(d)' = Cap(d) /\ Contents(d)' = Contents(d)
                      /\ ch'[d].closed = ch[d].closed /\ RingOf(ch'[d])
  BY <1>3, Undisturbed DEF RInv
<1>5. elem'[g] = NoVal /\ Outcome(g) = A!Pending
  BY <1>1, NotYet
<1>6. ChansKeep
  BY SMTT(30), <1>3, Untouched
<1>7. /\ RInv' /\ t # g
      /\ \A h \in G \ {g, t} : Outcome(h)' = Outcome(h)
      /\ Outcome(t) = A!Pending /\ op[t] # NoOp
      /\ Outcome(t)' = <<s[2], "ok", IF Case(t, s[2]).dir = "recv" THEN Val(g) ELSE NoVal>>
      /\ Outcome(g)' = <<i, "ok", IF Cap(Case(g, i).c) # 0 THEN elem'[g]
                                  ELSE IF Case(g, i).dir = "recv" THEN Val(t) ELSE NoVal>>
  <2>1. \A h \in G \ {g} : elem'[h] = elem[h]
    BY SMTT(30), <1>1
  <2>2. Case(g, i).dir = "send" /\ Case(s[1], s[2]).dir = "recv" /\ elem'[g] = NoVal
    BY Zenon, <1>1, <1>2a, <1>5
  <2>3. \A d \in Chan : RingOf(ch'[d])
    BY <1>4
  <2>4. Takes(g, i, s)
    BY SMTT(30), <1>1, <1>6, <2>1, <2>2, <2>3 DEF Takes
  <2>5. s[1] = t /\ pc[t] = "parked" /\ Wakers(t) = {} /\ s[2] \in DOMAIN op[t].cases
    BY ZenonT(60), <1>2a
  <2>6. Paired(g, i, s, t)
    BY SMTT(30), <2>4, <2>5, Pair
  <2>. QED BY Zenon, <2>6 DEF Paired
<1>8. Outcome(g)' = <<i, "ok", NoVal>> /\ Outcome(t)' = <<s[2], "ok", Val(g)>>
  <2>1. Case(g, i).dir = "send" /\ Case(t, s[2]).dir = "recv"
    BY ZenonT(60), <1>1, <1>2a
  <2>. QED BY SMTT(30), <1>5, <1>7, <2>1
<1>9. Contents(c) = <<>>
  BY ZenonT(60), <1>2a, PlainFacts
<1>10. <<i, c>> \in A!Wants(g, "send") /\ <<s[2], c>> \in A!Wants(t, "recv")
  <2>1. <<i, c>> \in A!Wants(g, "send")
    BY <1>1, <1>5, Wants
  <2>2. pc[t] # "idle" /\ Case(t, s[2]).c = c /\ Case(t, s[2]).dir = "recv"
    BY SMTT(30), <1>2a
  <2>3. <<s[2], c>> \in A!Wants(t, "recv")
    BY ZenonT(60), <1>2a, <1>7, <2>2, Wants
  <2>. QED BY <2>1, <2>3
<1>11. Head(Append(<<>>, Val(g))) = Val(g) /\ Tail(Append(<<>>, Val(g))) = <<>>
  OBVIOUS
<1>12. /\ Outcome(t)' = <<s[2], "ok", Head(Append(Contents(c), Val(g)))>>
       /\ Contents(c)' = Tail(Append(Contents(c), Val(g)))
  BY <1>4, <1>8, <1>9, <1>11
<1>13. Exchange(g, i, t, s[2], c)
  BY ZenonT(60), <1>2a, <1>4, <1>7, <1>8, <1>9, <1>10, <1>12 DEF Exchange
<1>14. Simulates
  BY ZenonT(60), <1>7, <1>13, Meeting
<1>. QED BY <1>7, <1>14

LEMMA RecvFromSenderRefines ==
  ASSUME RInv, IInv', NEW g \in G, pc[g] \in {"chan", "poll"}, NEW hs, Plain(hs),
         NEW i \in DOMAIN op[g].cases, RecvFromSender(g, i, hs), ~Closing(Case(g, i).c),
         UNCHANGED <<op, calls, param>>
  PROVE  RInv' /\ Simulates
<1>. PICK c \in Chan : c = Case(g, i).c
  BY NotYet
<1>. PICK w : w = hs[c].sendq
  OBVIOUS
<1>. PICK s : s = w[Claim(w)]
  OBVIOUS
<1>. DEFINE h == hs[c]  b == ch'[c]  n == Cap(c)
<1>1. /\ Case(g, i).dir = "recv" /\ Claim(w) > 0 /\ hand' = [hand EXCEPT ![g] = s]
      /\ Settle(g, i, "ok") /\ Goto(g, "handoff") /\ DOMAIN hs = Chan
      /\ n = 0 => ch' = [hs EXCEPT ![c].sendq = Dequeued(w)] /\ UNCHANGED elem
      /\ n # 0 => /\ ch' = [hs EXCEPT ![c].sendq = Dequeued(w),
                                     ![c].buf[h.recvx] = Val(s[1]),
                                     ![c].recvx = Step(c, @),
                                     ![c].sendx = Step(c, h.recvx)]
                  /\ elem' = [elem EXCEPT ![g] = h.buf[h.recvx]]
  BY ZenonT(60) DEF RecvFromSender, Plain, Purged
<1>2. PICK t \in G : Found(c, "send", s, t)
  <2>1. Finds(hs, c, "send", s)
    BY <1>1 DEF Finds
  <2>. QED BY <2>1, Peer
<1>2a. /\ s[1] = t /\ pc[t] = "parked" /\ Wakers(t) = {} /\ s[2] \in DOMAIN op[t].cases
       /\ Case(t, s[2]).c = c /\ Case(t, s[2]).dir = "send" /\ ~ch[c].closed
       /\ ch[c].qcount = n
  BY <1>2 DEF Found
<1>3. /\ h \in Hchans(n) /\ n \in Nat /\ h.dataqsiz = n /\ h.closed = ch[c].closed
      /\ h.qcount = ch[c].qcount /\ Contents(c) = Queue(h) /\ RingOf(h)
      /\ Len(Contents(c)) = ch[c].qcount /\ (ch[c].qcount = 0 <=> Contents(c) = <<>>)
  BY PlainFacts
<1>4. b \in Hchans(n)
  <2>1. Fire(g, i, hs)
    BY DEF Fire
  <2>2. Typed
    BY <2>1, FireParking DEF Plain, RInv
  <2>. QED BY <2>2 DEF Typed
<1>5. Val(t) \in Value
  <2>1. TypeOK /\ Calling /\ pc[t] # "idle"
    BY SMTT(30), <1>2a DEF RInv, IInv
  <2>. QED BY SMTT(30), <2>1, CallFacts
<1>6. \A d \in Chan \ {c} : ch'[d] = hs[d]
  BY <1>1
<1>7. /\ b.dataqsiz = h.dataqsiz /\ b.qcount = h.qcount /\ b.closed = h.closed
      /\ n = 0 => b.recvx = h.recvx /\ b.sendx = h.sendx /\ b.buf = h.buf
      /\ n # 0 => /\ b.buf = [h.buf EXCEPT ![h.recvx] = Val(t)]
                  /\ b.recvx = (h.recvx + 1) % n /\ b.sendx = b.recvx
  <2>1. CASE n = 0
    <3>1. ch' = [hs EXCEPT ![c].sendq = Dequeued(w)]
      BY SMTT(30), <1>1, <2>1
    <3>2. b = [h EXCEPT !.sendq = Dequeued(w)]
      BY SMTT(30), <1>1, <3>1
    <3>. HIDE DEF b, h, n
    <3>. QED BY <1>3, <2>1, <3>2 DEF Hchans
  <2>2. CASE n # 0
    <3>1. ch' = [hs EXCEPT ![c].sendq = Dequeued(w), ![c].buf[h.recvx] = Val(t),
                           ![c].recvx = Step(c, @), ![c].sendx = Step(c, h.recvx)]
      BY Zenon, <1>1, <1>2a, <2>2
    <3>2. b = [h EXCEPT !.sendq = Dequeued(w), !.buf[h.recvx] = Val(t),
                        !.recvx = Step(c, @), !.sendx = Step(c, h.recvx)]
      BY <1>1, <3>1
    <3>3. Step(c, h.recvx) = (h.recvx + 1) % n
      BY DEF Step
    <3>. HIDE DEF b, h, n
    <3>. QED BY <1>3, <2>2, <3>2, <3>3 DEF Hchans
  <2>. QED BY <2>1, <2>2
<1>8. /\ Queue(b) = Tail(Append(Queue(h), Val(t))) /\ RingOf(b)
      /\ n # 0 => elem'[g] = Head(Append(Queue(h), Val(t)))
  <2>1. CASE n = 0
    <3>1. Queue(b) = Queue(h) /\ RingOf(b)
      BY <1>3, <1>7, <2>1 DEF Queue, RingOf
    <3>2. Queue(h) = <<>>
      BY <1>2a, <1>3, <2>1
    <3>3. Tail(Append(<<>>, Val(t))) = <<>>
      OBVIOUS
    <3>. QED BY <2>1, <3>1, <3>2, <3>3
  <2>2. CASE n # 0
    <3>1. elem'[g] = h.buf[h.recvx]
      BY SMTT(30), <1>1, <2>2, NotYet
    <3>. HIDE DEF b, h, n
    <3>2. n > 0 /\ h.qcount = n /\ b.qcount = n
      <4>1. n \in Nat /\ n # 0 => n > 0
        OBVIOUS
      <4>. QED BY ZenonT(60), <1>2a, <1>3, <1>7, <2>2, <4>1
    <3>. QED BY SMTT(30), <1>3, <1>4, <1>5, <1>7, <2>2, <3>1, <3>2, RingTurns
  <2>. QED BY <2>1, <2>2
<1>9. Cap(c)' = Cap(c) /\ Contents(c)' = Tail(Append(Contents(c), Val(t))) /\ ch'[c].closed = ch[c].closed
  BY Zenon, <1>3, <1>7, <1>8 DEF Contents, Queue, Cap
<1>10. ASSUME NEW d \in Chan \ {c}
       PROVE  /\ Cap(d)' = Cap(d) /\ Contents(d)' = Contents(d) /\ ch'[d].closed = ch[d].closed
              /\ ch'[d].qcount = ch[d].qcount /\ RingOf(ch'[d])
  <2>1. Same(ch[d], ch'[d])
    BY SMTT(30), <1>6 DEF Plain
  <2>. QED BY <2>1, Undisturbed DEF RInv
<1>11. ChansKeep /\ \A d \in Chan : RingOf(ch'[d])
  <2>1. \A d \in Chan : d = c \/ d \in Chan \ {c}
    OBVIOUS
  <2>. QED BY ZenonT(60), <1>2a, <1>8, <1>9, <1>10, <2>1 DEF ChansKeep
<1>12. Outcome(g) = A!Pending
  BY NotYet
<1>13. /\ RInv' /\ t # g
       /\ \A x \in G \ {g, t} : Outcome(x)' = Outcome(x)
       /\ Outcome(t) = A!Pending /\ op[t] # NoOp
       /\ Outcome(t)' = <<s[2], "ok", IF Case(t, s[2]).dir = "recv" THEN Val(g) ELSE NoVal>>
       /\ Outcome(g)' = <<i, "ok", IF Cap(Case(g, i).c) # 0 THEN elem'[g]
                                   ELSE IF Case(g, i).dir = "recv" THEN Val(t) ELSE NoVal>>
  <2>1. \A x \in G \ {g} : elem'[x] = elem[x]
    <3>1. DOMAIN elem = G
      BY NotYet
    <3>. HIDE DEF n
    <3>2. CASE n = 0
      BY SMTT(30), <1>1, <3>2
    <3>3. CASE n # 0
      BY SMTT(30), <1>1, <3>1, <3>3
    <3>. QED BY <3>2, <3>3
  <2>2. Case(g, i).dir = "recv" /\ Case(s[1], s[2]).dir = "send"
    BY ZenonT(60), <1>1, <1>2a
  <2>3. Takes(g, i, s)
    <3>1. Goto(g, "handoff") /\ hand' = [hand EXCEPT ![g] = s] /\ Settle(g, i, "ok")
      BY Zenon, <1>1
    <3>. QED BY Zenon, <1>11, <2>1, <2>2, <3>1 DEF Takes
  <2>4. s[1] = t /\ pc[t] = "parked" /\ Wakers(t) = {} /\ s[2] \in DOMAIN op[t].cases
    BY SMTT(30), <1>2a
  <2>5. Paired(g, i, s, t)
    BY SMTT(30), <2>3, <2>4, Pair
  <2>. QED BY Zenon, <2>5 DEF Paired
<1>14. Outcome(t)' = <<s[2], "ok", NoVal>>
  <2>1. Case(t, s[2]).dir # "recv"
    BY <1>2a
  <2>. QED BY SMTT(30), <1>13, <2>1
<1>15. Outcome(g)' = <<i, "ok", Head(Append(Contents(c), Val(t)))>>
  <2>1. CASE n = 0
    <3>1. Contents(c) = <<>>
      BY <1>2a, <1>3, <2>1
    <3>2. Head(Append(<<>>, Val(t))) = Val(t)
      OBVIOUS
    <3>3. Outcome(g)' = <<i, "ok", Val(t)>>
      BY SMTT(30), <1>1, <1>13, <2>1
    <3>. QED BY SMTT(30), <3>1, <3>2, <3>3
  <2>2. CASE n # 0
    BY Zenon, <1>3, <1>8, <1>13, <2>2
  <2>. QED BY <2>1, <2>2
<1>16. <<i, c>> \in A!Wants(g, "recv") /\ <<s[2], c>> \in A!Wants(t, "send")
  <2>1. <<i, c>> \in A!Wants(g, "recv")
    BY SMTT(30), <1>1, <1>12, Wants
  <2>2. pc[t] # "idle" /\ Case(t, s[2]).c = c /\ Case(t, s[2]).dir = "send"
    BY SMTT(30), <1>2a
  <2>3. <<s[2], c>> \in A!Wants(t, "send")
    BY ZenonT(60), <1>2a, <1>13, <2>2, Wants
  <2>. QED BY SMTT(30), <2>1, <2>3
<1>17. Exchange(t, s[2], g, i, c)
  <2>1. \A x \in G \ {t, g} : Outcome(x)' = Outcome(x)
    BY SMTT(30), <1>13
  <2>2. Len(Contents(c)) = Cap(c) /\ ~ch[c].closed
    BY <1>2a, <1>3
  <2>3. \A d \in Chan : ch'[d].closed = ch[d].closed /\ Cap(d)' = Cap(d)
    BY SMTT(30), <1>9, <1>10
  <2>. QED BY ZenonT(60), <1>9, <1>10, <1>14, <1>15, <1>16, <2>1, <2>2, <2>3 DEF Exchange
<1>18. Simulates
  BY Zenon, <1>13, <1>17, Meeting
<1>. QED BY <1>13, <1>18

LEMMA FireRefines ==
  ASSUME RInv, IInv', NEW g \in G, pc[g] \in {"chan", "poll"}, NEW hs, Plain(hs),
         NEW i \in DOMAIN op[g].cases, Fire(g, i, hs), ~Closing(Case(g, i).c),
         UNCHANGED <<op, calls, param>>
  PROVE  RInv' /\ Simulates
<1>1. CASE SendClosed(g, i, hs)
  BY <1>1, ClosedRefines
<1>2. CASE SendToReceiver(g, i, hs)
  BY <1>2, SendToReceiverRefines
<1>3. CASE SendToBuffer(g, i, hs)
  BY <1>3, SendToBufferRefines
<1>4. CASE RecvFromSender(g, i, hs)
  BY <1>4, RecvFromSenderRefines
<1>5. CASE RecvFromBuffer(g, i, hs)
  BY <1>5, RecvFromBufferRefines
<1>6. CASE RecvClosed(g, i, hs)
  BY <1>6, ClosedRefines
<1>. QED BY <1>1, <1>2, <1>3, <1>4, <1>5, <1>6 DEF Fire

\* What an examined case leaves, and what a goroutine that parks joins.
LEMMA PlainCh == RInv => Plain(ch)
BY UntouchedPurged DEF RInv, Plain, Same

LEMMA PlainDrained ==
  ASSUME RInv, NEW cs, Purged(Drained(ch, cs))
  PROVE  Plain(Drained(ch, cs))
<1>1. ASSUME NEW c \in Chan PROVE Same(ch[c], Drained(ch, cs)[c])
  <2>1. ch[c] \in Hchans(Cap(c))
    BY ChanFacts DEF RInv, IInv
  <2>. PICK v, w : Drained(ch, cs)[c] = [ch[c] EXCEPT !.recvq = v, !.sendq = w]
    BY DEF Drained
  <2>. QED BY <2>1 DEF Same, Hchans
<1>. QED BY <1>1 DEF Plain

\* The call gives up, or parks.
LEMMA DefaultRefines ==
  ASSUME RInv, IInv', NEW g \in G, pc[g] \in {"chan", "poll"}, NEW hs, Plain(hs), ch' = hs,
         ~op[g].block, \A j \in DOMAIN op[g].cases : LET k == Case(g, j) IN
                         ~Ready(ch[k.c], k.c, k.dir),
         Settle(g, 0, "default"), Goto(g, "return"),
         UNCHANGED <<op, calls, param, hand, elem>>
  PROVE  RInv' /\ Simulates
<1>0. 1 \in DOMAIN op[g].cases
  BY CallFacts DEF RInv, IInv
<1>1. /\ Wakers(g) = {} /\ param[g] = <<>> /\ Outcome(g) = A!Pending /\ elem[g] = NoVal
      /\ op[g] # NoOp /\ DOMAIN ret = G
  BY <1>0, NotYet
<1>2. \A d \in Chan : Same(ch[d], ch'[d])
  BY PlainStep
<1>3. ret'[g] = <<0, "default">> /\ Others(g)
  BY <1>1 DEF Settle, Others
<1>4. Frame({g}) /\ Wakers(g)' = {} /\ pc'[g] = "return"
  BY <1>2, <1>3, Alone, Untouched
<1>5. param'[g] = <<>> /\ elem'[g] = NoVal /\ pc'[g] # "handoff"
  BY <1>1, <1>4
<1>6. Outcome(g)' = <<0, "default", NoVal>>
  BY <1>3, <1>4, <1>5 DEF Outcome
<1>7. Tells(g)' /\ Shut(g)' /\ Hands(g)'
  BY <1>1, <1>3, <1>4, <1>5 DEF Tells, Shut, Hands
<1>8. pc[g] # "idle"
  OBVIOUS
<1>. QED BY <1>1, <1>2, <1>4, <1>6, <1>7, <1>8, SettlingStep

LEMMA ParkRefines ==
  ASSUME RInv, IInv', NEW g \in G, pc[g] \in {"chan", "poll"},
         \A d \in Chan : Same(ch[d], ch'[d]),
         param' = [param EXCEPT ![g] = <<>>], Goto(g, "parked"),
         UNCHANGED <<op, calls, hand, elem, ret>>
  PROVE  RInv' /\ Simulates
<1>0. 1 \in DOMAIN op[g].cases /\ DOMAIN param = G
  BY CallFacts DEF RInv, IInv, TypeOK
<1>1. /\ Wakers(g) = {} /\ param[g] = <<>> /\ elem[g] = NoVal /\ op[g] # NoOp
      /\ ret[g] = Pending
  BY <1>0, NotYet, Unsettled
<1>2. param'[g] = <<>> /\ Others(g)
  BY <1>0 DEF Others
<1>3. Frame({g}) /\ Wakers(g)' = {} /\ pc'[g] = "parked"
  BY <1>2, Alone, Untouched
<1>4. Outcome(g)' = Outcome(g)
  BY <1>1, <1>2, <1>3 DEF Outcome
<1>5. Tells(g)' /\ Shut(g)' /\ Hands(g)'
  BY <1>1, <1>2, <1>3 DEF Tells, Shut, Hands
<1>. QED BY <1>3, <1>4, <1>5, QuietStep

LEMMA ChanOpRefines ==
  ASSUME RInv, IInv', NEW g \in G, ChanOp(g)
  PROVE  RInv' /\ Simulates
<1>. USE DEF RInv
<1>. DEFINE k == Case(g, 1)  hs == Drained(ch, {k})
<1>1. /\ pc[g] = "chan" /\ DOMAIN op[g].cases = {1} /\ k.c \in Chan
      /\ UNCHANGED <<op, calls>>
  <2>1. pc[g] = "chan" /\ ~op[g].sel /\ k.dir # "close" /\ UNCHANGED <<op, calls>>
    BY DEF ChanOp, IInv, Calling
  <2>. QED BY <2>1, CallFacts DEF IInv
<1>2. CASE Fire(g, 1, ch) /\ UNCHANGED param
  <2>1. Plain(ch)
    BY PlainCh
  <2>2. 1 \in DOMAIN op[g].cases
    BY <1>1
  <2>3. ~Closing(k.c)
    BY <1>1, NobodyCloses DEF ChanOp
  <2>. QED BY <1>1, <1>2, <2>1, <2>2, <2>3, FireRefines
<1>3. ASSUME ~Ready(ch[k.c], k.c, k.dir) PROVE Plain(hs)
  <2>1. \A c \in Chan, dir \in {"send", "recv"} :
          [c |-> c, dir |-> dir] \in {k} => ~Ready(ch[c], c, dir)
    BY <1>3
  <2>. HIDE DEF k
  <2>2. Purged(hs)
    BY <2>1, DrainedPurged
  <2>. QED BY <2>2, PlainDrained
<1>4. CASE /\ ~Ready(ch[k.c], k.c, k.dir) /\ ~op[g].block
           /\ ch' = hs
           /\ Settle(g, 0, "default") /\ Goto(g, "return")
           /\ UNCHANGED <<done, param, hand, elem>>
  <2>1. \A j \in DOMAIN op[g].cases : LET l == Case(g, j) IN ~Ready(ch[l.c], l.c, l.dir)
    BY <1>1, <1>4
  <2>2. Plain(hs)
    BY <1>3, <1>4
  <2>. HIDE DEF hs, k
  <2>. QED BY <1>1, <1>4, <2>1, <2>2, DefaultRefines
<1>5. CASE /\ ~Ready(ch[k.c], k.c, k.dir)
           /\ ch' = Enqueue(hs, <<g, 1>>, k)
           /\ param' = [param EXCEPT ![g] = <<>>]
           /\ Goto(g, "parked")
           /\ UNCHANGED <<done, hand, elem, ret>>
  <2>1. Plain(hs)
    BY <1>3, <1>5
  <2>. HIDE DEF hs, k
  <2>2. ASSUME NEW d \in Chan PROVE Same(hs[d], ch'[d])
    <3>1. DOMAIN hs = Chan /\ hs[d] \in Hchans(Cap(d))
      BY <2>1, PlainFacts DEF Plain, Purged
    <3>2. CASE d # k.c
      <4>1. ch'[d] = hs[d]
        BY <1>5, <3>1, <3>2 DEF Enqueue
      <4>. QED BY <4>1 DEF Same
    <3>3. CASE d = k.c
      <4>. PICK v, w : ch'[d] = [hs[d] EXCEPT !.recvq = v] \/ ch'[d] = [hs[d] EXCEPT !.sendq = w]
        BY <1>5, <3>1, <3>3 DEF Enqueue
      <4>. QED BY <3>1 DEF Same, Hchans
    <3>. QED BY <3>2, <3>3
  <2>3. \A d \in Chan : Same(ch[d], ch'[d])
    BY <2>1, <2>2 DEF Plain, Same
  <2>. QED BY <1>1, <1>5, <2>3, ParkRefines
<1>. QED BY <1>2, <1>4, <1>5 DEF ChanOp

LEMMA PollRefines ==
  ASSUME RInv, IInv', NEW g \in G, Poll(g)
  PROVE  RInv' /\ Simulates
<1>. USE DEF RInv
<1>. DEFINE ready(p, j) == LET k == Case(g, p[j]) IN Ready(ch[k.c], k.c, k.dir)
            seen(p, n) == {Case(g, p[j]) : j \in 1..n}
<1>1. pc[g] = "poll" /\ UNCHANGED <<op, calls>>
  BY DEF Poll
<1>2. PICK p \in SetToSeqs(DOMAIN op[g].cases) :
        \/ \E j \in DOMAIN p :
             /\ \A i \in 1..j - 1 : ~ready(p, i)
             /\ Fire(g, p[j], Drained(ch, seen(p, j - 1)))
             /\ UNCHANGED param
        \/ /\ \A j \in DOMAIN p : ~ready(p, j)
           /\ ~op[g].block
           /\ ch' = Drained(ch, seen(p, Len(p)))
           /\ Settle(g, 0, "default") /\ Goto(g, "return")
           /\ UNCHANGED <<param, hand, elem>>
        \/ /\ \A j \in DOMAIN p : ~ready(p, j)
           /\ ch' = EnqueueAll(Drained(ch, seen(p, Len(p))), g, p)
           /\ param' = [param EXCEPT ![g] = <<>>]
           /\ Goto(g, "parked")
           /\ UNCHANGED <<hand, elem, ret>>
  BY DEF Poll
<1>3. /\ Len(p) \in Nat /\ DOMAIN p = 1..Len(p)
      /\ \A j \in DOMAIN p : p[j] \in DOMAIN op[g].cases
      /\ \A i \in DOMAIN op[g].cases : \E j \in DOMAIN p : p[j] = i
  BY <1>1, OrderFacts
<1>4. ASSUME NEW n \in 0..Len(p), \A j \in 1..n : ~ready(p, j)
      PROVE  Plain(Drained(ch, seen(p, n)))
  <2>1. ASSUME NEW c \in Chan, NEW dir \in {"send", "recv"},
               [c |-> c, dir |-> dir] \in seen(p, n)
        PROVE  ~Ready(ch[c], c, dir)
    <3>1. PICK j \in 1..n : Case(g, p[j]) = [c |-> c, dir |-> dir]
      BY <2>1
    <3>2. Case(g, p[j]).c = c /\ Case(g, p[j]).dir = dir
      BY <3>1
    <3>. QED BY <1>4, <3>2
  <2>. HIDE DEF seen
  <2>2. Purged(Drained(ch, seen(p, n)))
    BY <2>1, DrainedPurged
  <2>. QED BY <2>2, PlainDrained
<1>5. CASE \E j \in DOMAIN p : /\ \A i \in 1..j - 1 : ~ready(p, i)
                               /\ Fire(g, p[j], Drained(ch, seen(p, j - 1)))
                               /\ UNCHANGED param
  <2>1. PICK j \in DOMAIN p : /\ \A i \in 1..j - 1 : ~ready(p, i)
                              /\ Fire(g, p[j], Drained(ch, seen(p, j - 1)))
                              /\ UNCHANGED param
    BY <1>5
  <2>2. j - 1 \in 0..Len(p) /\ p[j] \in DOMAIN op[g].cases
    BY <1>3
  <2>3. Plain(Drained(ch, seen(p, j - 1)))
    BY <1>4, <2>1, <2>2
  <2>4. ~Closing(Case(g, p[j]).c)
    <3>1. Case(g, p[j]).c \in Chan /\ Case(g, p[j]).c \in SelChans(g)
      BY <1>1, <2>2, CallFacts DEF IInv, SelChans
    <3>2. Missing(g) = {}
      BY <1>1 DEF IInv, Locks
    <3>3. lock[Case(g, p[j]).c] = g
      BY <3>1, <3>2 DEF Missing
    <3>. QED BY <1>1, <3>1, <3>3, NobodyCloses
  <2>. HIDE DEF ready, seen
  <2>. QED BY <1>1, <2>1, <2>2, <2>3, <2>4, FireRefines
<1>6. ASSUME \A j \in DOMAIN p : ~ready(p, j)
      PROVE  /\ Plain(Drained(ch, seen(p, Len(p))))
             /\ \A i \in DOMAIN op[g].cases : LET k == Case(g, i) IN ~Ready(ch[k.c], k.c, k.dir)
  <2>1. Plain(Drained(ch, seen(p, Len(p))))
    <3>1. Len(p) \in 0..Len(p) /\ \A j \in 1..Len(p) : ~ready(p, j)
      BY <1>3, <1>6
    <3>. HIDE DEF ready, seen
    <3>. QED BY <1>4, <3>1
  <2>2. ASSUME NEW i \in DOMAIN op[g].cases
        PROVE  LET k == Case(g, i) IN ~Ready(ch[k.c], k.c, k.dir)
    <3>1. PICK j \in DOMAIN p : p[j] = i
      BY <1>3
    <3>2. ~ready(p, j)
      BY <1>6
    <3>. QED BY <3>1, <3>2
  <2>. QED BY <2>1, <2>2
<1>7. CASE /\ \A j \in DOMAIN p : ~ready(p, j)
           /\ ~op[g].block
           /\ ch' = Drained(ch, seen(p, Len(p)))
           /\ Settle(g, 0, "default") /\ Goto(g, "return")
           /\ UNCHANGED <<param, hand, elem>>
  <2>. HIDE DEF ready, seen
  <2>. QED BY <1>1, <1>6, <1>7, DefaultRefines
<1>8. CASE /\ \A j \in DOMAIN p : ~ready(p, j)
           /\ ch' = EnqueueAll(Drained(ch, seen(p, Len(p))), g, p)
           /\ param' = [param EXCEPT ![g] = <<>>]
           /\ Goto(g, "parked")
           /\ UNCHANGED <<hand, elem, ret>>
  <2>. DEFINE hs == Drained(ch, seen(p, Len(p)))
  <2>1. Plain(hs)
    BY <1>6, <1>8
  <2>2. ch' = EnqueueAll(hs, g, p)
    BY <1>8
  <2>. HIDE DEF ready, seen, hs
  <2>3. ASSUME NEW d \in Chan PROVE Same(hs[d], ch'[d])
    <3>1. hs[d] \in Hchans(Cap(d))
      BY <2>1, PlainFacts
    <3>. PICK v, w : ch'[d] = [hs[d] EXCEPT !.sendq = v, !.recvq = w]
      BY <2>2 DEF EnqueueAll
    <3>. QED BY <3>1 DEF Same, Hchans
  <2>4. \A d \in Chan : Same(ch[d], ch'[d])
    BY <2>1, <2>3 DEF Plain, Same
  <2>. QED BY <1>1, <1>8, <2>4, ParkRefines
<1>. QED BY <1>2, <1>5, <1>7, <1>8

-----------------------------------------------------------------------------
\* All of it: ChanSpec allows where Chan starts and every step it takes.
LEMMA Starts == Init => RInv /\ A!Init
<1>. SUFFICES ASSUME Init PROVE RInv /\ A!Init
  OBVIOUS
<1>1. IInv
  BY InitIInv
<1>. PICK size \in Sizes : ch = [c \in Chan |-> Hchan(size[c])]
  BY DEF Init
<1>2. size \in [Chan -> Nat]
  BY ChanAssumption
<1>3. ASSUME NEW c \in Chan
      PROVE  /\ ch[c].dataqsiz = size[c] /\ ch[c].qcount = 0 /\ ch[c].recvx = 0
             /\ ch[c].sendx = 0 /\ ch[c].closed = FALSE /\ Cap(c) = size[c]
  BY DEF Hchan, Cap
<1>4. ASSUME NEW c \in Chan PROVE RingOf(ch[c])
  <2>1. CASE size[c] > 0
    <3>1. size[c] \in Nat \ {0} /\ 0 < size[c] + size[c]
      BY <1>2, <2>1
    <3>2. 0 % size[c] = Spot(size[c], 0)
      BY <3>1, Wrap
    <3>3. 0 % size[c] = 0
      BY <2>1, <3>2 DEF Spot
    <3>4. ch[c].recvx = 0 /\ ch[c].qcount = 0 /\ ch[c].sendx = 0 /\ ch[c].dataqsiz = size[c]
      BY <1>3
    <3>5. ch[c].recvx + ch[c].qcount = 0
      BY ONLY <3>4
    <3>. QED BY <3>3, <3>4, <3>5 DEF RingOf
  <2>2. CASE ~(size[c] > 0)
    BY <1>3, <2>2 DEF RingOf
  <2>. QED BY <2>1, <2>2
<1>5. ASSUME NEW c \in Chan PROVE Contents(c) = <<>>
  <2>1. ch[c] \in Hchans(Cap(c)) /\ Cap(c) \in Nat
    BY <1>1, ChanFacts DEF IInv
  <2>2. Contents(c) = Queue(ch[c])
    BY DEF Contents, Queue, Cap
  <2>3. Queue(ch[c]) \in Seq(Value) /\ Len(Queue(ch[c])) = 0
    BY <1>3, <2>1, RingFacts
  <2>. QED BY <2>2, <2>3, EmptySeq
<1>6. ASSUME NEW g \in G
      PROVE  /\ pc[g] = "idle" /\ op[g] = NoOp /\ calls[g] = 0 /\ param[g] = <<>>
             /\ elem[g] = NoVal /\ ret[g] = Pending /\ Wakers(g) = {}
  BY DEF Init, Wakers
<1>7. ASSUME NEW g \in G PROVE Tells(g) /\ Shut(g) /\ Hands(g)
  BY <1>6 DEF Tells, Shut, Hands
<1>8. RInv
  BY <1>1, <1>4, <1>7 DEF RInv
<1>9. \A g \in G : Outcome(g) = A!Pending
  BY <1>6, <1>8, Unsettled
<1>10. A!Init
  <2>1. [c \in Chan |-> Cap(c)] = size
    BY <1>2, <1>3
  <2>2. [c \in Chan |-> Contents(c)] = [c \in Chan |-> <<>>]
    BY <1>5
  <2>3. [c \in Chan |-> ch[c].closed] = [c \in Chan |-> FALSE]
    BY <1>3
  <2>4. op = [g \in G |-> NoOp] /\ calls = [g \in G |-> 0]
    BY DEF Init
  <2>5. [g \in G |-> Outcome(g)] = [g \in G |-> A!Pending]
    BY <1>9
  <2>. QED BY <2>1, <2>2, <2>3, <2>4, <2>5 DEF A!Init
<1>. QED BY <1>8, <1>10

LEMMA StepRefines == RInv /\ [Next]_vars => RInv' /\ [A!Next]_(A!vars)
<1>. SUFFICES ASSUME RInv, [Next]_vars PROVE RInv' /\ Simulates
  BY DEF Simulates
<1>1. IInv'
  BY NextIInv DEF RInv
<1>2. CASE UNCHANGED vars
  <2>1. UNCHANGED <<ch, pc, op, calls, param, hand, elem, ret>>
    BY <1>2 DEF vars
  <2>2. \A g \in G : Outcome(g)' = Outcome(g)
    BY SMTT(30), <2>1 DEF Outcome, Wakers, Case, Cap, Val
  <2>3. \A g \in G : Tells(g)' /\ Shut(g)' /\ Hands(g)'
    BY <2>1 DEF RInv, Tells, Shut, Hands, Case
  <2>4. \A c \in Chan : RingOf(ch'[c]) /\ Same(ch[c], ch'[c])
    BY <2>1 DEF RInv, Same
  <2>5. UNCHANGED A!vars
    BY <2>1, <2>2, <2>4, Stutters
  <2>. QED BY <1>1, <2>3, <2>4, <2>5 DEF RInv, Simulates
<1>3. ASSUME NEW g \in G, FastRead(g) PROVE RInv' /\ Simulates
  BY <1>1, <1>3, FastReadRefines
<1>4. ASSUME NEW g \in G, FastRead2(g) PROVE RInv' /\ Simulates
  BY <1>1, <1>4, FastRead2Refines
<1>5. ASSUME NEW g \in G, ChanOp(g) PROVE RInv' /\ Simulates
  BY <1>1, <1>5, ChanOpRefines
<1>6. ASSUME NEW g \in G, Closechan(g) PROVE RInv' /\ Simulates
  BY <1>1, <1>6, ClosechanRefines
<1>7. ASSUME NEW g \in G, Handoff(g) PROVE RInv' /\ Simulates
  BY <1>1, <1>7, HandoffRefines
<1>8. ASSUME NEW g \in G, Woken(g) PROVE RInv' /\ Simulates
  BY <1>1, <1>8, WokenRefines
<1>9. ASSUME NEW g \in G, Return(g) PROVE RInv' /\ Simulates
  BY <1>1, <1>9, ReturnRefines
<1>10. ASSUME NEW g \in G, Sellock(g) \/ WokenSelect(g) PROVE RInv' /\ Simulates
  BY <1>1, <1>10, RelockRefines
<1>11. ASSUME NEW g \in G, Poll(g) PROVE RInv' /\ Simulates
  BY <1>1, <1>11, PollRefines
<1>12. ASSUME NEW g \in G, Pass3(g) PROVE RInv' /\ Simulates
  BY <1>1, <1>12, Pass3Refines
<1>13. ASSUME NEW g \in G, NEW o \in Ops, Invoke(g, o) PROVE RInv' /\ Simulates
  BY <1>1, <1>13, InvokeRefines
<1>14. ASSUME NEW g \in G, ReleaseReader(g) \/ ReleaseWriter(g) PROVE RInv' /\ Simulates
  BY <1>1, <1>14, ReleaseRefines
<1>15. ASSUME NEW g \in G, CloseDone(g) PROVE RInv' /\ Simulates
  BY <1>1, <1>15, CloseDoneRefines
<1>. QED BY <1>2, <1>3, <1>4, <1>5, <1>6, <1>7, <1>8, <1>9, <1>10, <1>11, <1>12, <1>13,
            <1>14, <1>15, Steps

\* Seen from its callers, with every interleaving of the locked sections, the values on
\* their way from hand to hand and the selects between their park and their third pass, a
\* channel is the bounded FIFO queue of ChanSpec, and every call returns what ChanSpec
\* lets it return, of chansend, chanrecv, closechan and selectgo.
THEOREM ImplementsChanSpec == Spec => ImplementsChannels
<1>1. Init => RInv /\ A!Init
  BY Starts
<1>2. RInv /\ [Next]_vars => RInv' /\ [A!Next]_(A!vars)
  BY StepRefines
<1>. QED BY <1>1, <1>2, PTL DEF Spec, ImplementsChannels, A!Spec

=============================================================================
