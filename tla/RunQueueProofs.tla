--------------------------- MODULE RunQueueProofs ---------------------------
(***************************************************************************)
(* What MCRunQueue checks on two or three Ps with rings of four slots,     *)
(* proved for any Ps, any finite set of goroutines, any even length of the *)
(* rings and any width of the indices that BoundAssumption allows.         *)
(*                                                                         *)
(* The slots are read and the indices compared-and-swapped without a lock, *)
(* so the argument is about what a stale read is still worth.  The indices *)
(* wrap, so each ring's are counted from where they began, s: BoundAssump- *)
(* tion keeps them from going all the way around, and equal indices are    *)
(* then the same position.  RingOk says what is between head and tail,     *)
(* OwnerOk what the owner still knows of its own ring after others took    *)
(* from it, ThiefOk that what a thief has copied is what is there as long  *)
(* as the head is where it read it.  These survive the steps of the others *)
(* because every step only moves heads and tails on (Advance); and every   *)
(* goroutine has one Home, which a step moves or leaves.                   *)
(***************************************************************************)
EXTENDS RunQueue, FiniteSetTheorems, TLAPS

\* The remainder is the only one.
LEMMA Remainder ==
  ASSUME NEW n \in Nat \ {0}, NEW q \in Int, NEW r \in 0 .. n - 1
  PROVE  (n * q + r) % n = r
<1>. DEFINE x == n * q + r  y == x \div n  z == x % n
<1>1. x \in Int /\ y \in Int /\ z \in 0 .. n - 1 /\ x = n * y + z
  OBVIOUS
<1>. HIDE DEF y, z
<1>2. n * (q - y) = z - r
  BY <1>1
<1>3. CASE q - y >= 1
  <2>1. n * (q - y) >= n
    BY <1>1, <1>3
  <2>. QED BY <1>1, <1>2, <2>1
<1>4. CASE q - y <= -1
  <2>1. n * (y - q) >= n
    BY <1>1, <1>4
  <2>2. n * (y - q) = r - z
    BY <1>1
  <2>. QED BY <1>1, <2>1, <2>2
<1>5. CASE q = y
  BY <1>1, <1>5 DEF z
<1>. QED BY <1>1, <1>3, <1>4, <1>5

\* Whole turns do not change the remainder.
LEMMA Turn ==
  ASSUME NEW n \in Nat \ {0}, NEW x \in Int, NEW q \in Int
  PROVE  (x + n * q) % n = x % n
<1>. DEFINE y == x \div n  z == x % n
<1>1. y \in Int /\ z \in 0 .. n - 1 /\ x = n * y + z
  OBVIOUS
<1>. HIDE DEF y, z
<1>2. x + n * q = n * (y + q) + z
  BY <1>1
<1>3. (n * (y + q) + z) % n = z
  BY <1>1, Remainder
<1>. QED BY <1>2, <1>3 DEF z

\* The remainder of a number within a turn of the range.
LEMMA SmallMod ==
  ASSUME NEW n \in Nat \ {0}, NEW x \in Int
  PROVE  /\ x \in 0 .. n - 1 => x % n = x
         /\ x \in n .. 2 * n - 1 => x % n = x - n
         /\ x \in -n .. -1 => x % n = x + n
         /\ x % n \in 0 .. n - 1
<1>1. x % n \in 0 .. n - 1
  OBVIOUS
<1>2. x \in 0 .. n - 1 => x % n = x
  OBVIOUS
<1>3. ASSUME x \in n .. 2 * n - 1 PROVE x % n = x - n
  <2>1. (n * 1 + (x - n)) % n = x - n
    <3>. x - n \in 0 .. n - 1
      BY <1>3
    <3>. QED BY Remainder
  <2>. QED BY <1>3, <2>1
<1>4. ASSUME x \in -n .. -1 PROVE x % n = x + n
  <2>1. (n * (-1) + (x + n)) % n = x + n
    <3>. x + n \in 0 .. n - 1
      BY <1>4
    <3>. QED BY Remainder
  <2>2. n * (-1) + (x + n) = x
    OBVIOUS
  <2>. QED BY <2>1, <2>2
<1>. QED BY <1>1, <1>2, <1>3, <1>4

\* Quotient and remainder make up the number.
LEMMA Division ==
  ASSUME NEW n \in Nat \ {0}, NEW x \in Int
  PROVE  x \div n \in Int /\ x = n * (x \div n) + (x % n)
<1>. DEFINE y == x \div n  z == x % n
<1>1. y \in Int /\ z \in 0 .. n - 1 /\ x = n * y + z
  OBVIOUS
<1>. QED BY <1>1

\* The numbers of the ring.
LEMMA Numbers ==
  /\ Len2 \in Nat \ {0} /\ Length \in Nat \ {0} /\ Length = Len2 + Len2 /\ W \in Nat \ {0}
  /\ Length < W
  /\ \E q \in Int : W = Length * q
<1>1. Len2 \in Nat \ {0} /\ Length \in Nat \ {0} /\ Length = Len2 + Len2 /\ W \in Nat
      /\ Length < W /\ W % Length = 0
  BY RingAssumption DEF Length
<1>2. W = Length * (W \div Length) + (W % Length) /\ W \div Length \in Int
  <2>1. \A n \in Nat \ {0}, x \in Int : x \div n \in Int /\ x = n * (x \div n) + (x % n)
    BY Division
  <2>2. Length \in Nat \ {0} /\ W \in Int
    BY <1>1
  <2>. QED BY <2>1, <2>2, Zenon
<1>3. W = Length * (W \div Length)
  <2>. DEFINE n == Length  y == W \div Length  z == W % Length
  <2>1. n \in Nat /\ y \in Int /\ z = 0 /\ W = n * y + z
    BY <1>1, <1>2, Zenon
  <2>. HIDE DEF n, y, z
  <2>2. W = n * y
    BY <2>1
  <2>. QED BY <2>2 DEF n, y
<1>4. \E q \in Int : W = Length * q
  BY <1>2, <1>3, Zenon
<1>. QED BY <1>1, <1>4

\* An index is as far from where the ring's indices began as Minus says.
LEMMA Differences ==
  ASSUME NEW b \in 0 .. W - 1, NEW a \in 0 .. W - 1
  PROVE  /\ Minus(a, b) \in 0 .. W - 1
         /\ Minus(a, b) = IF b <= a THEN a - b ELSE a - b + W
<1>1. W \in Nat \ {0}
  BY Numbers
<1>2. CASE b <= a
  <2>. a - b \in Int /\ a - b \in 0 .. W - 1
    BY <1>1, <1>2
  <2>. QED BY <1>1, <1>2, SmallMod DEF Minus
<1>3. CASE ~(b <= a)
  <2>. a - b \in Int /\ a - b \in -W .. -1
    BY <1>1, <1>3
  <2>1. (a - b) % W = a - b + W
    BY <1>1, SmallMod
  <2>. QED BY <1>1, <1>3, <2>1 DEF Minus
<1>. QED BY <1>2, <1>3

\* An index moved on by less than W, written without the remainder.
LEMMA Sums ==
  ASSUME NEW a \in 0 .. W - 1, NEW k \in 0 .. W - 1
  PROVE  /\ Plus(a, k) \in 0 .. W - 1
         /\ Plus(a, k) = IF a + k < W THEN a + k ELSE (a + k) - W
<1>1. W \in Nat \ {0} /\ a + k \in Int
  BY Numbers
<1>2. CASE a + k < W
  <2>. a + k \in 0 .. W - 1
    BY <1>1, <1>2
  <2>. QED BY <1>1, <1>2, SmallMod DEF Plus
<1>3. CASE ~(a + k < W)
  <2>. a + k \in W .. 2 * W - 1
    BY <1>1, <1>3
  <2>1. (a + k) % W = (a + k) - W
    <3>. DEFINE x == a + k
    <3>1. x \in Int /\ x \in W .. 2 * W - 1
      BY <1>1
    <3>. HIDE DEF x
    <3>2. x % W = x - W
      BY <1>1, <3>1, SmallMod
    <3>. QED BY <3>2 DEF x
  <2>. QED BY <1>1, <1>3, <2>1 DEF Plus
<1>. QED BY <1>2, <1>3

\* Distances from b add up as long as they are less than W.
LEMMA Distances ==
  ASSUME NEW b \in 0 .. W - 1, NEW a \in 0 .. W - 1, NEW c \in 0 .. W - 1
  PROVE  /\ Minus(a, b) \in 0 .. W - 1 /\ Minus(b, b) = 0
         /\ Minus(a, b) = Minus(c, b) => a = c
         /\ Minus(c, b) <= Minus(a, b) => Minus(a, c) = Minus(a, b) - Minus(c, b)
         /\ \A k \in Nat : Minus(a, b) + k < W =>
              Plus(a, k) \in 0 .. W - 1 /\ Minus(Plus(a, k), b) = Minus(a, b) + k
<1>1. W \in Nat
  BY Numbers
<1>2. \A x, y \in 0 .. W - 1 : Minus(x, y) = IF y <= x THEN x - y ELSE x - y + W
  BY Differences
<1>3. ASSUME NEW k \in Nat, Minus(a, b) + k < W
      PROVE  Plus(a, k) \in 0 .. W - 1 /\ Minus(Plus(a, k), b) = Minus(a, b) + k
  <2>1. k \in 0 .. W - 1
    BY <1>1, <1>3, Differences
  <2>2. Plus(a, k) \in 0 .. W - 1 /\ Plus(a, k) = IF a + k < W THEN a + k ELSE (a + k) - W
    BY <2>1, Sums
  <2>3. /\ Minus(a, b) = IF b <= a THEN a - b ELSE a - b + W
        /\ Minus(Plus(a, k), b) = IF b <= Plus(a, k) THEN Plus(a, k) - b ELSE Plus(a, k) - b + W
    BY <1>2, <2>2
  <2>4. CASE a + k < W
    BY <1>1, <1>3, <2>1, <2>2, <2>3, <2>4
  <2>5. CASE ~(a + k < W)
    BY <1>1, <1>3, <2>1, <2>2, <2>3, <2>5
  <2>. QED BY <2>2, <2>4, <2>5
<1>4. /\ Minus(a, b) = IF b <= a THEN a - b ELSE (a - b) + W
      /\ Minus(c, b) = IF b <= c THEN c - b ELSE (c - b) + W
      /\ Minus(a, c) = IF c <= a THEN a - c ELSE (a - c) + W
      /\ Minus(b, b) = IF b <= b THEN b - b ELSE (b - b) + W
  BY <1>2
<1>5. /\ Minus(a, b) \in 0 .. W - 1 /\ Minus(b, b) = 0
      /\ Minus(a, b) = Minus(c, b) => a = c
      /\ Minus(c, b) <= Minus(a, b) => Minus(a, c) = Minus(a, b) - Minus(c, b)
  BY <1>1, <1>4
<1>. QED BY <1>3, <1>5

\* Slots: they depend on the distance alone, and differ within the length of a ring.
LEMMA Slots ==
  /\ \A x \in Int : Slot(x) \in 0 .. Length - 1
  /\ \A a, b \in 0 .. W - 1, k \in Int : Slot(a + k) = Slot(b + (Minus(a, b) + k))
  /\ \A x, j, k \in Int : Slot(x + j) = Slot(x + k) /\ k <= j /\ j < k + Length => j = k
<1>. PICK q \in Int : W = Length * q
  BY Numbers
<1>0. Length \in Nat \ {0}
  BY Numbers
<1>1. \A x \in Int : Slot(x) \in 0 .. Length - 1
  BY <1>0, SmallMod DEF Slot
<1>2. ASSUME NEW a \in 0 .. W - 1, NEW b \in 0 .. W - 1, NEW k \in Int
      PROVE  Slot(a + k) = Slot(b + (Minus(a, b) + k))
  <2>1. CASE b <= a
    <3>1. a + k = b + (Minus(a, b) + k)
      BY <2>1, Differences, Numbers
    <3>. QED BY <3>1
  <2>2. CASE ~(b <= a)
    <3>1. b + (Minus(a, b) + k) = (a + k) + Length * q /\ a + k \in Int
      BY <2>2, Differences, Numbers
    <3>. QED BY <1>0, <3>1, Turn DEF Slot
  <2>. QED BY <2>1, <2>2
<1>3. ASSUME NEW x \in Int, NEW j \in Int, NEW k \in Int,
             Slot(x + j) = Slot(x + k), k <= j, j < k + Length
      PROVE  j = k
  <2>. DEFINE n == Length  y == (x + j) \div n  z == (x + k) \div n
              r == (x + j) % n
  <2>1. /\ y \in Int /\ z \in Int /\ r \in 0 .. n - 1 /\ n \in Nat \ {0}
        /\ x + j = n * y + r /\ x + k = n * z + r
    BY <1>0, <1>3 DEF Slot
  <2>. HIDE DEF n, y, z, r
  <2>2. j - k = n * (y - z) /\ y - z \in Int
    BY <2>1
  <2>3. j - k \in 0 .. n - 1
    BY <1>3, <2>1 DEF n
  <2>4. y - z < 1
    <3>1. y - z >= 1 => n * (y - z) >= n
      BY <2>1
    <3>. QED BY <2>1, <2>2, <2>3, <3>1
  <2>5. y - z > -1
    <3>1. y - z <= -1 => n * (z - y) >= n /\ n * (z - y) = -(n * (y - z))
      BY <2>1
    <3>. QED BY <2>1, <2>2, <2>3, <3>1
  <2>6. y - z = 0
    BY <2>2, <2>4, <2>5
  <2>7. j - k = 0
    BY <2>1, <2>2, <2>6
  <2>. QED BY <1>3, <2>7
<1>. QED BY <1>1, <1>2, <1>3
-----------------------------------------------------------------------------
\* Where each ring's indices began is s; from there indices are counted as numbers that
\* never wrap: the head and the tail, and the head of v's ring that p has read.
H(s, p) == Minus(runqhead[p], s[p])
T(s, p) == Minus(runqtail[p], s[p])
Read(s, p, v) == Minus(th[p].h, s[v])
Cell(s, p, k) == runq[p][Slot(s[p] + k)]

Putting == {"putring", "puttail", "putslow"}
Stealing == {"grab", "grabtail", "grabcopy", "grabcas", "grabnext"}

\* What a thread has stolen and not yet queued; what it will add to its ring.
Extra(p) == IF At(p, "stealtail") THEN th[p].n ELSE 0
Coming(p) == IF th[p].pc \in Putting THEN 1 ELSE Extra(p)

\* How many goroutines can have entered a ring: one for each put, and Len2 - 1 for each
\* goroutine that was put and has come out again.
Bound == puts + (Len2 - 1) * (puts - Cardinality(G \ out))

RingOk(s, p) ==
  /\ H(s, p) <= T(s, p) /\ T(s, p) <= H(s, p) + Length /\ T(s, p) + Coming(p) <= Bound
  /\ \A k \in Nat : H(s, p) <= k /\ k < T(s, p) + Extra(p) => Cell(s, p, k) \in G

\* What the owner of a ring knows of it.
OwnerOk(s, p) ==
  /\ th[p].pc \in Putting => th[p].g \in G
  /\ At(p, "puttail") => T(s, p) < H(s, p) + Length /\ Cell(s, p, T(s, p)) = th[p].g
  /\ At(p, "putslow") =>
       th[p].n = Len2 /\ Read(s, p, p) <= H(s, p) /\ T(s, p) = Read(s, p, p) + Length
  /\ At(p, "getcas") =>
       /\ Read(s, p, p) <= H(s, p)
       /\ Read(s, p, p) = H(s, p) => H(s, p) < T(s, p) /\ Cell(s, p, H(s, p)) = th[p].g
  /\ th[p].pc \in Stealing \/ At(p, "stealtail") => T(s, p) = H(s, p)
  /\ At(p, "stealtail") => th[p].n \in 1 .. Len2 - 1

\* What a thief knows of its victim's: what it has copied is what is there, as long as
\* the head is where it has read it.
ThiefOk(s, p) ==
  LET v == th[p].victim IN
  /\ th[p].pc \in Stealing => v \in P \ {p}
  /\ At(p, "grabnext") => th[p].g \in G
  /\ th[p].pc \notin {"grabcopy", "grabcas"} => th[p].copied = 0
  /\ th[p].pc \in {"grabtail", "grabcopy", "grabcas"} => Read(s, p, v) <= H(s, v)
  /\ th[p].pc \in {"grabcopy", "grabcas"} =>
       /\ th[p].n \in 1 .. Len2 /\ Read(s, p, v) + th[p].n <= T(s, v)
       /\ IF At(p, "grabcas") THEN th[p].copied = th[p].n ELSE th[p].copied < th[p].n
       /\ Read(s, p, v) = H(s, v) =>
            \A j \in 0 .. th[p].copied - 1 :
              Cell(s, p, T(s, p) + j) = Cell(s, v, H(s, v) + j)

\* The places of goroutines, and what is there.
Place == ({"ring"} \X P \X Nat) \cup ({"hands", "next"} \X P \X {0})
           \cup ({"global", "out"} \X {NoP} \X {0})

Has(s, y, g) ==
  \/ /\ y[1] = "ring" /\ H(s, y[2]) <= y[3] /\ y[3] < T(s, y[2]) + Extra(y[2])
     /\ Cell(s, y[2], y[3]) = g
  \/ y[1] = "hands" /\ g \in Hands(y[2])
  \/ y[1] = "next" /\ runnext[y[2]] = g
  \/ y[1] = "global" /\ g \in globrunq
  \/ y[1] = "out" /\ g \in out

Home(s, g) == \E x \in Place : \A y \in Place : Has(s, y, g) <=> y = x

Inv(s) ==
  /\ s \in [P -> 0 .. W - 1] /\ TypeOK
  /\ \A p \in P : RingOk(s, p) /\ OwnerOk(s, p) /\ ThiefOk(s, p)
  /\ \A g \in G : Home(s, g)

IInv == \E s \in [P -> 0 .. W - 1] : Inv(s)

-----------------------------------------------------------------------------
\* What is known of the indices of one ring in s's numbers.
LEMMA Indices ==
  ASSUME TypeOK, NEW s \in [P -> 0 .. W - 1], NEW p \in P
  PROVE  /\ H(s, p) \in 0 .. W - 1 /\ T(s, p) \in 0 .. W - 1
         /\ \A v \in P : Read(s, p, v) \in 0 .. W - 1
         /\ H(s, p) <= T(s, p) => Minus(runqtail[p], runqhead[p]) = T(s, p) - H(s, p)
         /\ \A v \in P : /\ Read(s, p, v) = H(s, v) <=> th[p].h = runqhead[v]
                         /\ Read(s, p, v) <= T(s, v) =>
                              Minus(runqtail[v], th[p].h) = T(s, v) - Read(s, p, v)
         /\ \A k \in Int : /\ Slot(runqhead[p] + k) = Slot(s[p] + (H(s, p) + k))
                          /\ Slot(runqtail[p] + k) = Slot(s[p] + (T(s, p) + k))
         /\ Slot(runqhead[p]) = Slot(s[p] + H(s, p)) /\ Slot(runqtail[p]) = Slot(s[p] + T(s, p))
         /\ \A v \in P, k \in Int : Slot(th[p].h + k) = Slot(s[v] + (Read(s, p, v) + k))
         /\ \A v \in P : Slot(th[p].h) = Slot(s[v] + Read(s, p, v))
<1>1. /\ runqhead[p] \in 0 .. W - 1 /\ runqtail[p] \in 0 .. W - 1 /\ th[p].h \in 0 .. W - 1
      /\ s[p] \in 0 .. W - 1
      /\ \A v \in P : s[v] \in 0 .. W - 1 /\ runqhead[v] \in 0 .. W - 1 /\ runqtail[v] \in 0 .. W - 1
  BY DEF TypeOK, State
<1>2. /\ H(s, p) \in 0 .. W - 1 /\ T(s, p) \in 0 .. W - 1
      /\ \A v \in P : Read(s, p, v) \in 0 .. W - 1
  BY <1>1, Differences DEF H, T, Read
<1>3. H(s, p) <= T(s, p) => Minus(runqtail[p], runqhead[p]) = T(s, p) - H(s, p)
  BY <1>1, Distances DEF H, T
<1>4. ASSUME NEW v \in P
      PROVE  /\ Read(s, p, v) = H(s, v) <=> th[p].h = runqhead[v]
             /\ Read(s, p, v) <= T(s, v) =>
                  Minus(runqtail[v], th[p].h) = T(s, v) - Read(s, p, v)
  <2>. DEFINE a == th[p].h  b == s[v]
  <2>1. /\ a \in 0 .. W - 1 /\ b \in 0 .. W - 1 /\ runqhead[v] \in 0 .. W - 1
        /\ runqtail[v] \in 0 .. W - 1
        /\ Read(s, p, v) = Minus(a, b) /\ H(s, v) = Minus(runqhead[v], b)
        /\ T(s, v) = Minus(runqtail[v], b)
    BY <1>1 DEF H, T, Read
  <2>. HIDE DEF a, b
  <2>2. Minus(a, b) = Minus(runqhead[v], b) => a = runqhead[v]
    BY <2>1, Distances
  <2>3. Minus(a, b) <= Minus(runqtail[v], b) =>
          Minus(runqtail[v], a) = Minus(runqtail[v], b) - Minus(a, b)
    BY <2>1, Distances
  <2>. QED BY <2>1, <2>2, <2>3 DEF a
<1>5. W \in Nat
  BY Numbers
<1>6. ASSUME NEW a \in 0 .. W - 1, NEW b \in 0 .. W - 1
      PROVE  /\ \A k \in Int : Slot(a + k) = Slot(b + (Minus(a, b) + k))
             /\ Slot(a) = Slot(b + Minus(a, b))
  <2>1. \A k \in Int : Slot(a + k) = Slot(b + (Minus(a, b) + k))
    BY Slots
  <2>2. a + 0 = a /\ Minus(a, b) + 0 = Minus(a, b)
    BY <1>5, Differences
  <2>3. Slot(a + 0) = Slot(b + (Minus(a, b) + 0))
    BY <2>1
  <2>. QED BY <2>1, <2>2, <2>3
<1>7. \A k \in Int : /\ Slot(runqhead[p] + k) = Slot(s[p] + (H(s, p) + k))
                    /\ Slot(runqtail[p] + k) = Slot(s[p] + (T(s, p) + k))
  BY <1>1, <1>6 DEF H, T
<1>8. Slot(runqhead[p]) = Slot(s[p] + H(s, p)) /\ Slot(runqtail[p]) = Slot(s[p] + T(s, p))
  BY <1>1, <1>6 DEF H, T
<1>9. ASSUME NEW v \in P
      PROVE  /\ \A k \in Int : Slot(th[p].h + k) = Slot(s[v] + (Read(s, p, v) + k))
             /\ Slot(th[p].h) = Slot(s[v] + Read(s, p, v))
  BY <1>1, <1>6 DEF Read
<1>. QED BY <1>2, <1>3, <1>4, <1>7, <1>8, <1>9

\* How many goroutines can have entered a ring.
LEMMA Counting ==
  ASSUME TypeOK
  PROVE  /\ Bound \in Int /\ Bound < W
         /\ \A g \in out : out' = out \ {g} /\ puts' = puts + 1 => Bound' = Bound + 1
         /\ \A g \in G \ out : out' = out \cup {g} /\ puts' = puts =>
              Bound' = Bound + (Len2 - 1)
         /\ out' = out /\ puts' = puts => Bound' = Bound
<1>. DEFINE c == Cardinality(G \ out)  d == Len2 - 1
<1>1. IsFiniteSet(G \ out) /\ c \in Nat /\ d \in Nat /\ puts \in Nat /\ puts <= MaxPuts
      /\ MaxPuts \in Nat /\ Len2 * MaxPuts < W /\ W \in Nat /\ Len2 \in Nat
  BY FiniteAssumption, FS_Subset, FS_CardinalityType, BoundAssumption, Numbers DEF TypeOK
<1>2. \A g \in out : out' = out \ {g} => Cardinality(G \ out') = c + 1
  <2>. SUFFICES ASSUME NEW g \in out, out' = out \ {g}
                PROVE  Cardinality(G \ out') = c + 1
    OBVIOUS
  <2>1. G \ out' = (G \ out) \cup {g} /\ g \notin G \ out
    BY DEF TypeOK
  <2>. QED BY <1>1, <2>1, FS_AddElement
<1>3. \A g \in G \ out : out' = out \cup {g} => Cardinality(G \ out') = c - 1
  <2>. SUFFICES ASSUME NEW g \in G \ out, out' = out \cup {g}
                PROVE  Cardinality(G \ out') = c - 1
    OBVIOUS
  <2>1. G \ out' = (G \ out) \ {g}
    OBVIOUS
  <2>. QED BY <1>1, <2>1, FS_RemoveElement
<1>. HIDE DEF c
<1>4. Bound = puts + d * (puts - c) /\ Bound' = puts' + d * (puts' - Cardinality(G \ out'))
  BY DEF Bound, c
<1>5. Bound \in Int /\ Bound < W
  <2>1. d * (puts - c) <= d * puts
    BY <1>1
  <2>2. puts + d * puts = Len2 * puts
    BY <1>1
  <2>3. Len2 * puts <= Len2 * MaxPuts
    BY <1>1
  <2>. HIDE DEF d
  <2>4. d * (puts - c) \in Int /\ d * puts \in Int /\ Len2 * puts \in Int /\ Len2 * MaxPuts \in Int
    BY <1>1
  <2>. QED BY <1>1, <1>4, <2>1, <2>2, <2>3, <2>4
<1>. HIDE DEF d
<1>6. ASSUME NEW g \in out, out' = out \ {g}, puts' = puts + 1 PROVE Bound' = Bound + 1
  <2>1. puts' - (c + 1) = puts - c
    BY <1>1, <1>6
  <2>2. d * (puts - c) \in Int
    BY <1>1
  <2>3. Cardinality(G \ out') = c + 1
    BY <1>2, <1>6
  <2>4. Bound' = (puts + 1) + d * (puts - c)
    BY <1>4, <1>6, <2>1, <2>3, Zenon
  <2>. QED BY <1>1, <1>4, <2>2, <2>4
<1>7. ASSUME NEW g \in G \ out, out' = out \cup {g}, puts' = puts PROVE Bound' = Bound + d
  <2>1. puts - (c - 1) = (puts - c) + 1 /\ d * ((puts - c) + 1) = d * (puts - c) + d
    BY <1>1
  <2>2. d * (puts - c) \in Int
    BY <1>1
  <2>3. Cardinality(G \ out') = c - 1
    BY <1>3, <1>7
  <2>4. Bound' = puts + (d * (puts - c) + d)
    BY <1>4, <1>7, <2>1, <2>3, Zenon
  <2>. QED BY <1>1, <1>4, <2>2, <2>4
<1>8. out' = out /\ puts' = puts => Bound' = Bound
  BY DEF Bound
<1>. QED BY <1>5, <1>6, <1>7, <1>8 DEF d

-----------------------------------------------------------------------------
\* What a step of p does to the rings: heads go on, at most half a ring at once, p's tail
\* may go on, and what is in the rings stays as it is.
Advance(s, p) ==
  /\ \A q \in P : H(s, q) <= H(s, q)' /\ H(s, q)' <= T(s, q)'
  /\ \A q \in P \ {p} : T(s, q)' = T(s, q) /\ \A k \in Nat : Cell(s, q, k)' = Cell(s, q, k)
  /\ T(s, p) <= T(s, p)'
  /\ \A k \in Nat : H(s, p) <= k /\ k < T(s, p) => Cell(s, p, k)' = Cell(s, p, k)
  /\ \A q \in P : H(s, q)' = H(s, q) \/ (T(s, q)' = T(s, q) /\ H(s, q)' - H(s, q) \in 1 .. Len2)

\* It leaves the other threads where they may be.
LEMMA OthersOk ==
  ASSUME NEW s, Inv(s), NEW p \in P, Advance(s, p), TypeOK',
         \A q \in P \ {p} : th'[q] = th[q], Bound <= Bound', Bound' \in Int,
         RingOk(s, p)', OwnerOk(s, p)', ThiefOk(s, p)'
  PROVE  \A q \in P : RingOk(s, q)' /\ OwnerOk(s, q)' /\ ThiefOk(s, q)'
<1>. SUFFICES ASSUME NEW q \in P \ {p}
              PROVE  RingOk(s, q)' /\ OwnerOk(s, q)' /\ ThiefOk(s, q)'
  OBVIOUS
<1>1. /\ TypeOK /\ s \in [P -> 0 .. W - 1] /\ RingOk(s, q) /\ OwnerOk(s, q) /\ ThiefOk(s, q)
      /\ th'[q] = th[q] /\ th[q] \in State
      /\ Bound \in Int
  BY Counting DEF Inv, TypeOK
<1>2. /\ H(s, q) \in Nat /\ T(s, q) \in Nat /\ H(s, q)' \in Nat /\ T(s, q)' \in Nat
      /\ \A v \in P : /\ H(s, v) \in Nat /\ H(s, v)' \in Nat /\ T(s, v) \in Nat /\ T(s, v)' \in Nat
                      /\ Read(s, q, v)' = Read(s, q, v) /\ Read(s, q, v) \in Nat
      /\ Length \in Nat
  <2>1. \A u \in P : H(s, u) \in 0 .. W - 1 /\ T(s, u) \in 0 .. W - 1
                     /\ \A v \in P : Read(s, u, v) \in 0 .. W - 1
    BY <1>1, Indices
  <2>2. \A u \in P : H(s, u)' \in 0 .. W - 1 /\ T(s, u)' \in 0 .. W - 1
    <3>1. \A u \in P : runqhead'[u] \in 0 .. W - 1 /\ runqtail'[u] \in 0 .. W - 1 /\ s[u] \in 0 .. W - 1
      BY <1>1 DEF TypeOK
    <3>. QED BY <3>1, Differences DEF H, T
  <2>3. \A v \in P : Read(s, q, v)' = Read(s, q, v)
    BY <1>1 DEF Read
  <2>. QED BY <2>1, <2>2, <2>3, Numbers
<1>3. /\ H(s, q) <= H(s, q)' /\ H(s, q)' <= T(s, q)' /\ T(s, q)' = T(s, q)
      /\ \A k \in Nat : Cell(s, q, k)' = Cell(s, q, k)
      /\ Extra(q)' = Extra(q) /\ Coming(q)' = Coming(q) /\ Extra(q) \in Nat /\ Coming(q) \in Nat
  BY <1>1 DEF Advance, Extra, Coming, At, State
<1>4. RingOk(s, q)'
  <2>1. ASSUME NEW k \in Nat, H(s, q)' <= k, k < T(s, q)' + Extra(q)'
        PROVE  Cell(s, q, k)' \in G
    <3>1. H(s, q) <= k /\ k < T(s, q) + Extra(q)
      BY <1>2, <1>3, <2>1
    <3>. QED BY <1>1, <1>3, <3>1 DEF RingOk
  <2>2. T(s, q)' <= H(s, q)' + Length /\ T(s, q)' + Coming(q)' <= Bound'
    BY <1>1, <1>2, <1>3 DEF RingOk
  <2>. QED BY <1>3, <2>1, <2>2 DEF RingOk
<1>5. OwnerOk(s, q)'
  <2>1. At(q, "puttail") => T(s, q)' < H(s, q)' + Length /\ Cell(s, q, T(s, q))' = th[q].g
    BY <1>1, <1>2, <1>3 DEF OwnerOk
  <2>2. At(q, "putslow") =>
          th[q].n = Len2 /\ Read(s, q, q) <= H(s, q)' /\ T(s, q)' = Read(s, q, q) + Length
    BY <1>1, <1>2, <1>3 DEF OwnerOk
  <2>3. ASSUME At(q, "getcas")
        PROVE  /\ Read(s, q, q) <= H(s, q)'
               /\ Read(s, q, q) = H(s, q)' =>
                    H(s, q)' < T(s, q)' /\ Cell(s, q, H(s, q))' = th[q].g
    <3>1. Read(s, q, q) <= H(s, q) /\ (Read(s, q, q) = H(s, q) =>
            H(s, q) < T(s, q) /\ Cell(s, q, H(s, q)) = th[q].g)
      BY <1>1, <2>3 DEF OwnerOk
    <3>2. ASSUME Read(s, q, q) = H(s, q)'
          PROVE  H(s, q)' < T(s, q)' /\ Cell(s, q, H(s, q))' = th[q].g
      <4>1. H(s, q)' = H(s, q) /\ Read(s, q, q) = H(s, q)
        BY <1>2, <1>3, <3>1, <3>2
      <4>2. Cell(s, q, H(s, q))' = Cell(s, q, H(s, q))
        BY <1>2, <1>3, <4>1 DEF Cell
      <4>. QED BY <1>3, <3>1, <4>1, <4>2
    <3>. QED BY <1>2, <1>3, <3>1, <3>2
  <2>4. th[q].pc \in Stealing \/ At(q, "stealtail") => T(s, q)' = H(s, q)'
    BY <1>1, <1>2, <1>3 DEF OwnerOk
  <2>5. /\ th[q].pc \in Putting => th[q].g \in G
        /\ At(q, "stealtail") => th[q].n \in 1 .. Len2 - 1
    BY <1>1 DEF OwnerOk
  <2>6. Read(s, q, q)' = Read(s, q, q) /\ \A l : At(q, l)' <=> At(q, l)
    BY <1>1, <1>2 DEF At
  <2>. QED BY <1>1, <2>1, <2>2, <2>3, <2>4, <2>5, <2>6 DEF OwnerOk
<1>6. ThiefOk(s, q)'
  <2>. DEFINE v == th[q].victim
  <2>1. \A l : At(q, l)' <=> At(q, l)
    BY <1>1 DEF At
  <2>2. /\ th[q].pc \in Stealing => v \in P \ {q}
        /\ At(q, "grabnext") => th[q].g \in G
        /\ th[q].pc \notin {"grabcopy", "grabcas"} => th[q].copied = 0
    BY <1>1 DEF ThiefOk
  <2>3. ASSUME th[q].pc \in {"grabtail", "grabcopy", "grabcas"}
        PROVE  Read(s, q, v) <= H(s, v)'
    <3>1. v \in P /\ Read(s, q, v) <= H(s, v)
      BY <1>1, <2>3 DEF ThiefOk, Stealing
    <3>2. H(s, v) <= H(s, v)'
      BY <3>1 DEF Advance
    <3>. QED BY <1>2, <3>1, <3>2
  <2>4. ASSUME th[q].pc \in {"grabcopy", "grabcas"}
        PROVE  /\ th[q].n \in 1 .. Len2 /\ Read(s, q, v) + th[q].n <= T(s, v)'
               /\ IF At(q, "grabcas") THEN th[q].copied = th[q].n ELSE th[q].copied < th[q].n
               /\ Read(s, q, v) = H(s, v)' =>
                    \A j \in 0 .. th[q].copied - 1 :
                      Cell(s, q, T(s, q) + j)' = Cell(s, v, H(s, v) + j)'
    <3>1. /\ v \in P /\ v # q /\ th[q].n \in 1 .. Len2 /\ Read(s, q, v) + th[q].n <= T(s, v)
          /\ IF At(q, "grabcas") THEN th[q].copied = th[q].n ELSE th[q].copied < th[q].n
          /\ Read(s, q, v) = H(s, v) =>
               \A j \in 0 .. th[q].copied - 1 :
                 Cell(s, q, T(s, q) + j) = Cell(s, v, H(s, v) + j)
          /\ Read(s, q, v) <= H(s, v)
          /\ th[q].copied \in Nat
      BY <1>1, <2>4 DEF ThiefOk, Stealing, State
    <3>2. H(s, v) <= H(s, v)' /\ T(s, v) <= T(s, v)' /\ T(s, v)' \in Nat
      BY <1>2, <3>1 DEF Advance
    <3>3. ASSUME Read(s, q, v) = H(s, v)', NEW j \in 0 .. th[q].copied - 1
          PROVE  Cell(s, q, T(s, q) + j)' = Cell(s, v, H(s, v) + j)'
      <4>1. Read(s, q, v) = H(s, v) /\ H(s, v)' = H(s, v)
        BY <1>2, <3>1, <3>2, <3>3
      <4>2. /\ H(s, v) + j \in Nat /\ H(s, v) <= H(s, v) + j /\ H(s, v) + j < T(s, v)
            /\ T(s, q) + j \in Nat
        BY <1>2, <3>1, <4>1
      <4>3. \A k \in Nat : H(s, v) <= k /\ k < T(s, v) => Cell(s, v, k)' = Cell(s, v, k)
        BY <3>1 DEF Advance
      <4>4. Cell(s, v, H(s, v) + j)' = Cell(s, v, H(s, v) + j)
        <5>1. PICK k \in Nat : k = H(s, v) + j
          BY <4>2
        <5>2. Cell(s, v, k)' = Cell(s, v, k)
          BY <4>2, <4>3, <5>1
        <5>. QED BY <4>1, <5>1, <5>2 DEF Cell
      <4>5. Cell(s, q, T(s, q) + j)' = Cell(s, q, T(s, q) + j)
        <5>1. PICK k \in Nat : k = T(s, q) + j
          BY <4>2
        <5>2. Cell(s, q, k)' = Cell(s, q, k)
          BY <1>3
        <5>. QED BY <1>3, <5>1, <5>2 DEF Cell
      <4>. QED BY <3>1, <4>1, <4>4, <4>5
    <3>. QED BY <1>2, <3>1, <3>2, <3>3
  <2>. QED BY <1>1, <1>2, <2>1, <2>2, <2>3, <2>4 DEF ThiefOk, Stealing
<1>. QED BY <1>4, <1>5, <1>6

\* The head of a ring goes on, or the tail, or the owner writes a slot.
HeadOn(v, n) == runqhead' = [runqhead EXCEPT ![v] = Plus(runqhead[v], n)]
TailOn(p, n) == runqtail' = [runqtail EXCEPT ![p] = Plus(runqtail[p], n)]
Write(p, i, x) == runq' = [runq EXCEPT ![p][Slot(runqtail[p] + i)] = x]

\* A head moved on by n, counted from where its ring's indices began.
LEMMA HeadMoves ==
  ASSUME TypeOK, NEW s \in [P -> 0 .. W - 1], NEW v \in P, NEW n \in Nat,
         H(s, v) + n <= T(s, v), HeadOn(v, n)
  PROVE  /\ runqhead' \in [P -> 0 .. W - 1] /\ H(s, v)' = H(s, v) + n
         /\ \A q \in P \ {v} : H(s, q)' = H(s, q)
<1>1. runqhead[v] \in 0 .. W - 1 /\ s[v] \in 0 .. W - 1 /\ W \in Nat
  BY Numbers DEF TypeOK
<1>2. H(s, v) + n < W
  <2>1. H(s, v) \in 0 .. W - 1 /\ T(s, v) \in 0 .. W - 1
    BY Indices
  <2>. QED BY <1>1, <2>1
<1>3. Plus(runqhead[v], n) \in 0 .. W - 1 /\ Minus(Plus(runqhead[v], n), s[v]) = H(s, v) + n
  <2>1. \A k \in Nat : Minus(runqhead[v], s[v]) + k < W =>
          Plus(runqhead[v], k) \in 0 .. W - 1
          /\ Minus(Plus(runqhead[v], k), s[v]) = Minus(runqhead[v], s[v]) + k
    BY <1>1, Distances
  <2>. QED BY <1>2, <2>1 DEF H
<1>4. runqhead' \in [P -> 0 .. W - 1] /\ runqhead'[v] = Plus(runqhead[v], n)
  BY <1>3 DEF TypeOK, HeadOn
<1>5. \A q \in P \ {v} : runqhead'[q] = runqhead[q]
  BY DEF TypeOK, HeadOn
<1>. QED BY <1>3, <1>4, <1>5 DEF H

\* A tail moved on by n, counted likewise.
LEMMA TailMoves ==
  ASSUME TypeOK, NEW s \in [P -> 0 .. W - 1], NEW p \in P, NEW n \in Nat,
         T(s, p) + n < W, TailOn(p, n)
  PROVE  /\ runqtail' \in [P -> 0 .. W - 1] /\ T(s, p)' = T(s, p) + n
         /\ \A q \in P \ {p} : T(s, q)' = T(s, q)
<1>1. runqtail[p] \in 0 .. W - 1 /\ s[p] \in 0 .. W - 1 /\ W \in Nat
  BY Numbers DEF TypeOK
<1>3. Plus(runqtail[p], n) \in 0 .. W - 1 /\ Minus(Plus(runqtail[p], n), s[p]) = T(s, p) + n
  <2>1. \A k \in Nat : Minus(runqtail[p], s[p]) + k < W =>
          Plus(runqtail[p], k) \in 0 .. W - 1
          /\ Minus(Plus(runqtail[p], k), s[p]) = Minus(runqtail[p], s[p]) + k
    BY <1>1, Distances
  <2>. QED BY <2>1 DEF T
<1>4. runqtail' \in [P -> 0 .. W - 1] /\ runqtail'[p] = Plus(runqtail[p], n)
  BY <1>3 DEF TypeOK, TailOn
<1>5. \A q \in P \ {p} : runqtail'[q] = runqtail[q]
  BY DEF TypeOK, TailOn
<1>. QED BY <1>3, <1>4, <1>5 DEF T

\* A slot written past the tail changes no cell of the same turn of the ring.
LEMMA SlotWritten ==
  ASSUME TypeOK, NEW s \in [P -> 0 .. W - 1], NEW p \in P, NEW i \in Nat,
         NEW x \in G \cup {NoG}, Write(p, i, x)
  PROVE  /\ runq' \in [P -> [0 .. Length - 1 -> G \cup {NoG}]]
         /\ runq'[p][Slot(s[p] + (T(s, p) + i))] = x
         /\ \A k \in Nat : k # T(s, p) + i /\ k < T(s, p) + i + Length /\ T(s, p) + i < k + Length =>
              runq'[p][Slot(s[p] + k)] = Cell(s, p, k)
         /\ \A q \in P \ {p} : runq'[q] = runq[q]
<1>. DEFINE a == T(s, p) + i
<1>1. Slot(runqtail[p] + i) = Slot(s[p] + a) /\ T(s, p) \in Nat /\ s[p] \in Int /\ a \in Int
      /\ runqtail[p] \in Int /\ W \in Nat /\ Length \in Nat
  <2>1. W \in Nat /\ Length \in Nat
    BY Numbers
  <2>2. T(s, p) \in 0 .. W - 1 /\ s[p] \in 0 .. W - 1 /\ runqtail[p] \in 0 .. W - 1
    BY Indices DEF TypeOK
  <2>3. \A k \in Int : Slot(runqtail[p] + k) = Slot(s[p] + (T(s, p) + k))
    BY Indices
  <2>. QED BY <2>1, <2>2, <2>3
<1>. HIDE DEF a
<1>2. Slot(s[p] + a) \in 0 .. Length - 1
  BY <1>1, Slots
<1>3. /\ runq' \in [P -> [0 .. Length - 1 -> G \cup {NoG}]]
      /\ runq'[p] = [runq[p] EXCEPT ![Slot(s[p] + a)] = x]
      /\ \A q \in P \ {p} : runq'[q] = runq[q]
  BY <1>1, <1>2 DEF TypeOK, Write
<1>4. runq'[p][Slot(s[p] + a)] = x
  BY <1>2, <1>3 DEF TypeOK
<1>5. ASSUME NEW k \in Nat, k # a, k < a + Length, a < k + Length
      PROVE  runq'[p][Slot(s[p] + k)] = Cell(s, p, k)
  <2>1. Slot(s[p] + k) # Slot(s[p] + a)
    <3>1. CASE k <= a
      BY <1>1, <1>5, <3>1, Slots
    <3>2. CASE a <= k
      BY <1>1, <1>5, <3>2, Slots
    <3>. QED BY <1>1, <3>1, <3>2
  <2>2. Slot(s[p] + k) \in 0 .. Length - 1
    BY <1>1, Slots
  <2>. QED BY <1>2, <1>3, <2>1, <2>2 DEF Cell, TypeOK
<1>. QED BY <1>1, <1>3, <1>4, <1>5 DEF a

-----------------------------------------------------------------------------
\* A goroutine stays where it is, or goes from one place to another.
Slotted(s, q, k, g) == H(s, q) <= k /\ k < T(s, q) + Extra(q) /\ Cell(s, q, k) = g

\* A goroutine that moves nowhere keeps its one home.
LEMMA HomeStays ==
  ASSUME NEW s, NEW g, Home(s, g),
         \A q \in P : /\ \A k \in Nat : Slotted(s, q, k, g)' <=> Slotted(s, q, k, g)
                      /\ g \in Hands(q)' <=> g \in Hands(q)
                      /\ runnext'[q] = g <=> runnext[q] = g,
         g \in globrunq' <=> g \in globrunq, g \in out' <=> g \in out
  PROVE  Home(s, g)'
<1>1. ASSUME NEW y \in Place PROVE Has(s, y, g)' <=> Has(s, y, g)
  BY DEF Place, Has, Slotted
<1>. QED BY <1>1 DEF Home

\* A goroutine that moves from a to b, and nowhere else, has its one home at b.
LEMMA HomeMoves ==
  ASSUME NEW s, NEW g, Home(s, g), NEW a \in Place, NEW b \in Place, Has(s, a, g),
         \A q \in P :
           /\ \A k \in Nat : Slotted(s, q, k, g)' <=>
                               \/ b = <<"ring", q, k>>
                               \/ Slotted(s, q, k, g) /\ a # <<"ring", q, k>>
           /\ g \in Hands(q)' <=>
                b = <<"hands", q, 0>> \/ (g \in Hands(q) /\ a # <<"hands", q, 0>>)
           /\ runnext'[q] = g <=>
                b = <<"next", q, 0>> \/ (runnext[q] = g /\ a # <<"next", q, 0>>),
         g \in globrunq' <=> b[1] = "global" \/ (g \in globrunq /\ a[1] # "global"),
         g \in out' <=> b[1] = "out" \/ (g \in out /\ a[1] # "out")
  PROVE  Home(s, g)'
<1>1. \A y \in Place : Has(s, y, g) <=> y = a
  BY DEF Home
<1>2. ASSUME NEW y \in Place PROVE Has(s, y, g)' <=> y = b \/ (y # a /\ Has(s, y, g))
  <2>1. CASE y[1] = "ring"
    <3>1. y[2] \in P /\ y[3] \in Nat /\ y = <<"ring", y[2], y[3]>>
      BY <2>1 DEF Place
    <3>2. /\ Has(s, y, g)' <=> Slotted(s, y[2], y[3], g)'
          /\ Has(s, y, g) <=> Slotted(s, y[2], y[3], g)
      BY <2>1 DEF Has, Slotted
    <3>. QED BY <3>1, <3>2
  <2>2. CASE y[1] = "hands"
    <3>1. y[2] \in P /\ y = <<"hands", y[2], 0>>
      BY <2>2 DEF Place
    <3>. QED BY <2>2, <3>1 DEF Has
  <2>3. CASE y[1] = "next"
    <3>1. y[2] \in P /\ y = <<"next", y[2], 0>>
      BY <2>3 DEF Place
    <3>. QED BY <2>3, <3>1 DEF Has
  <2>4. CASE y[1] = "global"
    <3>1. y = <<"global", NoP, 0>> /\ (b[1] = "global" <=> y = b) /\ (a[1] = "global" <=> y = a)
      BY <2>4 DEF Place
    <3>. QED BY <2>4, <3>1 DEF Has
  <2>5. CASE y[1] = "out"
    <3>1. y = <<"out", NoP, 0>> /\ (b[1] = "out" <=> y = b) /\ (a[1] = "out" <=> y = a)
      BY <2>5 DEF Place
    <3>. QED BY <2>5, <3>1 DEF Has
  <2>. QED BY <2>1, <2>2, <2>3, <2>4, <2>5 DEF Place
<1>3. \A y \in Place : Has(s, y, g)' <=> y = b
  BY <1>1, <1>2
<1>. QED BY <1>3 DEF Home

\* Where a goroutine is, it is nowhere else.
LEMMA Nowhere ==
  ASSUME NEW s, NEW g, Home(s, g), NEW a \in Place, Has(s, a, g)
  PROVE  /\ \A q \in P : /\ \A k \in Nat : Slotted(s, q, k, g) => a = <<"ring", q, k>>
                         /\ g \in Hands(q) => a = <<"hands", q, 0>>
                         /\ runnext[q] = g => a = <<"next", q, 0>>
         /\ g \in globrunq => a = <<"global", NoP, 0>>
         /\ g \in out => a = <<"out", NoP, 0>>
<1>1. \A y \in Place : Has(s, y, g) => y = a
  BY DEF Home
<1>2. ASSUME NEW q \in P
      PROVE  /\ \A k \in Nat : Slotted(s, q, k, g) => a = <<"ring", q, k>>
             /\ g \in Hands(q) => a = <<"hands", q, 0>>
             /\ runnext[q] = g => a = <<"next", q, 0>>
  <2>1. ASSUME NEW k \in Nat, Slotted(s, q, k, g) PROVE a = <<"ring", q, k>>
    <3>1. <<"ring", q, k>> \in Place /\ Has(s, <<"ring", q, k>>, g)
      BY <2>1 DEF Place, Has, Slotted
    <3>. QED BY <1>1, <3>1
  <2>2. ASSUME g \in Hands(q) PROVE a = <<"hands", q, 0>>
    <3>1. <<"hands", q, 0>> \in Place /\ Has(s, <<"hands", q, 0>>, g)
      BY <2>2 DEF Place, Has
    <3>. QED BY <1>1, <3>1
  <2>3. ASSUME runnext[q] = g PROVE a = <<"next", q, 0>>
    <3>1. <<"next", q, 0>> \in Place /\ Has(s, <<"next", q, 0>>, g)
      BY <2>3 DEF Place, Has
    <3>. QED BY <1>1, <3>1
  <2>. QED BY <2>1, <2>2, <2>3
<1>3. g \in globrunq => a = <<"global", NoP, 0>>
  <2>1. <<"global", NoP, 0>> \in Place /\ (g \in globrunq => Has(s, <<"global", NoP, 0>>, g))
    BY DEF Place, Has
  <2>. QED BY <1>1, <2>1
<1>4. g \in out => a = <<"out", NoP, 0>>
  <2>1. <<"out", NoP, 0>> \in Place /\ (g \in out => Has(s, <<"out", NoP, 0>>, g))
    BY DEF Place, Has
  <2>. QED BY <1>1, <2>1
<1>. QED BY <1>2, <1>3, <1>4

-----------------------------------------------------------------------------
\* The state of thread p is r next; the parts of Inv that are about p are to be shown.
LEMMA StepOk ==
  ASSUME NEW s, Inv(s), NEW p \in P, Advance(s, p), TypeOK',
         \A q \in P \ {p} : th'[q] = th[q], Bound <= Bound',
         RingOk(s, p)', OwnerOk(s, p)', ThiefOk(s, p)', \A g \in G : Home(s, g)'
  PROVE  Inv(s)'
<1>1. Bound' \in Int
  <2>1. IsFiniteSet(G \ out') /\ Cardinality(G \ out') \in Int /\ puts' \in Int /\ Len2 \in Int
    BY FiniteAssumption, FS_Subset, FS_CardinalityType, BoundAssumption, Numbers DEF TypeOK
  <2>2. \A x, y, z \in Int : y + (z - 1) * (y - x) \in Int
    OBVIOUS
  <2>. QED BY <2>1, <2>2 DEF Bound
<1>. QED BY <1>1, OthersOk DEF Inv

\* The rings do not change.
LEMMA Quiet ==
  ASSUME NEW s, Inv(s), NEW p \in P, UNCHANGED <<runqhead, runqtail, runq>>,
         th' \in [P -> State], \A q \in P \ {p} : th'[q] = th[q], Extra(p)' = Extra(p)
  PROVE  /\ Advance(s, p)
         /\ \A q \in P : H(s, q)' = H(s, q) /\ T(s, q)' = T(s, q)
         /\ \A q \in P, k \in Nat : Cell(s, q, k)' = Cell(s, q, k)
         /\ \A q \in P, k \in Nat, g \in G : Slotted(s, q, k, g)' <=> Slotted(s, q, k, g)
         /\ Bound' \in Int /\ T(s, p) + Coming(p)' <= Bound' => RingOk(s, p)'
<1>1. /\ \A q \in P : H(s, q)' = H(s, q) /\ T(s, q)' = T(s, q)
      /\ \A q \in P, k \in Nat : Cell(s, q, k)' = Cell(s, q, k)
  BY DEF H, T, Cell
<1>2. \A q \in P : Extra(q)' = Extra(q)
  BY DEF Extra, At
<1>3. ASSUME NEW q \in P PROVE H(s, q) \in Nat /\ T(s, q) \in Nat /\ H(s, q) <= T(s, q)
  <2>1. TypeOK /\ s \in [P -> 0 .. W - 1] /\ RingOk(s, q)
    BY DEF Inv
  <2>2. H(s, q) \in 0 .. W - 1 /\ T(s, q) \in 0 .. W - 1
    BY <2>1, Indices
  <2>. QED BY <2>1, <2>2 DEF RingOk
<1>4. Advance(s, p)
  BY <1>1, <1>3 DEF Advance
<1>5. \A q \in P, k \in Nat, g \in G : Slotted(s, q, k, g)' <=> Slotted(s, q, k, g)
  BY <1>1, <1>2 DEF Slotted
<1>6. T(s, p) + Coming(p)' <= Bound' => RingOk(s, p)'
  BY <1>1, <1>2 DEF Inv, RingOk
<1>. QED BY <1>1, <1>4, <1>5, <1>6

\* Only the state of p changes, and not what it has in its hands.
LEMMA ThreadOnly ==
  ASSUME NEW s, Inv(s), NEW p \in P,
         UNCHANGED <<runqhead, runqtail, runq, runnext, globrunq, puts, out>>,
         th' \in [P -> State], \A q \in P \ {p} : th'[q] = th[q],
         Hands(p)' = Hands(p), Extra(p)' = Extra(p), Coming(p)' = Coming(p),
         OwnerOk(s, p)', ThiefOk(s, p)'
  PROVE  Inv(s)' /\ Advance(s, p)
<1>1. TypeOK /\ TypeOK' /\ Bound' = Bound /\ Bound \in Int
  BY Counting DEF Inv, TypeOK
<1>2. /\ Advance(s, p) /\ RingOk(s, p)'
      /\ \A q \in P, k \in Nat, g \in G : Slotted(s, q, k, g)' <=> Slotted(s, q, k, g)
  BY <1>1, Quiet DEF Inv, RingOk
<1>3. \A q \in P : Hands(q)' = Hands(q)
  BY DEF Hands, At
<1>4. ASSUME NEW g \in G PROVE Home(s, g)'
  <2>1. Home(s, g)
    BY DEF Inv
  <2>. QED BY <1>2, <1>3, <2>1, HomeStays
<1>. QED BY <1>1, <1>2, <1>4, StepOk

\* What is known of thread p before it goes on.
LEMMA Before ==
  ASSUME NEW s, Inv(s), NEW p \in P
  PROVE  /\ s \in [P -> 0 .. W - 1] /\ TypeOK /\ th \in [P -> State] /\ th[p] \in State
         /\ RingOk(s, p) /\ OwnerOk(s, p) /\ ThiefOk(s, p)
         /\ \A q \in P : /\ H(s, q) \in Nat /\ T(s, q) \in Nat /\ H(s, q) <= T(s, q)
                         /\ T(s, q) <= H(s, q) + Length
                         /\ H(s, q) < W /\ T(s, q) < W
                         /\ Read(s, p, q) \in Nat /\ Read(s, p, q) < W
         /\ Len2 \in Nat /\ Len2 >= 1 /\ Length = Len2 + Len2 /\ W \in Nat /\ Length < W
         /\ Bound \in Int /\ Bound < W
<1>1. /\ s \in [P -> 0 .. W - 1] /\ TypeOK /\ th \in [P -> State] /\ th[p] \in State
      /\ RingOk(s, p) /\ OwnerOk(s, p) /\ ThiefOk(s, p)
      /\ \A q \in P : RingOk(s, q)
  BY DEF Inv, TypeOK
<1>2. \A q \in P : /\ H(s, q) \in 0 .. W - 1 /\ T(s, q) \in 0 .. W - 1
                   /\ Read(s, p, q) \in 0 .. W - 1
  BY <1>1, Indices
<1>. QED BY <1>1, <1>2, Numbers, Counting DEF RingOk

\* The thread of p moves to state r, the others stay.
LEMMA Becomes ==
  ASSUME NEW s, Inv(s), NEW p \in P, NEW r \in State, th' = [th EXCEPT ![p] = r]
  PROVE  th' \in [P -> State] /\ th'[p] = r /\ \A q \in P \ {p} : th'[q] = th[q]
<1>. th \in [P -> State]
  BY DEF Inv, TypeOK
<1>. QED OBVIOUS

\* A call ends.
LEMMA Rests ==
  ASSUME NEW s, Inv(s), NEW p \in P, Return(p)
  PROVE  /\ th' \in [P -> State] /\ th'[p] = Resting /\ \A q \in P \ {p} : th'[q] = th[q]
         /\ OwnerOk(s, p)' /\ ThiefOk(s, p)'
         /\ Hands(p)' = {} /\ Extra(p)' = 0 /\ Coming(p)' = 0
<1>1. th \in [P -> State] /\ W \in Nat /\ W > 0 /\ Length \in Nat
  BY Numbers DEF Inv, TypeOK
<1>2. Resting \in State /\ Resting.pc = "idle"
  BY <1>1 DEF Resting, State
<1>3. th' \in [P -> State] /\ th'[p] = Resting /\ \A q \in P \ {p} : th'[q] = th[q]
  BY <1>1, <1>2 DEF Return
<1>4. th'[p].pc = "idle" /\ th'[p].copied = 0
  BY <1>3 DEF Resting
<1>5. OwnerOk(s, p)' /\ ThiefOk(s, p)'
  BY <1>4 DEF OwnerOk, ThiefOk, At, Putting, Stealing
<1>6. Hands(p)' = {} /\ Extra(p)' = 0 /\ Coming(p)' = 0
  BY <1>4 DEF Hands, Extra, Coming, At, Putting
<1>. QED BY <1>3, <1>5, <1>6

\* The actions of Next one at a time, from here on.  runqget: the next slot, then the head.
LEMMA GetKeeps ==
  ASSUME NEW s, Inv(s), NEW p \in P, Get(p)
  PROVE  Inv(s)' /\ Advance(s, p)
<1>0. /\ At(p, "get") /\ UNCHANGED <<runqhead, runqtail, runq, runnext, globrunq, puts, out>>
      /\ Hands(p) = {} /\ Extra(p) = 0 /\ Coming(p) = 0
  BY DEF Get, Hands, Extra, Coming, At, Putting
<1>1. CASE runqhead[p] = runqtail[p]
  <2>1. Return(p)
    BY <1>1 DEF Get
  <2>. QED BY <1>0, <2>1, Rests, ThreadOnly
<1>2. CASE runqhead[p] # runqtail[p]
  <2>1. th' = [th EXCEPT ![p].pc = "getcas", ![p].h = runqhead[p],
                         ![p].g = runq[p][Slot(runqhead[p])]]
    BY <1>2 DEF Get
  <2>2. /\ runqhead[p] \in 0 .. W - 1
        /\ runq[p][Slot(runqhead[p])] = Cell(s, p, H(s, p)) /\ H(s, p) # T(s, p)
        /\ Cell(s, p, H(s, p)) \in G
    <3>1. runqhead[p] \in 0 .. W - 1 /\ runqtail[p] \in 0 .. W - 1 /\ s[p] \in 0 .. W - 1
      BY Before DEF TypeOK
    <3>2. H(s, p) # T(s, p)
      BY <1>2, <3>1, Distances DEF H, T
    <3>3. runq[p][Slot(runqhead[p])] = Cell(s, p, H(s, p))
      BY Before, Indices DEF Cell
    <3>4. H(s, p) < T(s, p) + Extra(p)
      BY <1>0, <3>2, Before
    <3>. QED BY <3>1, <3>2, <3>3, <3>4, Before DEF RingOk
  <2>3. /\ th' \in [P -> State] /\ \A q \in P \ {p} : th'[q] = th[q]
        /\ th'[p].pc = "getcas" /\ th'[p].h = runqhead[p] /\ th'[p].copied = 0
        /\ th'[p].g = Cell(s, p, H(s, p))
    <3>. DEFINE r == [th[p] EXCEPT !.pc = "getcas", !.h = runqhead[p],
                                   !.g = runq[p][Slot(runqhead[p])]]
    <3>0. th[p] \in State /\ th[p].copied = 0
      BY <1>0, Before DEF ThiefOk, At
    <3>1. /\ r \in State /\ r.pc = "getcas" /\ r.h = runqhead[p] /\ r.copied = 0
          /\ r.g = Cell(s, p, H(s, p))
      BY <2>2, <3>0 DEF State
    <3>2. th' = [th EXCEPT ![p] = r]
      BY <2>1
    <3>. HIDE DEF r
    <3>. QED BY <3>1, <3>2, Becomes
  <2>4. Hands(p)' = {} /\ Extra(p)' = 0 /\ Coming(p)' = 0
    BY <2>3 DEF Hands, Extra, Coming, At, Putting
  <2>5. Read(s, p, p)' = H(s, p) /\ H(s, p)' = H(s, p) /\ T(s, p)' = T(s, p)
        /\ Cell(s, p, H(s, p))' = Cell(s, p, H(s, p))
    BY <1>0, <2>3 DEF Read, H, T, Cell
  <2>6. OwnerOk(s, p)' /\ ThiefOk(s, p)'
    <3>1. H(s, p) < T(s, p) /\ H(s, p) <= H(s, p)
      BY <2>2, Before
    <3>. QED BY <2>3, <2>5, <3>1 DEF OwnerOk, ThiefOk, At, Putting, Stealing
  <2>. QED BY <1>0, <2>3, <2>4, <2>6, ThreadOnly
<1>. QED BY <1>1, <1>2

\* runqgrab starts over.
LEMMA AgainKeeps ==
  ASSUME NEW s, Inv(s), NEW p \in P, Again(p), th[p].pc \in Stealing,
         UNCHANGED <<runqhead, runqtail, runq, runnext, globrunq, puts, out>>
  PROVE  Inv(s)' /\ Advance(s, p)
<1>1. /\ th[p] \in State /\ T(s, p) = H(s, p) /\ th[p].victim \in P \ {p}
      /\ T(s, p)' = T(s, p) /\ H(s, p)' = H(s, p)
  BY Before DEF OwnerOk, ThiefOk, H, T
<1>0. 0 \in 0 .. W - 1 /\ 0 \in 0 .. Length
  BY Numbers
<1>. DEFINE r == [th[p] EXCEPT !.pc = "grab", !.h = 0, !.n = 0, !.copied = 0, !.g = NoG]
<1>2. r \in State /\ r.pc = "grab" /\ r.victim = th[p].victim /\ r.copied = 0
  BY <1>0, <1>1 DEF State
<1>3. th' = [th EXCEPT ![p] = r]
  BY DEF Again
<1>. HIDE DEF r
<1>4. /\ th' \in [P -> State] /\ \A q \in P \ {p} : th'[q] = th[q]
      /\ th'[p].pc = "grab" /\ th'[p].victim = th[p].victim /\ th'[p].copied = 0
  BY <1>2, <1>3, Becomes
<1>5. /\ Hands(p)' = {} /\ Extra(p)' = 0 /\ Coming(p)' = 0
      /\ Hands(p) = {} /\ Extra(p) = 0 /\ Coming(p) = 0
  BY <1>4 DEF Hands, Extra, Coming, At, Putting, Stealing
<1>6. OwnerOk(s, p)' /\ ThiefOk(s, p)'
  BY <1>1, <1>4 DEF OwnerOk, ThiefOk, At, Putting, Stealing
<1>. QED BY <1>4, <1>5, <1>6, ThreadOnly

\* runqsteal: a thief with an empty ring chooses its victim.
LEMMA StealKeeps ==
  ASSUME NEW s, Inv(s), NEW p \in P, NEW v \in P, NEW next \in BOOLEAN, Steal(p, v, next)
  PROVE  Inv(s)' /\ Advance(s, p)
<1>1. /\ th[p] \in State /\ At(p, "idle") /\ p # v /\ th[p].copied = 0
      /\ UNCHANGED <<runqhead, runqtail, runq, runnext, globrunq, puts, out>>
      /\ Hands(p) = {} /\ Extra(p) = 0 /\ Coming(p) = 0
  BY Before DEF ThiefOk, Steal, Hands, Extra, Coming, At, Putting
<1>2. T(s, p) = H(s, p)
  <2>1. Queue(p) = <<>>
    BY DEF Steal
  <2>2. DOMAIN Queue(p) = 1 .. Minus(runqtail[p], runqhead[p])
    BY DEF Queue, Ring
  <2>3. Minus(runqtail[p], runqhead[p]) = T(s, p) - H(s, p)
    BY Before, Indices
  <2>4. DOMAIN Queue(p) = {}
    BY <2>1
  <2>5. T(s, p) \in Nat /\ H(s, p) \in Nat /\ H(s, p) <= T(s, p)
    BY Before
  <2>6. ASSUME T(s, p) # H(s, p) PROVE FALSE
    <3>1. T(s, p) - H(s, p) \in Nat /\ 1 <= T(s, p) - H(s, p)
      BY <2>5, <2>6
    <3>2. 1 \in DOMAIN Queue(p)
      BY <2>2, <2>3, <3>1
    <3>. QED BY <2>4, <3>2
  <2>. QED BY <2>6
<1>3. T(s, p)' = T(s, p) /\ H(s, p)' = H(s, p)
  BY <1>1 DEF H, T
<1>. DEFINE r == [th[p] EXCEPT !.pc = "grab", !.victim = v, !.next = next]
<1>4. r \in State /\ r.pc = "grab" /\ r.victim = v /\ r.copied = 0
  BY <1>1 DEF State
<1>5. th' = [th EXCEPT ![p] = r]
  BY DEF Steal
<1>. HIDE DEF r
<1>6. /\ th' \in [P -> State] /\ \A q \in P \ {p} : th'[q] = th[q]
      /\ th'[p].pc = "grab" /\ th'[p].victim = v /\ th'[p].copied = 0
  BY <1>4, <1>5, Becomes
<1>7. Hands(p)' = {} /\ Extra(p)' = 0 /\ Coming(p)' = 0
  BY <1>6 DEF Hands, Extra, Coming, At, Putting
<1>8. OwnerOk(s, p)' /\ ThiefOk(s, p)'
  BY <1>1, <1>2, <1>3, <1>6 DEF OwnerOk, ThiefOk, At, Putting, Stealing
<1>. QED BY <1>1, <1>6, <1>7, <1>8, ThreadOnly

\* runqgrab: the load of the victim's head.
LEMMA GrabKeeps ==
  ASSUME NEW s, Inv(s), NEW p \in P, Grab(p)
  PROVE  Inv(s)' /\ Advance(s, p)
<1>1. /\ th[p] \in State /\ At(p, "grab") /\ T(s, p) = H(s, p) /\ th[p].victim \in P \ {p}
      /\ th[p].copied = 0
      /\ UNCHANGED <<runqhead, runqtail, runq, runnext, globrunq, puts, out>>
      /\ Hands(p) = {} /\ Extra(p) = 0 /\ Coming(p) = 0
  BY Before DEF Grab, Hands, Extra, Coming, At, Putting, Stealing, OwnerOk, ThiefOk
<1>. PICK v \in P \ {p} : v = th[p].victim
  BY <1>1
<1>. DEFINE r == [th[p] EXCEPT !.pc = "grabtail", !.h = runqhead[v]]
<1>2. runqhead[v] \in 0 .. W - 1 /\ H(s, v) <= H(s, v)
  <2>1. TypeOK /\ H(s, v) \in Nat
    BY Before
  <2>. QED BY <2>1 DEF TypeOK
<1>3. r \in State /\ r.pc = "grabtail" /\ r.victim = v /\ r.h = runqhead[v] /\ r.copied = 0
  BY <1>1, <1>2 DEF State
<1>4. th' = [th EXCEPT ![p] = r]
  BY DEF Grab
<1>. HIDE DEF r
<1>5. /\ th' \in [P -> State] /\ \A q \in P \ {p} : th'[q] = th[q]
      /\ th'[p].pc = "grabtail" /\ th'[p].victim = v /\ th'[p].h = runqhead[v]
      /\ th'[p].copied = 0
  BY <1>3, <1>4, Becomes
<1>6. Hands(p)' = {} /\ Extra(p)' = 0 /\ Coming(p)' = 0
  BY <1>5 DEF Hands, Extra, Coming, At, Putting
<1>7. /\ Read(s, p, v)' = H(s, v) /\ H(s, v)' = H(s, v)
      /\ H(s, p)' = H(s, p) /\ T(s, p)' = T(s, p)
  BY <1>1, <1>2, <1>5 DEF Read, H, T
<1>8. OwnerOk(s, p)' /\ ThiefOk(s, p)'
  BY <1>1, <1>2, <1>5, <1>7 DEF OwnerOk, ThiefOk, At, Putting, Stealing
<1>. QED BY <1>1, <1>5, <1>6, <1>8, ThreadOnly

\* runqgrab: the load of the tail, and what n it gives; a torn pair is read again.
LEMMA GrabTailKeeps ==
  ASSUME NEW s, Inv(s), NEW p \in P, GrabTail(p)
  PROVE  Inv(s)' /\ Advance(s, p)
<1>0. At(p, "grabtail") /\ th[p].victim \in P \ {p}
  BY Before DEF GrabTail, At, Stealing, ThiefOk
<1>. PICK v \in P \ {p} : v = th[p].victim
  BY <1>0
<1>. DEFINE size == Minus(runqtail[v], th[p].h)
            n == size - (size \div 2)
<1>1. /\ th[p] \in State /\ At(p, "grabtail") /\ T(s, p) = H(s, p)
      /\ Read(s, p, v) <= H(s, v) /\ th[p].copied = 0
      /\ UNCHANGED <<runqhead, runqtail, runq, runnext, globrunq, puts, out>>
      /\ Hands(p) = {} /\ Extra(p) = 0 /\ Coming(p) = 0
  BY Before DEF GrabTail, Hands, Extra, Coming, At, Putting, Stealing, OwnerOk, ThiefOk
<1>2. /\ H(s, p)' = H(s, p) /\ T(s, p)' = T(s, p) /\ H(s, v)' = H(s, v) /\ T(s, v)' = T(s, v)
      /\ \A k \in Nat : Cell(s, p, k)' = Cell(s, p, k) /\ Cell(s, v, k)' = Cell(s, v, k)
  BY <1>1 DEF H, T, Cell
<1>3. CASE Return(p)
  BY <1>1, <1>3, Rests, ThreadOnly
<1>4. CASE Again(p)
  BY <1>1, <1>4, AgainKeeps DEF At, Stealing
<1>5. ASSUME runnext[v] # NoG,
             th' = [th EXCEPT ![p].pc = "grabnext", ![p].g = runnext[v], ![p].h = 0]
      PROVE  Inv(s)' /\ Advance(s, p)
  <2>. DEFINE r == [th[p] EXCEPT !.pc = "grabnext", !.g = runnext[v], !.h = 0]
  <2>0. TypeOK
    BY Before
  <2>1. runnext[v] \in G /\ 0 \in 0 .. W - 1
    BY <1>5, <2>0, Numbers DEF TypeOK
  <2>2. r \in State /\ r.pc = "grabnext" /\ r.victim = v /\ r.g \in G /\ r.copied = 0
    BY <1>1, <2>1 DEF State
  <2>3. th' = [th EXCEPT ![p] = r]
    BY <1>5
  <2>. HIDE DEF r
  <2>4. /\ th' \in [P -> State] /\ \A q \in P \ {p} : th'[q] = th[q]
        /\ th'[p].pc = "grabnext" /\ th'[p].victim = v /\ th'[p].g \in G /\ th'[p].copied = 0
    BY <2>2, <2>3, Becomes
  <2>5. Hands(p)' = {} /\ Extra(p)' = 0 /\ Coming(p)' = 0
    BY <2>4 DEF Hands, Extra, Coming, At, Putting
  <2>6. OwnerOk(s, p)' /\ ThiefOk(s, p)'
    BY <1>1, <1>2, <2>4 DEF OwnerOk, ThiefOk, At, Putting, Stealing
  <2>. QED BY <1>1, <2>4, <2>5, <2>6, ThreadOnly
<1>6. ASSUME n \in 1 .. Len2, th' = [th EXCEPT ![p].pc = "grabcopy", ![p].n = n]
      PROVE  Inv(s)' /\ Advance(s, p)
  <2>1. size = T(s, v) - Read(s, p, v) /\ size \in Nat
    <3>1. Read(s, p, v) <= T(s, v)
      BY <1>1, Before
    <3>2. size = T(s, v) - Read(s, p, v)
      BY <1>1, <3>1, Before, Indices
    <3>. QED BY <1>1, <3>1, <3>2, Before
  <2>2. n <= size
    <3>. HIDE DEF size
    <3>. QED BY <2>1
  <2>. HIDE DEF n, size
  <2>3. n \in 0 .. W - 1 /\ Read(s, p, v) + n <= T(s, v)
    BY <1>1, <1>6, <2>1, <2>2, Before
  <2>. DEFINE r == [th[p] EXCEPT !.pc = "grabcopy", !.n = n]
  <2>4. r \in State /\ r.pc = "grabcopy" /\ r.victim = v /\ r.n = n /\ r.h = th[p].h
        /\ r.copied = 0
    BY <1>1, <2>3 DEF State
  <2>5. th' = [th EXCEPT ![p] = r]
    BY <1>6
  <2>. HIDE DEF r
  <2>6. /\ th' \in [P -> State] /\ \A q \in P \ {p} : th'[q] = th[q]
        /\ th'[p].pc = "grabcopy" /\ th'[p].victim = v /\ th'[p].n = n /\ th'[p].copied = 0
        /\ th'[p].h = th[p].h
    BY <2>4, <2>5, Becomes
  <2>7. Hands(p)' = {} /\ Extra(p)' = 0 /\ Coming(p)' = 0
    BY <2>6 DEF Hands, Extra, Coming, At, Putting
  <2>8. Read(s, p, v)' = Read(s, p, v)
    BY <2>6 DEF Read
  <2>9. OwnerOk(s, p)'
    BY <1>1, <1>2, <2>6 DEF OwnerOk, At, Putting, Stealing
  <2>10. ThiefOk(s, p)'
    <3>1. 0 < n /\ 0 .. 0 - 1 = {}
      BY <1>6, Numbers
    <3>. QED BY <1>1, <1>2, <1>6, <2>3, <2>6, <2>8, <3>1 DEF ThiefOk, At, Stealing
  <2>. QED BY <1>1, <2>6, <2>7, <2>9, <2>10, ThreadOnly
<1>. QED BY <1>3, <1>4, <1>5, <1>6 DEF GrabTail

\* The other threads have what they had.
LEMMA Others ==
  ASSUME NEW p \in P, \A q \in P \ {p} : th'[q] = th[q]
  PROVE  \A q \in P \ {p} : Hands(q)' = Hands(q) /\ Extra(q)' = Extra(q)
BY DEF Hands, Extra, At

\* The places a goroutine can move to.
LEMMA Ends ==
  /\ <<"out", NoP, 0>> \in Place /\ <<"global", NoP, 0>> \in Place
  /\ \A p \in P : /\ <<"hands", p, 0>> \in Place /\ <<"next", p, 0>> \in Place
                  /\ \A k \in Nat : <<"ring", p, k>> \in Place
BY DEF Place

\* The rings do not change, and the goroutines have gone where they should.
LEMMA QuietStep ==
  ASSUME NEW s, Inv(s), NEW p \in P, UNCHANGED <<runqhead, runqtail, runq>>, TypeOK',
         \A q \in P \ {p} : th'[q] = th[q], Extra(p)' = Extra(p),
         Bound' \in Int, Bound <= Bound', T(s, p) + Coming(p)' <= Bound',
         OwnerOk(s, p)', ThiefOk(s, p)', \A g \in G : Home(s, g)'
  PROVE  Inv(s)' /\ Advance(s, p)
<1>1. th' \in [P -> State]
  BY DEF TypeOK
<1>2. Advance(s, p) /\ RingOk(s, p)'
  BY <1>1, Quiet
<1>. QED BY <1>2, StepOk

\* runqput without next: the goroutine goes to the thread's hands.
LEMMA PutKeeps ==
  ASSUME NEW s, Inv(s), NEW p \in P, NEW g \in out, Put(p, g)
  PROVE  Inv(s)' /\ Advance(s, p)
<1>1. /\ TypeOK /\ th[p] \in State /\ At(p, "idle") /\ th[p].copied = 0 /\ g \in G
      /\ UNCHANGED <<runqhead, runqtail, runq, runnext, globrunq>>
      /\ out' = out \ {g} /\ puts' = puts + 1 /\ puts < MaxPuts
      /\ Hands(p) = {} /\ Extra(p) = 0 /\ Coming(p) = 0
  BY Before DEF TypeOK, Put, Hands, Extra, Coming, At, Putting, ThiefOk
<1>. DEFINE r == [th[p] EXCEPT !.pc = "putring", !.g = g]
<1>2. r \in State /\ r.pc = "putring" /\ r.g = g /\ r.copied = 0
  BY <1>1 DEF State
<1>3. th' = [th EXCEPT ![p] = r]
  BY DEF Put
<1>. HIDE DEF r
<1>4. /\ th' \in [P -> State] /\ \A q \in P \ {p} : th'[q] = th[q]
      /\ th'[p].pc = "putring" /\ th'[p].g = g /\ th'[p].copied = 0
  BY <1>2, <1>3, Becomes
<1>5. Hands(p)' = {g} /\ Extra(p)' = 0 /\ Coming(p)' = 1
  BY <1>4 DEF Hands, Extra, Coming, At, Putting
<1>6. OwnerOk(s, p)' /\ ThiefOk(s, p)'
  BY <1>1, <1>4 DEF OwnerOk, ThiefOk, At, Putting, Stealing
<1>7. Bound' = Bound + 1 /\ Bound \in Int /\ T(s, p) + Coming(p) <= Bound /\ T(s, p) \in Nat
  BY <1>1, Before, Counting DEF RingOk
<1>8. TypeOK'
  BY <1>1, <1>4, BoundAssumption DEF TypeOK
<1>9. /\ \A q \in P, k \in Nat, x \in G : Slotted(s, q, k, x)' <=> Slotted(s, q, k, x)
      /\ \A q \in P \ {p} : Hands(q)' = Hands(q)
  BY <1>1, <1>4, <1>5, Quiet, Others
<1>10. ASSUME NEW x \in G PROVE Home(s, x)'
  <2>1. Home(s, x)
    BY DEF Inv
  <2>2. CASE x = g
    <3>. DEFINE a == <<"out", NoP, 0>>  b == <<"hands", p, 0>>
    <3>1. a \in Place /\ b \in Place /\ Has(s, a, x)
      BY <2>2, Ends DEF Has
    <3>2. ASSUME NEW q \in P
          PROVE  /\ \A k \in Nat : Slotted(s, q, k, x)' <=>
                                     \/ b = <<"ring", q, k>>
                                     \/ Slotted(s, q, k, x) /\ a # <<"ring", q, k>>
                 /\ x \in Hands(q)' <=>
                      b = <<"hands", q, 0>> \/ (x \in Hands(q) /\ a # <<"hands", q, 0>>)
                 /\ runnext'[q] = x <=>
                      b = <<"next", q, 0>> \/ (runnext[q] = x /\ a # <<"next", q, 0>>)
      BY <1>1, <1>5, <1>9, <2>2
    <3>3. /\ x \in globrunq' <=> b[1] = "global" \/ (x \in globrunq /\ a[1] # "global")
          /\ x \in out' <=> b[1] = "out" \/ (x \in out /\ a[1] # "out")
      BY <1>1, <2>2
    <3>. HIDE DEF a, b
    <3>. QED BY <2>1, <3>1, <3>2, <3>3, HomeMoves
  <2>3. CASE x # g
    <3>1. \A q \in P : x \in Hands(q)' <=> x \in Hands(q)
      BY <1>1, <1>5, <1>9, <2>3
    <3>2. (x \in globrunq' <=> x \in globrunq) /\ (x \in out' <=> x \in out)
      BY <1>1, <2>3
    <3>. QED BY <1>1, <1>9, <2>1, <3>1, <3>2, HomeStays
  <2>. QED BY <2>2, <2>3
<1>. QED BY <1>1, <1>4, <1>5, <1>6, <1>7, <1>8, <1>10, QuietStep

\* runqput with next: the goroutine takes the next slot and kicks out the old one.
LEMMA PutNextKeeps ==
  ASSUME NEW s, Inv(s), NEW p \in P, NEW g \in out, PutNext(p, g)
  PROVE  Inv(s)' /\ Advance(s, p)
<1>. DEFINE old == runnext[p]
<1>1. /\ TypeOK /\ th[p] \in State /\ At(p, "idle") /\ th[p].copied = 0 /\ g \in G
      /\ UNCHANGED <<runqhead, runqtail, runq, globrunq>>
      /\ runnext' = [runnext EXCEPT ![p] = g] /\ runnext \in [P -> G \cup {NoG}]
      /\ out' = out \ {g} /\ puts' = puts + 1 /\ puts < MaxPuts
      /\ Hands(p) = {} /\ Extra(p) = 0 /\ Coming(p) = 0
      /\ old \in G \cup {NoG} /\ NoG \notin G
  BY Before, NamesAssumption
     DEF TypeOK, PutNext, Hands, Extra, Coming, At, Putting, ThiefOk
<1>. DEFINE r == [th[p] EXCEPT !.pc = "putring", !.g = old]
<1>. HIDE DEF old
<1>2. /\ th' \in [P -> State] /\ \A q \in P \ {p} : th'[q] = th[q]
      /\ th'[p].copied = 0
      /\ IF old = NoG THEN th'[p].pc = "idle" ELSE th'[p].pc = "putring" /\ th'[p].g = old
  <2>1. CASE old = NoG
    <3>1. th' = th
      BY <2>1 DEF PutNext, old
    <3>. QED BY <1>1, <2>1, <3>1 DEF At, TypeOK
  <2>2. CASE old # NoG
    <3>1. r \in State /\ r.pc = "putring" /\ r.g = old /\ r.copied = 0
      BY <1>1, <2>2 DEF State
    <3>2. th' = [th EXCEPT ![p] = r]
      BY <2>2 DEF PutNext, old
    <3>. HIDE DEF r
    <3>. QED BY <2>2, <3>1, <3>2, Becomes
  <2>. QED BY <2>1, <2>2
<1>3. /\ Hands(p)' = IF old = NoG THEN {} ELSE {old}
      /\ Extra(p)' = 0 /\ Coming(p)' \in {0, 1}
  BY <1>2 DEF Hands, Extra, Coming, At, Putting
<1>4. OwnerOk(s, p)' /\ ThiefOk(s, p)'
  BY <1>1, <1>2 DEF OwnerOk, ThiefOk, At, Putting, Stealing
<1>5. Bound' = Bound + 1 /\ Bound \in Int /\ T(s, p) + Coming(p) <= Bound /\ T(s, p) \in Nat
  BY <1>1, Before, Counting DEF RingOk
<1>6. TypeOK'
  <2>1. puts' \in 0 .. MaxPuts
    BY <1>1, BoundAssumption DEF TypeOK
  <2>2. runnext' \in [P -> G \cup {NoG}] /\ out' \subseteq G
    BY <1>1 DEF TypeOK
  <2>. QED BY <1>1, <1>2, <2>1, <2>2 DEF TypeOK
<1>7. /\ \A q \in P, k \in Nat, x \in G : Slotted(s, q, k, x)' <=> Slotted(s, q, k, x)
      /\ \A q \in P \ {p} : Hands(q)' = Hands(q)
  BY <1>1, <1>2, <1>3, Quiet, Others
<1>8. old # g
  <2>1. Home(s, g) /\ Has(s, <<"out", NoP, 0>>, g)
    BY <1>1 DEF Inv, Has
  <2>2. runnext[p] = g => <<"out", NoP, 0>> = <<"next", p, 0>>
    BY <2>1, Ends, Nowhere
  <2>. QED BY <2>2 DEF old
<1>9. ASSUME NEW x \in G PROVE Home(s, x)'
  <2>1. Home(s, x)
    BY DEF Inv
  <2>2. \A q \in P \ {p} : runnext'[q] = runnext[q] /\ (x \in Hands(q)' <=> x \in Hands(q))
    BY <1>1, <1>7
  <2>2a. runnext'[p] = g
    BY <1>1
  <2>3. CASE x = g
    <3>. DEFINE a == <<"out", NoP, 0>>  b == <<"next", p, 0>>
    <3>1. a \in Place /\ b \in Place /\ Has(s, a, x)
      BY <2>3, Ends DEF Has
    <3>2. ASSUME NEW q \in P
          PROVE  /\ \A k \in Nat : Slotted(s, q, k, x)' <=>
                                     \/ b = <<"ring", q, k>>
                                     \/ Slotted(s, q, k, x) /\ a # <<"ring", q, k>>
                 /\ x \in Hands(q)' <=>
                      b = <<"hands", q, 0>> \/ (x \in Hands(q) /\ a # <<"hands", q, 0>>)
                 /\ runnext'[q] = x <=>
                      b = <<"next", q, 0>> \/ (runnext[q] = x /\ a # <<"next", q, 0>>)
      <4>1. \A k \in Nat : Slotted(s, q, k, x)' <=> Slotted(s, q, k, x)
        BY <1>7
      <4>2. x \in Hands(q)' <=> x \in Hands(q)
        BY <1>1, <1>3, <1>8, <2>2, <2>3
      <4>. QED BY <4>1, <4>2, <2>2, <2>2a, <2>3
    <3>3. /\ x \in globrunq' <=> b[1] = "global" \/ (x \in globrunq /\ a[1] # "global")
          /\ x \in out' <=> b[1] = "out" \/ (x \in out /\ a[1] # "out")
      BY <1>1, <2>3
    <3>. HIDE DEF a, b
    <3>. QED BY <2>1, <3>1, <3>2, <3>3, HomeMoves
  <2>4. CASE x = old
    <3>. DEFINE a == <<"next", p, 0>>  b == <<"hands", p, 0>>
    <3>1. a \in Place /\ b \in Place /\ Has(s, a, x)
      BY <2>4, Ends DEF Has, old
    <3>2. ASSUME NEW q \in P
          PROVE  /\ \A k \in Nat : Slotted(s, q, k, x)' <=>
                                     \/ b = <<"ring", q, k>>
                                     \/ Slotted(s, q, k, x) /\ a # <<"ring", q, k>>
                 /\ x \in Hands(q)' <=>
                      b = <<"hands", q, 0>> \/ (x \in Hands(q) /\ a # <<"hands", q, 0>>)
                 /\ runnext'[q] = x <=>
                      b = <<"next", q, 0>> \/ (runnext[q] = x /\ a # <<"next", q, 0>>)
      <4>1. \A k \in Nat : Slotted(s, q, k, x)' <=> Slotted(s, q, k, x)
        BY <1>7
      <4>2. x \in Hands(p)'
        BY <1>1, <1>3, <2>4
      <4>. QED BY <4>1, <4>2, <2>2, <2>2a, <2>4, <1>8
    <3>3. /\ x \in globrunq' <=> b[1] = "global" \/ (x \in globrunq /\ a[1] # "global")
          /\ x \in out' <=> b[1] = "out" \/ (x \in out /\ a[1] # "out")
      BY <1>1, <1>8, <2>4
    <3>. HIDE DEF a, b
    <3>. QED BY <2>1, <3>1, <3>2, <3>3, HomeMoves
  <2>5. CASE x # g /\ x # old
    <3>1. \A q \in P : (x \in Hands(q)' <=> x \in Hands(q)) /\ (runnext'[q] = x <=> runnext[q] = x)
      BY <1>1, <1>3, <2>2, <2>2a, <2>5 DEF old
    <3>2. (x \in globrunq' <=> x \in globrunq) /\ (x \in out' <=> x \in out)
      BY <1>1, <2>5
    <3>. QED BY <1>7, <2>1, <3>1, <3>2, HomeStays
  <2>. QED BY <2>3, <2>4, <2>5
<1>. QED BY <1>1, <1>2, <1>3, <1>4, <1>5, <1>6, <1>9, QuietStep

\* runqputslow, under sched.lock: the batch goes to the global queue.
LEMMA PutGlobalKeeps ==
  ASSUME NEW s, Inv(s), NEW p \in P, PutGlobal(p)
  PROVE  Inv(s)' /\ Advance(s, p)
<1>1. /\ TypeOK /\ th[p] \in State /\ At(p, "putglobal") /\ Return(p)
      /\ UNCHANGED <<runqhead, runqtail, runq, runnext, puts, out>>
      /\ globrunq' = globrunq \cup Hands(p) /\ Hands(p) \subseteq G
      /\ Extra(p) = 0 /\ Coming(p) = 0
  BY Before DEF PutGlobal, Hands, Extra, Coming, At, Putting, State
<1>2. /\ th' \in [P -> State] /\ \A q \in P \ {p} : th'[q] = th[q]
      /\ OwnerOk(s, p)' /\ ThiefOk(s, p)'
      /\ Hands(p)' = {} /\ Extra(p)' = 0 /\ Coming(p)' = 0
  BY <1>1, Rests
<1>3. Bound' = Bound /\ Bound \in Int /\ T(s, p) + Coming(p) <= Bound /\ T(s, p) \in Nat
  BY <1>1, Before, Counting DEF RingOk
<1>4. TypeOK'
  BY <1>1, <1>2 DEF TypeOK
<1>5. /\ \A q \in P, k \in Nat, x \in G : Slotted(s, q, k, x)' <=> Slotted(s, q, k, x)
      /\ \A q \in P \ {p} : Hands(q)' = Hands(q)
  BY <1>1, <1>2, Quiet, Others
<1>6. ASSUME NEW x \in G PROVE Home(s, x)'
  <2>1. Home(s, x)
    BY DEF Inv
  <2>2. CASE x \in Hands(p)
    <3>. DEFINE a == <<"hands", p, 0>>  b == <<"global", NoP, 0>>
    <3>1. a \in Place /\ b \in Place /\ Has(s, a, x)
      BY <2>2, Ends DEF Has
    <3>2. ASSUME NEW q \in P
          PROVE  /\ \A k \in Nat : Slotted(s, q, k, x)' <=>
                                     \/ b = <<"ring", q, k>>
                                     \/ Slotted(s, q, k, x) /\ a # <<"ring", q, k>>
                 /\ x \in Hands(q)' <=>
                      b = <<"hands", q, 0>> \/ (x \in Hands(q) /\ a # <<"hands", q, 0>>)
                 /\ runnext'[q] = x <=>
                      b = <<"next", q, 0>> \/ (runnext[q] = x /\ a # <<"next", q, 0>>)
      BY <1>1, <1>2, <1>5, <2>2
    <3>3. /\ x \in globrunq' <=> b[1] = "global" \/ (x \in globrunq /\ a[1] # "global")
          /\ x \in out' <=> b[1] = "out" \/ (x \in out /\ a[1] # "out")
      BY <1>1, <2>2
    <3>. HIDE DEF a, b
    <3>. QED BY <2>1, <3>1, <3>2, <3>3, HomeMoves
  <2>3. CASE x \notin Hands(p)
    <3>1. \A q \in P : x \in Hands(q)' <=> x \in Hands(q)
      BY <1>2, <1>5, <2>3
    <3>2. (x \in globrunq' <=> x \in globrunq) /\ (x \in out' <=> x \in out)
      BY <1>1, <2>3
    <3>. QED BY <1>1, <1>5, <2>1, <3>1, <3>2, HomeStays
  <2>. QED BY <2>2, <2>3
<1>. QED BY <1>1, <1>2, <1>3, <1>4, <1>6, QuietStep

\* p takes what is in runnext of q, its own or another's.
LEMMA TakeKeeps ==
  ASSUME NEW s, Inv(s), NEW p \in P, NEW v \in P, TakeNext(v), runnext[v] # NoG,
         UNCHANGED <<runqhead, runqtail, runq, globrunq, puts>>,
         th' \in [P -> State], \A q \in P \ {p} : th'[q] = th[q],
         Hands(p)' = Hands(p), Extra(p)' = Extra(p), Coming(p)' = Coming(p),
         OwnerOk(s, p)', ThiefOk(s, p)'
  PROVE  Inv(s)' /\ Advance(s, p)
<1>. DEFINE g == runnext[v]
<1>1. /\ TypeOK /\ g \in G /\ NoG \notin G
      /\ runnext' = [runnext EXCEPT ![v] = NoG] /\ runnext \in [P -> G \cup {NoG}]
      /\ out' = out \cup {g}
  BY Before, NamesAssumption DEF TypeOK, TakeNext
<1>2. Home(s, g) /\ Has(s, <<"next", v, 0>>, g)
  BY <1>1 DEF Inv, Has
<1>3. g \notin out
  <2>1. <<"next", v, 0>> \in Place
    BY Ends
  <2>2. g \in out => <<"next", v, 0>> = <<"out", NoP, 0>>
    BY <1>2, <2>1, Nowhere
  <2>. QED BY <2>2
<1>4. Bound' = Bound + (Len2 - 1) /\ Bound \in Int /\ T(s, p) + Coming(p) <= Bound
      /\ T(s, p) \in Nat /\ Len2 \in Nat /\ Len2 >= 1 /\ Coming(p) \in Int
  <2>1. Coming(p) \in Int
    BY Before DEF Coming, Extra, State
  <2>. QED BY <1>1, <1>3, <2>1, Before, Counting DEF RingOk
<1>5. TypeOK'
  BY <1>1 DEF TypeOK
<1>6. /\ \A q \in P, k \in Nat, x \in G : Slotted(s, q, k, x)' <=> Slotted(s, q, k, x)
      /\ \A q \in P : Hands(q)' = Hands(q)
  BY Quiet, Others
<1>. HIDE DEF g
<1>7. ASSUME NEW x \in G PROVE Home(s, x)'
  <2>1. Home(s, x)
    BY DEF Inv
  <2>2. CASE x = g
    <3>. DEFINE a == <<"next", v, 0>>  b == <<"out", NoP, 0>>
    <3>1. a \in Place /\ b \in Place /\ Has(s, a, x)
      BY <1>2, <2>2, Ends
    <3>2. ASSUME NEW q \in P
          PROVE  /\ \A k \in Nat : Slotted(s, q, k, x)' <=>
                                     \/ b = <<"ring", q, k>>
                                     \/ Slotted(s, q, k, x) /\ a # <<"ring", q, k>>
                 /\ x \in Hands(q)' <=>
                      b = <<"hands", q, 0>> \/ (x \in Hands(q) /\ a # <<"hands", q, 0>>)
                 /\ runnext'[q] = x <=>
                      b = <<"next", q, 0>> \/ (runnext[q] = x /\ a # <<"next", q, 0>>)
      BY <1>1, <1>6, <2>2
    <3>3. /\ x \in globrunq' <=> b[1] = "global" \/ (x \in globrunq /\ a[1] # "global")
          /\ x \in out' <=> b[1] = "out" \/ (x \in out /\ a[1] # "out")
      BY <1>1, <2>2
    <3>. HIDE DEF a, b
    <3>. QED BY <2>1, <3>1, <3>2, <3>3, HomeMoves
  <2>3. CASE x # g
    <3>1. \A q \in P : runnext'[q] = x <=> runnext[q] = x
      BY <1>1, <2>3 DEF g
    <3>2. x \in out' <=> x \in out
      BY <1>1, <2>3
    <3>. QED BY <1>6, <2>1, <3>1, <3>2, HomeStays
  <2>. QED BY <2>2, <2>3
<1>. QED BY <1>4, <1>5, <1>7, QuietStep

\* runqget takes the next slot.
LEMMA GetNextKeeps ==
  ASSUME NEW s, Inv(s), NEW p \in P, GetNext(p)
  PROVE  Inv(s)' /\ Advance(s, p)
<1>1. /\ th \in [P -> State] /\ th[p] \in State /\ At(p, "idle") /\ th[p].copied = 0
      /\ UNCHANGED <<runqhead, runqtail, runq, globrunq, puts>>
      /\ Hands(p) = {} /\ Extra(p) = 0 /\ Coming(p) = 0
  BY Before DEF GetNext, Hands, Extra, Coming, At, Putting, ThiefOk
<1>2. CASE runnext[p] # NoG /\ TakeNext(p) /\ UNCHANGED th
  <2>1. /\ th' = th /\ Hands(p)' = Hands(p) /\ Extra(p)' = Extra(p) /\ Coming(p)' = Coming(p)
    BY <1>2 DEF Hands, Extra, Coming, At
  <2>2. OwnerOk(s, p)' /\ ThiefOk(s, p)'
    BY <1>1, <2>1 DEF OwnerOk, ThiefOk, At, Putting, Stealing
  <2>3. th' \in [P -> State] /\ \A q \in P \ {p} : th'[q] = th[q]
    BY <1>1, <2>1
  <2>. QED BY <1>1, <1>2, <2>1, <2>2, <2>3, TakeKeeps
<1>3. CASE Goto(p, "get") /\ UNCHANGED <<runnext, out>>
  <2>. DEFINE r == [th[p] EXCEPT !.pc = "get"]
  <2>1. r \in State /\ r.pc = "get" /\ r.copied = 0
    BY <1>1 DEF State
  <2>2. th' = [th EXCEPT ![p] = r]
    BY <1>3 DEF Goto
  <2>. HIDE DEF r
  <2>3. /\ th' \in [P -> State] /\ \A q \in P \ {p} : th'[q] = th[q]
        /\ th'[p].pc = "get" /\ th'[p].copied = 0
    BY <2>1, <2>2, Becomes
  <2>4. Hands(p)' = {} /\ Extra(p)' = 0 /\ Coming(p)' = 0
    BY <2>3 DEF Hands, Extra, Coming, At, Putting
  <2>5. OwnerOk(s, p)' /\ ThiefOk(s, p)'
    BY <2>3 DEF OwnerOk, ThiefOk, At, Putting, Stealing
  <2>. QED BY <1>1, <1>3, <2>3, <2>4, <2>5, ThreadOnly
<1>. QED BY <1>2, <1>3 DEF GetNext

\* runqgrab takes the victim's next slot.
LEMMA GrabNextKeeps ==
  ASSUME NEW s, Inv(s), NEW p \in P, GrabNext(p)
  PROVE  Inv(s)' /\ Advance(s, p)
<1>1. /\ At(p, "grabnext") /\ th[p].victim \in P /\ th[p].g \in G /\ th[p].pc \in Stealing
      /\ UNCHANGED <<runqhead, runqtail, runq, globrunq, puts>>
      /\ Hands(p) = {} /\ Extra(p) = 0 /\ Coming(p) = 0
  BY Before DEF GrabNext, Hands, Extra, Coming, At, Putting, Stealing, ThiefOk
<1>. PICK v \in P : v = th[p].victim
  BY <1>1
<1>2. CASE runnext[v] = th[p].g /\ TakeNext(v) /\ Return(p)
  <2>1. runnext[v] # NoG
    BY <1>1, <1>2, NamesAssumption
  <2>. QED BY <1>1, <1>2, <2>1, Rests, TakeKeeps
<1>3. CASE Again(p) /\ UNCHANGED <<runnext, out>>
  BY <1>1, <1>3, AgainKeeps
<1>. QED BY <1>2, <1>3 DEF GrabNext

\* A free slot is written, or the ring was full.
LEMMA PutRingKeeps ==
  ASSUME NEW s, Inv(s), NEW p \in P, PutRing(p)
  PROVE  Inv(s)' /\ Advance(s, p)
<1>. DEFINE g == th[p].g
<1>1. /\ s \in [P -> 0 .. W - 1] /\ TypeOK /\ th[p] \in State /\ At(p, "putring")
      /\ th[p].copied = 0 /\ g \in G
      /\ UNCHANGED <<runqhead, runqtail, runnext, globrunq, puts, out>>
      /\ Hands(p) = {g} /\ Extra(p) = 0 /\ Coming(p) = 1
  BY Before DEF PutRing, Hands, Extra, Coming, At, Putting, ThiefOk, OwnerOk
<1>2. /\ H(s, p) \in Nat /\ T(s, p) \in Nat /\ H(s, p) <= T(s, p)
      /\ T(s, p) <= H(s, p) + Length /\ Len2 \in Nat /\ Len2 >= 1 /\ Length = Len2 + Len2
      /\ W \in Nat /\ Length < W
      /\ \A q \in P : H(s, q) \in Nat /\ T(s, q) \in Nat /\ H(s, q) <= T(s, q)
  BY Before
<1>3. /\ \A q \in P : H(s, q)' = H(s, q) /\ T(s, q)' = T(s, q)
      /\ Minus(runqtail[p], runqhead[p]) = T(s, p) - H(s, p)
  <2>1. \A q \in P : H(s, q)' = H(s, q) /\ T(s, q)' = T(s, q)
    BY <1>1 DEF H, T
  <2>. QED BY <1>1, <1>2, <2>1, Indices
<1>4. CASE Minus(runqtail[p], runqhead[p]) < Length
  <2>1. runq' = [runq EXCEPT ![p][Slot(runqtail[p])] = g] /\ Goto(p, "puttail")
    BY <1>4 DEF PutRing
  <2>2. runqtail[p] + 0 = runqtail[p] /\ T(s, p) + 0 = T(s, p)
    BY <1>1, <1>2 DEF TypeOK
  <2>3. runq' = [runq EXCEPT ![p][Slot(runqtail[p] + 0)] = g]
    BY <2>1, <2>2
  <2>4. /\ runq' \in [P -> [0 .. Length - 1 -> G \cup {NoG}]]
        /\ runq'[p][Slot(s[p] + (T(s, p) + 0))] = g
        /\ \A k \in Nat : k # T(s, p) + 0 /\ k < T(s, p) + 0 + Length /\ T(s, p) + 0 < k + Length =>
             runq'[p][Slot(s[p] + k)] = Cell(s, p, k)
        /\ \A q \in P \ {p} : runq'[q] = runq[q]
    <3>1. Write(p, 0, g) /\ 0 \in Nat
      BY <2>3 DEF Write
    <3>. QED BY <1>1, <3>1, SlotWritten
  <2>5. Cell(s, p, T(s, p))' = g
    BY <1>3, <2>2, <2>4 DEF Cell
  <2>6. \A k \in Nat : H(s, p) <= k /\ k < T(s, p) => Cell(s, p, k)' = Cell(s, p, k)
    <3>. SUFFICES ASSUME NEW k \in Nat, H(s, p) <= k, k < T(s, p)
                  PROVE  Cell(s, p, k)' = Cell(s, p, k)
      OBVIOUS
    <3>1. k # T(s, p) + 0 /\ k < T(s, p) + 0 + Length /\ T(s, p) + 0 < k + Length
      BY <1>1, <1>2, <1>3, <1>4
    <3>. QED BY <2>4, <3>1 DEF Cell
  <2>7. \A q \in P \ {p}, k \in Nat : Cell(s, q, k)' = Cell(s, q, k)
    BY <2>4 DEF Cell
  <2>. DEFINE r == [th[p] EXCEPT !.pc = "puttail"]
  <2>8. r \in State /\ r.pc = "puttail" /\ r.g = g /\ r.copied = 0
    BY <1>1 DEF State
  <2>9. th' = [th EXCEPT ![p] = r]
    BY <2>1 DEF Goto
  <2>. HIDE DEF r
  <2>10. /\ th' \in [P -> State] /\ \A q \in P \ {p} : th'[q] = th[q]
         /\ th'[p].pc = "puttail" /\ th'[p].g = g /\ th'[p].copied = 0
    BY <2>8, <2>9, Becomes
  <2>. HIDE DEF g
  <2>11. Hands(p)' = {g} /\ Extra(p)' = 0 /\ Coming(p)' = 1
    BY <2>10 DEF Hands, Extra, Coming, At, Putting
  <2>12. OwnerOk(s, p)' /\ ThiefOk(s, p)'
    <3>1. T(s, p) < H(s, p) + Length
      BY <1>1, <1>2, <1>3, <1>4
    <3>. QED BY <1>1, <1>3, <2>5, <2>10, <3>1
         DEF OwnerOk, ThiefOk, At, Putting, Stealing
  <2>13. TypeOK'
    BY <1>1, <2>4, <2>10 DEF TypeOK
  <2>14. Advance(s, p)
    BY <1>2, <1>3, <2>6, <2>7 DEF Advance
  <2>15. Bound' = Bound /\ Bound \in Int
    BY <1>1, Counting
  <2>16. RingOk(s, p)'
    <3>1. RingOk(s, p)
      BY Before
    <3>. QED BY <1>1, <1>2, <1>3, <2>6, <2>11, <2>15, <3>1 DEF RingOk
  <2>17. ASSUME NEW x \in G PROVE Home(s, x)'
    <3>1. ASSUME NEW q \in P
          PROVE  /\ \A k \in Nat : Slotted(s, q, k, x)' <=> Slotted(s, q, k, x)
                 /\ x \in Hands(q)' <=> x \in Hands(q)
      <4>1. CASE q = p
        BY <1>1, <1>2, <1>3, <2>6, <2>11, <4>1 DEF Slotted
      <4>2. CASE q # p
        BY <1>3, <2>7, <2>10, <4>2, Others DEF Slotted
      <4>. QED BY <4>1, <4>2
    <3>2. Home(s, x)
      BY DEF Inv
    <3>. QED BY <1>1, <3>1, <3>2, HomeStays
  <2>. QED BY <2>10, <2>12, <2>13, <2>14, <2>15, <2>16, <2>17, StepOk
<1>5. CASE ~(Minus(runqtail[p], runqhead[p]) < Length)
  <2>. DEFINE n == Minus(runqtail[p], runqhead[p]) \div 2
  <2>1. /\ th' = [th EXCEPT ![p].pc = "putslow", ![p].h = runqhead[p], ![p].n = n]
        /\ UNCHANGED runq
    BY <1>5 DEF PutRing
  <2>2. T(s, p) = H(s, p) + Length
    BY <1>1, <1>2, <1>3, <1>5
  <2>3. n = Len2
    <3>1. Minus(runqtail[p], runqhead[p]) = Len2 + Len2
      BY <1>1, <1>2, <1>3, <2>2
    <3>2. (Len2 + Len2) \div 2 = Len2
      BY <1>2
    <3>. QED BY <3>1, <3>2
  <2>. HIDE DEF n
  <2>. DEFINE r == [th[p] EXCEPT !.pc = "putslow", !.h = runqhead[p], !.n = n]
  <2>4. runqhead[p] \in 0 .. W - 1 /\ n \in 0 .. W - 1
    BY <1>1, <1>2, <2>3 DEF TypeOK
  <2>5. r \in State /\ r.pc = "putslow" /\ r.g = g /\ r.copied = 0 /\ r.n = Len2
        /\ r.h = runqhead[p]
    BY <1>1, <2>3, <2>4 DEF State
  <2>6. th' = [th EXCEPT ![p] = r]
    BY <2>1
  <2>. HIDE DEF r
  <2>7. /\ th' \in [P -> State] /\ \A q \in P \ {p} : th'[q] = th[q]
        /\ th'[p].pc = "putslow" /\ th'[p].g = g /\ th'[p].copied = 0 /\ th'[p].n = Len2
        /\ th'[p].h = runqhead[p]
    BY <2>5, <2>6, Becomes
  <2>. HIDE DEF g
  <2>8. Hands(p)' = {g} /\ Extra(p)' = 0 /\ Coming(p)' = 1
    BY <2>7 DEF Hands, Extra, Coming, At, Putting
  <2>9. Read(s, p, p)' = H(s, p)
    BY <2>7 DEF Read, H
  <2>10. OwnerOk(s, p)' /\ ThiefOk(s, p)'
    BY <1>1, <1>2, <1>3, <2>2, <2>7, <2>9 DEF OwnerOk, ThiefOk, At, Putting, Stealing
  <2>. QED BY <1>1, <2>1, <2>7, <2>8, <2>10, ThreadOnly
<1>. QED BY <1>4, <1>5

\* runqput publishes the slot it wrote: the tail moves on.
LEMMA PutTailKeeps ==
  ASSUME NEW s, Inv(s), NEW p \in P, PutTail(p)
  PROVE  Inv(s)' /\ Advance(s, p)
<1>. DEFINE g == th[p].g
<1>1. /\ s \in [P -> 0 .. W - 1] /\ TypeOK /\ th[p] \in State /\ At(p, "puttail") /\ g \in G
      /\ UNCHANGED <<runqhead, runq, runnext, globrunq, puts, out>> /\ Return(p)
      /\ runqtail' = [runqtail EXCEPT ![p] = Plus(runqtail[p], 1)]
      /\ Hands(p) = {g} /\ Extra(p) = 0 /\ Coming(p) = 1
      /\ T(s, p) < H(s, p) + Length /\ Cell(s, p, T(s, p)) = g
  BY Before DEF PutTail, Hands, Extra, Coming, At, Putting, OwnerOk
<1>. HIDE DEF g
<1>2. /\ Length \in Nat /\ RingOk(s, p)
      /\ \A q \in P : H(s, q) \in Nat /\ T(s, q) \in Nat /\ H(s, q) <= T(s, q)
  BY Before
<1>3. Bound' = Bound /\ Bound \in Int /\ T(s, p) + 1 <= Bound /\ T(s, p) + 1 < W
  BY <1>1, <1>2, Before, Counting DEF RingOk
<1>4. /\ runqtail' \in [P -> 0 .. W - 1] /\ T(s, p)' = T(s, p) + 1
      /\ \A q \in P \ {p} : T(s, q)' = T(s, q)
  <2>1. TailOn(p, 1) /\ 1 \in Nat
    BY <1>1 DEF TailOn
  <2>. QED BY <1>1, <1>3, <2>1, TailMoves
<1>5. /\ \A q \in P : H(s, q)' = H(s, q)
      /\ \A q \in P, k \in Nat : Cell(s, q, k)' = Cell(s, q, k)
  BY <1>1 DEF H, Cell
<1>6. /\ th' \in [P -> State] /\ \A q \in P \ {p} : th'[q] = th[q]
      /\ OwnerOk(s, p)' /\ ThiefOk(s, p)'
      /\ Hands(p)' = {} /\ Extra(p)' = 0 /\ Coming(p)' = 0
  BY <1>1, Rests
<1>7. TypeOK'
  BY <1>1, <1>4, <1>6 DEF TypeOK
<1>8. Advance(s, p)
  BY <1>2, <1>4, <1>5 DEF Advance
<1>9. RingOk(s, p)'
  <2>1. ASSUME NEW k \in Nat, H(s, p) <= k, k < T(s, p) + 1 PROVE Cell(s, p, k) \in G
    BY <1>1, <1>2, <2>1 DEF RingOk
  <2>. QED BY <1>1, <1>2, <1>3, <1>4, <1>5, <1>6, <2>1 DEF RingOk
<1>10. ASSUME NEW x \in G PROVE Home(s, x)'
  <2>1. Home(s, x)
    BY DEF Inv
  <2>2. \A q \in P \ {p} : /\ \A k \in Nat : Slotted(s, q, k, x)' <=> Slotted(s, q, k, x)
                           /\ x \in Hands(q)' <=> x \in Hands(q)
    BY <1>4, <1>5, <1>6, Others DEF Slotted
  <2>3. \A k \in Nat : Slotted(s, p, k, x)' <=> Slotted(s, p, k, x) \/ (k = T(s, p) /\ x = g)
    BY <1>1, <1>2, <1>4, <1>5, <1>6 DEF Slotted
  <2>4. CASE x = g
    <3>. DEFINE a == <<"hands", p, 0>>  b == <<"ring", p, T(s, p)>>
    <3>1. a \in Place /\ b \in Place /\ Has(s, a, x)
      BY <1>1, <1>2, <2>4, Ends DEF Has
    <3>2. ASSUME NEW q \in P
          PROVE  /\ \A k \in Nat : Slotted(s, q, k, x)' <=>
                                     \/ b = <<"ring", q, k>>
                                     \/ Slotted(s, q, k, x) /\ a # <<"ring", q, k>>
                 /\ x \in Hands(q)' <=>
                      b = <<"hands", q, 0>> \/ (x \in Hands(q) /\ a # <<"hands", q, 0>>)
                 /\ runnext'[q] = x <=>
                      b = <<"next", q, 0>> \/ (runnext[q] = x /\ a # <<"next", q, 0>>)
      BY <1>1, <1>6, <2>2, <2>3, <2>4
    <3>3. /\ x \in globrunq' <=> b[1] = "global" \/ (x \in globrunq /\ a[1] # "global")
          /\ x \in out' <=> b[1] = "out" \/ (x \in out /\ a[1] # "out")
      BY <1>1
    <3>. HIDE DEF a, b
    <3>. QED BY <2>1, <3>1, <3>2, <3>3, HomeMoves
  <2>5. CASE x # g
    <3>1. \A q \in P : /\ \A k \in Nat : Slotted(s, q, k, x)' <=> Slotted(s, q, k, x)
                       /\ x \in Hands(q)' <=> x \in Hands(q)
      BY <1>1, <1>6, <2>2, <2>3, <2>5
    <3>. QED BY <1>1, <2>1, <3>1, HomeStays
  <2>. QED BY <2>4, <2>5
<1>. QED BY <1>3, <1>6, <1>7, <1>8, <1>9, <1>10, StepOk

\* runqsteal publishes what it has stolen.
LEMMA StealTailKeeps ==
  ASSUME NEW s, Inv(s), NEW p \in P, StealTail(p)
  PROVE  Inv(s)' /\ Advance(s, p)
<1>. DEFINE n == th[p].n
<1>1. /\ s \in [P -> 0 .. W - 1] /\ TypeOK /\ th[p] \in State /\ At(p, "stealtail")
      /\ UNCHANGED <<runqhead, runq, runnext, globrunq, puts, out>> /\ Return(p)
      /\ runqtail' = [runqtail EXCEPT ![p] = Plus(runqtail[p], n)]
      /\ Hands(p) = {} /\ Extra(p) = n /\ Coming(p) = n
      /\ T(s, p) = H(s, p) /\ n \in 1 .. Len2 - 1
  BY Before DEF StealTail, Hands, Extra, Coming, At, Putting, OwnerOk
<1>. HIDE DEF n
<1>2. /\ Length \in Nat /\ Len2 \in Nat /\ Length = Len2 + Len2 /\ RingOk(s, p)
      /\ \A q \in P : H(s, q) \in Nat /\ T(s, q) \in Nat /\ H(s, q) <= T(s, q)
  BY Before
<1>3. Bound' = Bound /\ Bound \in Int /\ T(s, p) + n <= Bound /\ T(s, p) + n < W /\ n \in Nat
  BY <1>1, <1>2, Before, Counting DEF RingOk
<1>4. /\ runqtail' \in [P -> 0 .. W - 1] /\ T(s, p)' = T(s, p) + n
      /\ \A q \in P \ {p} : T(s, q)' = T(s, q)
  <2>1. TailOn(p, n)
    BY <1>1 DEF TailOn
  <2>. QED BY <1>1, <1>3, <2>1, TailMoves
<1>5. /\ \A q \in P : H(s, q)' = H(s, q)
      /\ \A q \in P, k \in Nat : Cell(s, q, k)' = Cell(s, q, k)
  BY <1>1 DEF H, Cell
<1>6. /\ th' \in [P -> State] /\ \A q \in P \ {p} : th'[q] = th[q]
      /\ OwnerOk(s, p)' /\ ThiefOk(s, p)'
      /\ Hands(p)' = {} /\ Extra(p)' = 0 /\ Coming(p)' = 0
  BY <1>1, Rests
<1>7. TypeOK'
  BY <1>1, <1>4, <1>6 DEF TypeOK
<1>8. Advance(s, p)
  BY <1>2, <1>3, <1>4, <1>5 DEF Advance
<1>9. RingOk(s, p)'
  BY <1>1, <1>2, <1>3, <1>4, <1>5, <1>6 DEF RingOk
<1>10. ASSUME NEW x \in G PROVE Home(s, x)'
  <2>1. Home(s, x)
    BY DEF Inv
  <2>2. ASSUME NEW q \in P
        PROVE  /\ \A k \in Nat : Slotted(s, q, k, x)' <=> Slotted(s, q, k, x)
               /\ x \in Hands(q)' <=> x \in Hands(q)
    <3>1. CASE q = p
      BY <1>1, <1>2, <1>3, <1>4, <1>5, <1>6, <3>1 DEF Slotted
    <3>2. CASE q # p
      BY <1>4, <1>5, <1>6, <3>2, Others DEF Slotted
    <3>. QED BY <3>1, <3>2
  <2>. QED BY <1>1, <2>1, <2>2, HomeStays
<1>. QED BY <1>3, <1>6, <1>7, <1>8, <1>9, <1>10, StepOk

\* What a batch is made of.
LEMMA RingCells ==
  ASSUME TypeOK, NEW s \in [P -> 0 .. W - 1], NEW p \in P, NEW n \in Nat
  PROVE  \A x : x \in ToSet(Ring(p, th[p].h, n)) <=>
                  \E i \in 0 .. n - 1 : x = Cell(s, p, Read(s, p, p) + i)
<1>. DEFINE h == th[p].h  d == Read(s, p, p)
<1>1. h \in Int /\ d \in Int /\ s[p] \in Int
  <2>1. d \in 0 .. W - 1 /\ h \in 0 .. W - 1 /\ s[p] \in 0 .. W - 1
    BY Indices DEF TypeOK, State
  <2>. QED BY <2>1, Numbers
<1>2. \A k \in Int : Slot(h + k) = Slot(s[p] + (d + k))
  BY Indices
<1>. HIDE DEF h, d
<1>3. ASSUME NEW i \in 1 .. n
      PROVE  runq[p][Slot(h + i - 1)] = Cell(s, p, d + (i - 1))
  <2>1. h + i - 1 = h + (i - 1)
    BY <1>1
  <2>. QED BY <1>2, <2>1 DEF Cell
<1>4. \A x : x \in ToSet(Ring(p, h, n)) <=> \E i \in 1 .. n : x = runq[p][Slot(h + i - 1)]
  BY DEF ToSet, Ring
<1>5. ASSUME NEW x, NEW i \in 1 .. n, x = runq[p][Slot(h + i - 1)]
      PROVE  \E j \in 0 .. n - 1 : x = Cell(s, p, d + j)
  <2>1. i - 1 \in 0 .. n - 1
    OBVIOUS
  <2>. QED BY <1>3, <1>5, <2>1
<1>6. ASSUME NEW x, NEW j \in 0 .. n - 1, x = Cell(s, p, d + j)
      PROVE  \E i \in 1 .. n : x = runq[p][Slot(h + i - 1)]
  <2>. DEFINE i == j + 1
  <2>1. i \in 1 .. n /\ i - 1 = j
    OBVIOUS
  <2>. HIDE DEF i
  <2>2. x = runq[p][Slot(h + i - 1)]
    BY <1>3, <1>6, <2>1
  <2>. QED BY <2>1, <2>2
<1>. QED BY <1>4, <1>5, <1>6 DEF h, d

\* The head is where it was read: half of the ring and the goroutine that was to be put
\* are the thread's.
LEMMA PutSlowTakes ==
  ASSUME NEW s, Inv(s), NEW p \in P, At(p, "putslow"), Cas(p, th[p].h, th[p].n),
         th' = [th EXCEPT ![p].pc = "putglobal", ![p].g = NoG, ![p].h = 0, ![p].n = 0,
                          ![p].batch = {th[p].g} \cup ToSet(Ring(p, th[p].h, th[p].n))],
         UNCHANGED <<runqtail, runq, runnext, globrunq, puts, out>>
  PROVE  Inv(s)' /\ Advance(s, p)
<1>. DEFINE g == th[p].g  batch == {g} \cup ToSet(Ring(p, th[p].h, th[p].n))
<1>1. /\ s \in [P -> 0 .. W - 1] /\ TypeOK /\ th[p] \in State /\ g \in G /\ th[p].copied = 0
      /\ runqhead[p] = th[p].h /\ runqhead' = [runqhead EXCEPT ![p] = Plus(runqhead[p], Len2)]
      /\ Hands(p) = {g} /\ Extra(p) = 0 /\ Coming(p) = 1 /\ th[p].n = Len2
      /\ Read(s, p, p) = H(s, p) /\ T(s, p) = H(s, p) + Length
  <2>1. /\ s \in [P -> 0 .. W - 1] /\ TypeOK /\ th[p] \in State /\ g \in G
        /\ th[p].copied = 0 /\ th[p].n = Len2 /\ T(s, p) = Read(s, p, p) + Length
    BY Before DEF At, Putting, ThiefOk, OwnerOk
  <2>2. Read(s, p, p) = H(s, p) /\ runqhead[p] = th[p].h
    BY DEF Cas, Read, H
  <2>3. Hands(p) = {g} /\ Extra(p) = 0 /\ Coming(p) = 1
    BY DEF Hands, Extra, Coming, At, Putting
  <2>. QED BY <2>1, <2>2, <2>3 DEF Cas
<1>2. /\ Len2 \in Nat /\ Len2 >= 1 /\ Length = Len2 + Len2 /\ RingOk(s, p) /\ W \in Nat /\ W > 0
      /\ \A q \in P : H(s, q) \in Nat /\ T(s, q) \in Nat /\ H(s, q) <= T(s, q)
  BY Before
<1>3. \A x : x \in batch <=> x = g \/ \E i \in 0 .. Len2 - 1 : x = Cell(s, p, H(s, p) + i)
  <2>1. \A x : x \in ToSet(Ring(p, th[p].h, Len2)) <=>
                 \E i \in 0 .. Len2 - 1 : x = Cell(s, p, Read(s, p, p) + i)
    BY <1>1, <1>2, RingCells
  <2>2. batch = {g} \cup ToSet(Ring(p, th[p].h, Len2)) /\ Read(s, p, p) = H(s, p)
    BY <1>1
  <2>. HIDE DEF batch, g
  <2>. QED BY <2>1, <2>2
<1>4. /\ runqhead' \in [P -> 0 .. W - 1] /\ H(s, p)' = H(s, p) + Len2
      /\ \A q \in P \ {p} : H(s, q)' = H(s, q)
  <2>1. H(s, p) + Len2 <= T(s, p) /\ HeadOn(p, Len2)
    BY <1>1, <1>2 DEF HeadOn
  <2>. QED BY <1>1, <1>2, <2>1, HeadMoves
<1>5. /\ \A q \in P : T(s, q)' = T(s, q)
      /\ \A q \in P, k \in Nat : Cell(s, q, k)' = Cell(s, q, k)
  BY DEF T, Cell
<1>6. ASSUME NEW i \in 0 .. Len2 - 1
      PROVE  /\ H(s, p) + i \in Nat /\ H(s, p) <= H(s, p) + i /\ H(s, p) + i < T(s, p)
             /\ Cell(s, p, H(s, p) + i) \in G
             /\ Slotted(s, p, H(s, p) + i, Cell(s, p, H(s, p) + i))
  <2>1. H(s, p) + i \in Nat /\ H(s, p) <= H(s, p) + i /\ H(s, p) + i < T(s, p) + Extra(p)
        /\ H(s, p) + i < T(s, p)
    BY <1>1, <1>2
  <2>. QED BY <1>2, <2>1 DEF RingOk, Slotted
<1>7. batch \subseteq G
  BY <1>1, <1>3, <1>6
<1>. HIDE DEF batch
<1>. DEFINE r == [th[p] EXCEPT !.pc = "putglobal", !.g = NoG, !.h = 0, !.n = 0, !.batch = batch]
<1>8. r \in State /\ r.pc = "putglobal" /\ r.copied = 0 /\ r.batch = batch
  <2>1. 0 \in 0 .. W - 1
    BY <1>2
  <2>. QED BY <1>1, <1>7, <2>1 DEF State
<1>9. th' = [th EXCEPT ![p] = r]
  BY DEF batch
<1>. HIDE DEF r
<1>10. /\ th' \in [P -> State] /\ \A q \in P \ {p} : th'[q] = th[q]
       /\ th'[p].pc = "putglobal" /\ th'[p].copied = 0 /\ th'[p].batch = batch
  BY <1>8, <1>9, Becomes
<1>. HIDE DEF g
<1>11. Hands(p)' = batch /\ Extra(p)' = 0 /\ Coming(p)' = 0
  BY <1>10 DEF Hands, Extra, Coming, At, Putting
<1>12. OwnerOk(s, p)' /\ ThiefOk(s, p)'
  BY <1>10 DEF OwnerOk, ThiefOk, At, Putting, Stealing
<1>13. TypeOK'
  BY <1>1, <1>4, <1>10 DEF TypeOK
<1>14. Advance(s, p)
  BY <1>1, <1>2, <1>4, <1>5 DEF Advance
<1>15. Bound' = Bound /\ Bound \in Int
  BY <1>1, Counting
<1>16. RingOk(s, p)'
  BY <1>1, <1>2, <1>4, <1>5, <1>11, <1>15 DEF RingOk
<1>17. ASSUME NEW x \in G PROVE Home(s, x)'
  <2>1. Home(s, x)
    BY DEF Inv
  <2>2. \A q \in P \ {p} : /\ \A k \in Nat : Slotted(s, q, k, x)' <=> Slotted(s, q, k, x)
                           /\ x \in Hands(q)' <=> x \in Hands(q)
    BY <1>4, <1>5, <1>10, Others DEF Slotted
  <2>3. \A k \in Nat : Slotted(s, p, k, x)' <=> Slotted(s, p, k, x) /\ H(s, p) + Len2 <= k
    BY <1>1, <1>2, <1>4, <1>5, <1>11 DEF Slotted
  <2>4. CASE x = g
    <3>1. Has(s, <<"hands", p, 0>>, x) /\ <<"hands", p, 0>> \in Place
      BY <1>1, <2>4, Ends DEF Has
    <3>2. \A k \in Nat : ~Slotted(s, p, k, x)
      <4>1. \A k \in Nat : Slotted(s, p, k, x) => <<"hands", p, 0>> = <<"ring", p, k>>
        BY <2>1, <3>1, Nowhere
      <4>. QED BY <4>1
    <3>3. \A q \in P : /\ \A k \in Nat : Slotted(s, q, k, x)' <=> Slotted(s, q, k, x)
                       /\ x \in Hands(q)' <=> x \in Hands(q)
      BY <1>1, <1>3, <1>11, <2>2, <2>3, <2>4, <3>2
    <3>. QED BY <2>1, <3>3, HomeStays
  <2>5. ASSUME NEW i \in 0 .. Len2 - 1, x = Cell(s, p, H(s, p) + i) PROVE Home(s, x)'
    <3>. PICK j \in Nat : j = H(s, p) + i
      BY <1>6
    <3>. DEFINE a == <<"ring", p, j>>  b == <<"hands", p, 0>>
    <3>0. Slotted(s, p, j, x) /\ j < H(s, p) + Len2
      BY <1>2, <1>6, <2>5
    <3>1. a \in Place /\ b \in Place /\ Has(s, a, x)
      BY <3>0, Ends DEF Has, Slotted
    <3>2. \A k \in Nat : Slotted(s, p, k, x) => k = j
      <4>1. \A k \in Nat : Slotted(s, p, k, x) => a = <<"ring", p, k>>
        BY <2>1, <3>1, Nowhere
      <4>. QED BY <4>1
    <3>3. ASSUME NEW q \in P
          PROVE  /\ \A k \in Nat : Slotted(s, q, k, x)' <=>
                                     \/ b = <<"ring", q, k>>
                                     \/ Slotted(s, q, k, x) /\ a # <<"ring", q, k>>
                 /\ x \in Hands(q)' <=>
                      b = <<"hands", q, 0>> \/ (x \in Hands(q) /\ a # <<"hands", q, 0>>)
                 /\ runnext'[q] = x <=>
                      b = <<"next", q, 0>> \/ (runnext[q] = x /\ a # <<"next", q, 0>>)
      <4>1. CASE q = p
        <5>1. x \in Hands(p)'
          BY <1>3, <1>11, <2>5
        <5>2. \A k \in Nat : ~(Slotted(s, p, k, x)' )
          <6>. HIDE DEF a, b
          <6>. QED BY <1>2, <2>3, <3>0, <3>2
        <5>. QED BY <3>2, <4>1, <5>1, <5>2
      <4>2. CASE q # p
        BY <2>2, <4>2
      <4>. QED BY <4>1, <4>2
    <3>4. /\ x \in globrunq' <=> b[1] = "global" \/ (x \in globrunq /\ a[1] # "global")
          /\ x \in out' <=> b[1] = "out" \/ (x \in out /\ a[1] # "out")
      OBVIOUS
    <3>. HIDE DEF a, b
    <3>. QED BY <2>1, <3>1, <3>3, <3>4, HomeMoves
  <2>6. CASE x \notin batch
    <3>1. \A k \in Nat : Slotted(s, p, k, x) => H(s, p) + Len2 <= k
      <4>. SUFFICES ASSUME NEW k \in Nat, Slotted(s, p, k, x), k < H(s, p) + Len2
                    PROVE  FALSE
        BY <1>2
      <4>1. H(s, p) <= k /\ Cell(s, p, k) = x
        BY DEF Slotted
      <4>2. k - H(s, p) \in 0 .. Len2 - 1 /\ H(s, p) + (k - H(s, p)) = k
        BY <1>2, <4>1
      <4>3. Cell(s, p, H(s, p) + (k - H(s, p))) = x
        BY <4>1, <4>2
      <4>. QED BY <1>3, <2>6, <4>2, <4>3
    <3>2. \A q \in P : /\ \A k \in Nat : Slotted(s, q, k, x)' <=> Slotted(s, q, k, x)
                       /\ x \in Hands(q)' <=> x \in Hands(q)
      BY <1>1, <1>3, <1>11, <2>2, <2>3, <2>6, <3>1
    <3>. QED BY <2>1, <3>2, HomeStays
  <2>. QED BY <1>3, <2>4, <2>5, <2>6
<1>. QED BY <1>10, <1>12, <1>13, <1>14, <1>15, <1>16, <1>17, StepOk

\* runqputslow: its compare-and-swap of the head takes half the ring or fails.
LEMMA PutSlowKeeps ==
  ASSUME NEW s, Inv(s), NEW p \in P, PutSlow(p)
  PROVE  Inv(s)' /\ Advance(s, p)
<1>. DEFINE g == th[p].g
<1>1. /\ th[p] \in State /\ At(p, "putslow") /\ th[p].copied = 0 /\ g \in G /\ 0 \in 0 .. W - 1
      /\ UNCHANGED <<runqtail, runq, runnext, globrunq, puts, out>>
      /\ Hands(p) = {g} /\ Extra(p) = 0 /\ Coming(p) = 1
  <2>1. 0 \in 0 .. W - 1
    BY Numbers
  <2>. QED BY <2>1, Before DEF PutSlow, Hands, Extra, Coming, At, Putting, ThiefOk, OwnerOk
<1>2. ASSUME UNCHANGED runqhead, th' = [th EXCEPT ![p].pc = "putring", ![p].h = 0, ![p].n = 0]
      PROVE  Inv(s)' /\ Advance(s, p)
  <2>. DEFINE r == [th[p] EXCEPT !.pc = "putring", !.h = 0, !.n = 0]
  <2>1. r \in State /\ r.pc = "putring" /\ r.copied = 0 /\ r.g = g
    BY <1>1 DEF State
  <2>2. th' = [th EXCEPT ![p] = r]
    BY <1>2
  <2>. HIDE DEF r
  <2>3. /\ th' \in [P -> State] /\ \A q \in P \ {p} : th'[q] = th[q]
        /\ th'[p].pc = "putring" /\ th'[p].copied = 0 /\ th'[p].g = g
    BY <2>1, <2>2, Becomes
  <2>. HIDE DEF g
  <2>4. Hands(p)' = {g} /\ Extra(p)' = 0 /\ Coming(p)' = 1
    BY <2>3 DEF Hands, Extra, Coming, At, Putting
  <2>5. OwnerOk(s, p)' /\ ThiefOk(s, p)'
    BY <1>1, <2>3 DEF OwnerOk, ThiefOk, At, Putting, Stealing
  <2>. QED BY <1>1, <1>2, <2>3, <2>4, <2>5, ThreadOnly
<1>. QED BY <1>1, <1>2, PutSlowTakes DEF PutSlow

\* runqget: its compare-and-swap of the head takes the goroutine it read or fails.
LEMMA GetCasKeeps ==
  ASSUME NEW s, Inv(s), NEW p \in P, GetCas(p)
  PROVE  Inv(s)' /\ Advance(s, p)
<1>. DEFINE g == th[p].g
<1>1. /\ s \in [P -> 0 .. W - 1] /\ TypeOK /\ th[p] \in State /\ At(p, "getcas")
      /\ th[p].copied = 0 /\ OwnerOk(s, p)
      /\ UNCHANGED <<runqtail, runq, runnext, globrunq, puts>>
      /\ Hands(p) = {} /\ Extra(p) = 0 /\ Coming(p) = 0
  BY Before DEF GetCas, Hands, Extra, Coming, At, Putting, ThiefOk
<1>2. /\ Len2 \in Nat /\ Len2 >= 1 /\ Length = Len2 + Len2 /\ RingOk(s, p) /\ W \in Nat /\ W > 0
      /\ \A q \in P : H(s, q) \in Nat /\ T(s, q) \in Nat /\ H(s, q) <= T(s, q)
  BY Before
<1>3. ASSUME Cas(p, th[p].h, 1), Return(p), out' = out \cup {g}
      PROVE  Inv(s)' /\ Advance(s, p)
  <2>1. /\ runqhead' = [runqhead EXCEPT ![p] = Plus(runqhead[p], 1)]
        /\ H(s, p) < T(s, p) /\ Cell(s, p, H(s, p)) = g
    <3>1. Read(s, p, p) = H(s, p) /\ runqhead[p] = th[p].h
      BY <1>3 DEF Cas, Read, H
    <3>. QED BY <1>1, <1>3, <3>1 DEF Cas, OwnerOk
  <2>2. g \in G
    BY <1>1, <1>2, <2>1 DEF RingOk
  <2>3. /\ runqhead' \in [P -> 0 .. W - 1] /\ H(s, p)' = H(s, p) + 1
        /\ \A q \in P \ {p} : H(s, q)' = H(s, q)
    <3>1. H(s, p) + 1 <= T(s, p) /\ 1 \in Nat /\ HeadOn(p, 1)
      BY <1>2, <2>1 DEF HeadOn
    <3>. QED BY <1>1, <2>1, <3>1, HeadMoves
  <2>4. /\ \A q \in P : T(s, q)' = T(s, q)
        /\ \A q \in P, k \in Nat : Cell(s, q, k)' = Cell(s, q, k)
    BY <1>1 DEF T, Cell
  <2>5. /\ th' \in [P -> State] /\ \A q \in P \ {p} : th'[q] = th[q]
        /\ OwnerOk(s, p)' /\ ThiefOk(s, p)'
        /\ Hands(p)' = {} /\ Extra(p)' = 0 /\ Coming(p)' = 0
    BY <1>3, Rests
  <2>. HIDE DEF g
  <2>6. TypeOK'
    BY <1>1, <1>3, <2>2, <2>3, <2>5 DEF TypeOK
  <2>7. Advance(s, p)
    BY <1>2, <2>1, <2>3, <2>4 DEF Advance
  <2>. DEFINE a == <<"ring", p, H(s, p)>>  b == <<"out", NoP, 0>>
  <2>8. a \in Place /\ b \in Place /\ Has(s, a, g) /\ Home(s, g)
    <3>1. Slotted(s, p, H(s, p), g)
      BY <1>1, <1>2, <2>1 DEF Slotted
    <3>2. a \in Place /\ b \in Place
      BY <1>2, Ends
    <3>. QED BY <2>2, <3>1, <3>2 DEF Has, Slotted, Inv
  <2>9. g \notin out /\ \A k \in Nat : Slotted(s, p, k, g) => k = H(s, p)
    <3>1. /\ \A k \in Nat : Slotted(s, p, k, g) => a = <<"ring", p, k>>
          /\ g \in out => a = <<"out", NoP, 0>>
      BY <2>8, Nowhere
    <3>. QED BY <3>1
  <2>10. Bound' = Bound + (Len2 - 1) /\ Bound \in Int
    BY <1>1, <1>3, <2>2, <2>9, Counting
  <2>11. RingOk(s, p)'
    BY <1>1, <1>2, <2>1, <2>3, <2>4, <2>5, <2>10 DEF RingOk
  <2>12. ASSUME NEW x \in G PROVE Home(s, x)'
    <3>1. Home(s, x)
      BY DEF Inv
    <3>2. \A q \in P \ {p} : /\ \A k \in Nat : Slotted(s, q, k, x)' <=> Slotted(s, q, k, x)
                             /\ x \in Hands(q)' <=> x \in Hands(q)
      BY <2>3, <2>4, <2>5, Others DEF Slotted
    <3>3. \A k \in Nat : Slotted(s, p, k, x)' <=> Slotted(s, p, k, x) /\ k # H(s, p)
      BY <1>1, <1>2, <2>3, <2>4, <2>5 DEF Slotted
    <3>4. CASE x = g
      <4>2. ASSUME NEW q \in P
            PROVE  /\ \A k \in Nat : Slotted(s, q, k, x)' <=>
                                       \/ b = <<"ring", q, k>>
                                       \/ Slotted(s, q, k, x) /\ a # <<"ring", q, k>>
                   /\ x \in Hands(q)' <=>
                        b = <<"hands", q, 0>> \/ (x \in Hands(q) /\ a # <<"hands", q, 0>>)
                   /\ runnext'[q] = x <=>
                        b = <<"next", q, 0>> \/ (runnext[q] = x /\ a # <<"next", q, 0>>)
        BY <1>1, <2>5, <3>2, <3>3
      <4>3. /\ x \in globrunq' <=> b[1] = "global" \/ (x \in globrunq /\ a[1] # "global")
            /\ x \in out' <=> b[1] = "out" \/ (x \in out /\ a[1] # "out")
        BY <1>1, <1>3, <3>4 DEF g
      <4>. HIDE DEF a, b
      <4>. QED BY <2>8, <3>4, <4>2, <4>3, HomeMoves
    <3>5. CASE x # g
      <4>1. \A k \in Nat : Slotted(s, p, k, x)' <=> Slotted(s, p, k, x)
        BY <2>1, <3>3, <3>5 DEF Slotted
      <4>2. \A q \in P : /\ \A k \in Nat : Slotted(s, q, k, x)' <=> Slotted(s, q, k, x)
                         /\ x \in Hands(q)' <=> x \in Hands(q)
        BY <1>1, <2>5, <3>2, <4>1
      <4>3. x \in out' <=> x \in out
        BY <1>3, <3>5 DEF g
      <4>. QED BY <1>1, <3>1, <4>2, <4>3, HomeStays
    <3>. QED BY <3>4, <3>5
  <2>13. Bound <= Bound'
    BY <1>2, <2>10
  <2>. QED BY <2>5, <2>6, <2>7, <2>11, <2>12, <2>13, StepOk
<1>4. ASSUME UNCHANGED <<runqhead, out>>,
             th' = [th EXCEPT ![p].pc = "get", ![p].h = 0, ![p].g = NoG]
      PROVE  Inv(s)' /\ Advance(s, p)
  <2>. DEFINE r == [th[p] EXCEPT !.pc = "get", !.h = 0, !.g = NoG]
  <2>1. r \in State /\ r.pc = "get" /\ r.copied = 0
    <3>1. 0 \in 0 .. W - 1
      BY <1>2
    <3>. QED BY <1>1, <3>1 DEF State
  <2>2. th' = [th EXCEPT ![p] = r]
    BY <1>4
  <2>. HIDE DEF r
  <2>3. /\ th' \in [P -> State] /\ \A q \in P \ {p} : th'[q] = th[q]
        /\ th'[p].pc = "get" /\ th'[p].copied = 0
    BY <2>1, <2>2, Becomes
  <2>4. Hands(p)' = {} /\ Extra(p)' = 0 /\ Coming(p)' = 0
    BY <2>3 DEF Hands, Extra, Coming, At, Putting
  <2>5. OwnerOk(s, p)' /\ ThiefOk(s, p)'
    BY <2>3 DEF OwnerOk, ThiefOk, At, Putting, Stealing
  <2>. QED BY <1>1, <1>4, <2>3, <2>4, <2>5, ThreadOnly
<1>. QED BY <1>3, <1>4 DEF GetCas

\* One more is copied, into a slot of the thief's empty ring.
LEMMA GrabCopyKeeps ==
  ASSUME NEW s, Inv(s), NEW p \in P, GrabCopy(p)
  PROVE  Inv(s)' /\ Advance(s, p)
<1>0. At(p, "grabcopy") /\ th[p].victim \in P \ {p}
  BY Before DEF GrabCopy, At, Stealing, ThiefOk
<1>. PICK v \in P \ {p} : v = th[p].victim
  BY <1>0
<1>. PICK i \in Nat : i = th[p].copied
  BY Before DEF State
<1>. PICK n \in Nat : n = th[p].n
  BY Before DEF State
<1>1. /\ s \in [P -> 0 .. W - 1] /\ TypeOK /\ th[p] \in State /\ T(s, p) = H(s, p)
      /\ Read(s, p, v) <= H(s, v) /\ n \in 1 .. Len2 /\ Read(s, p, v) + n <= T(s, v) /\ i < n
      /\ Read(s, p, v) = H(s, v) =>
           \A j \in 0 .. i - 1 : Cell(s, p, T(s, p) + j) = Cell(s, v, H(s, v) + j)
      /\ UNCHANGED <<runqhead, runqtail, runnext, globrunq, puts, out>>
      /\ Hands(p) = {} /\ Extra(p) = 0 /\ Coming(p) = 0
  BY <1>0, Before DEF GrabCopy, Hands, Extra, Coming, At, Putting, Stealing, OwnerOk, ThiefOk
<1>2. /\ Len2 \in Nat /\ Len2 >= 1 /\ Length = Len2 + Len2 /\ RingOk(s, p) /\ W \in Nat
      /\ \A q \in P : H(s, q) \in Nat /\ T(s, q) \in Nat /\ H(s, q) <= T(s, q)
      /\ Read(s, p, v) \in Nat
  BY Before
<1>3. \A q \in P : H(s, q)' = H(s, q) /\ T(s, q)' = T(s, q)
  BY <1>1 DEF H, T
<1>. DEFINE x == runq[v][Slot(th[p].h + i)]
<1>4. runq' = [runq EXCEPT ![p][Slot(runqtail[p] + i)] = x]
  BY DEF GrabCopy
<1>5. x = Cell(s, v, Read(s, p, v) + i) /\ x \in G \cup {NoG}
  <2>1. Slot(th[p].h + i) = Slot(s[v] + (Read(s, p, v) + i))
    <3>1. \A k \in Int : Slot(th[p].h + k) = Slot(s[v] + (Read(s, p, v) + k))
      BY <1>1, Indices
    <3>. QED BY <3>1
  <2>2. Slot(th[p].h + i) \in 0 .. Length - 1
    <3>1. th[p].h + i \in Int
      BY <1>1, <1>2 DEF State
    <3>. QED BY <3>1, Slots
  <2>3. x \in G \cup {NoG}
    <3>1. runq[v] \in [0 .. Length - 1 -> G \cup {NoG}]
      BY <1>1 DEF TypeOK
    <3>. QED BY <2>2, <3>1
  <2>4. x = Cell(s, v, Read(s, p, v) + i)
    BY <2>1 DEF Cell
  <2>. QED BY <2>3, <2>4
<1>. HIDE DEF x
<1>6. /\ runq' \in [P -> [0 .. Length - 1 -> G \cup {NoG}]]
      /\ runq'[p][Slot(s[p] + (T(s, p) + i))] = x
      /\ \A k \in Nat : k # T(s, p) + i /\ k < T(s, p) + i + Length /\ T(s, p) + i < k + Length =>
           runq'[p][Slot(s[p] + k)] = Cell(s, p, k)
      /\ \A q \in P \ {p} : runq'[q] = runq[q]
  <2>1. TypeOK /\ s \in [P -> 0 .. W - 1] /\ x \in G \cup {NoG}
    BY <1>1, <1>5
  <2>2. Write(p, i, x)
    BY <1>4 DEF Write
  <2>. HIDE DEF x
  <2>. QED BY <2>1, <2>2, SlotWritten
<1>7. \A q \in P \ {p}, k \in Nat : Cell(s, q, k)' = Cell(s, q, k)
  BY <1>6 DEF Cell
<1>8. \A j \in 0 .. i - 1 : Cell(s, p, T(s, p) + j)' = Cell(s, p, T(s, p) + j)
  <2>. SUFFICES ASSUME NEW j \in 0 .. i - 1
                PROVE  Cell(s, p, T(s, p) + j)' = Cell(s, p, T(s, p) + j)
    OBVIOUS
  <2>. PICK k \in Nat : k = T(s, p) + j
    BY <1>2
  <2>1. k # T(s, p) + i /\ k < T(s, p) + i + Length /\ T(s, p) + i < k + Length
    BY <1>1, <1>2
  <2>2. runq'[p][Slot(s[p] + k)] = Cell(s, p, k)
    BY <1>6, <2>1
  <2>3. Cell(s, p, T(s, p) + j)' = runq'[p][Slot(s[p] + (T(s, p)' + j))]
    BY DEF Cell
  <2>. QED BY <1>3, <2>2, <2>3
<1>9. Cell(s, p, T(s, p) + i)' = x
  BY <1>3, <1>6 DEF Cell
<1>. DEFINE l == IF i + 1 = n THEN "grabcas" ELSE "grabcopy"
            r == [th[p] EXCEPT !.copied = i + 1, !.pc = l]
<1>10. r \in State /\ r.pc = l /\ r.copied = i + 1 /\ r.n = n /\ r.h = th[p].h /\ r.victim = v
  <2>1. i + 1 \in 0 .. Length
    BY <1>1, <1>2
  <2>. QED BY <1>1, <2>1 DEF State
<1>11. th' = [th EXCEPT ![p] = r]
  BY DEF GrabCopy
<1>. HIDE DEF r
<1>12. /\ th' \in [P -> State] /\ \A q \in P \ {p} : th'[q] = th[q]
       /\ th'[p].pc = l /\ th'[p].copied = i + 1 /\ th'[p].n = n /\ th'[p].h = th[p].h
       /\ th'[p].victim = v
  BY <1>10, <1>11, Becomes
<1>13. Hands(p)' = {} /\ Extra(p)' = 0 /\ Coming(p)' = 0
  BY <1>12 DEF Hands, Extra, Coming, At, Putting
<1>14. OwnerOk(s, p)'
  BY <1>1, <1>3, <1>12 DEF OwnerOk, At, Putting, Stealing
<1>15. ThiefOk(s, p)'
  <2>1. Read(s, p, v)' = Read(s, p, v)
    BY <1>12 DEF Read
  <2>2. ASSUME Read(s, p, v) = H(s, v), NEW j \in 0 .. (i + 1) - 1
        PROVE  Cell(s, p, T(s, p) + j)' = Cell(s, v, H(s, v) + j)'
    <3>1. Cell(s, v, H(s, v) + j)' = Cell(s, v, H(s, v) + j)
      <4>. PICK k \in Nat : k = H(s, v) + j
        BY <1>2
      <4>1. Cell(s, v, k)' = Cell(s, v, k)
        BY <1>7
      <4>. QED BY <1>3, <4>1 DEF Cell
    <3>2. CASE j = i
      BY <1>5, <1>9, <2>2, <3>1, <3>2
    <3>3. CASE j \in 0 .. i - 1
      BY <1>1, <1>8, <2>2, <3>1, <3>3
    <3>. QED BY <3>2, <3>3
  <2>3. /\ th'[p].pc \in {"grabcas", "grabcopy"}
        /\ IF At(p, "grabcas")' THEN i + 1 = n ELSE i + 1 < n
    BY <1>1, <1>12 DEF At
  <2>4. Read(s, p, v)' <= H(s, v)' /\ Read(s, p, v)' + n <= T(s, v)'
    BY <1>1, <1>3, <2>1
  <2>5. Read(s, p, v)' = H(s, v)' =>
          \A j \in 0 .. (i + 1) - 1 : Cell(s, p, T(s, p) + j)' = Cell(s, v, H(s, v) + j)'
    BY <1>3, <2>1, <2>2
  <2>. HIDE DEF l
  <2>. QED BY <1>1, <1>12, <2>3, <2>4, <2>5 DEF ThiefOk, At, Stealing
<1>16. TypeOK'
  BY <1>1, <1>6, <1>12 DEF TypeOK
<1>17. Advance(s, p)
  <2>1. \A k \in Nat : ~(H(s, p) <= k /\ k < T(s, p))
    BY <1>1, <1>2
  <2>. QED BY <1>2, <1>3, <1>7, <2>1 DEF Advance
<1>18. Bound' = Bound /\ Bound \in Int
  BY <1>1, Counting
<1>19. RingOk(s, p)'
  BY <1>1, <1>2, <1>3, <1>13, <1>18 DEF RingOk
<1>20. ASSUME NEW y \in G PROVE Home(s, y)'
  <2>1. ASSUME NEW q \in P
        PROVE  /\ \A k \in Nat : Slotted(s, q, k, y)' <=> Slotted(s, q, k, y)
               /\ y \in Hands(q)' <=> y \in Hands(q)
    <3>1. CASE q = p
      BY <1>1, <1>2, <1>3, <1>13, <3>1 DEF Slotted
    <3>2. CASE q # p
      BY <1>3, <1>7, <1>12, <3>2, Others DEF Slotted
    <3>. QED BY <3>1, <3>2
  <2>2. Home(s, y)
    BY DEF Inv
  <2>. QED BY <1>1, <2>1, <2>2, HomeStays
<1>. QED BY <1>12, <1>14, <1>15, <1>16, <1>17, <1>18, <1>19, <1>20, StepOk

\* The victim's head is where it was read: what was copied is the thief's, the last to run.
LEMMA GrabCasTakes ==
  ASSUME NEW s, Inv(s), NEW p \in P, At(p, "grabcas"), Cas(th[p].victim, th[p].h, th[p].n),
         out' = out \cup {Stolen(p)},
         IF th[p].n = 1 THEN Return(p)
         ELSE th' = [th EXCEPT ![p] = [Resting EXCEPT !.pc = "stealtail", !.n = th[p].n - 1]],
         UNCHANGED <<runqtail, runq, runnext, globrunq, puts>>
  PROVE  Inv(s)' /\ Advance(s, p)
<1>0. th[p].victim \in P \ {p}
  BY Before DEF At, Stealing, ThiefOk
<1>. PICK v \in P \ {p} : v = th[p].victim
  BY <1>0
<1>. PICK n \in Nat : n = th[p].n
  BY Before DEF State
<1>1. /\ s \in [P -> 0 .. W - 1] /\ TypeOK /\ th[p] \in State /\ T(s, p) = H(s, p)
      /\ n \in 1 .. Len2 /\ H(s, v) + n <= T(s, v)
      /\ runqhead' = [runqhead EXCEPT ![v] = Plus(runqhead[v], n)]
      /\ \A j \in 0 .. n - 1 : Cell(s, p, T(s, p) + j) = Cell(s, v, H(s, v) + j)
      /\ Hands(p) = {} /\ Extra(p) = 0 /\ Coming(p) = 0
  <2>1. Read(s, p, v) = H(s, v) /\ runqhead[v] = th[p].h
    BY DEF Cas, Read, H
  <2>2. /\ s \in [P -> 0 .. W - 1] /\ TypeOK /\ th[p] \in State /\ T(s, p) = H(s, p)
    BY Before DEF At, Stealing, OwnerOk
  <2>3. /\ n \in 1 .. Len2 /\ Read(s, p, v) + n <= T(s, v) /\ th[p].copied = n
        /\ Read(s, p, v) = H(s, v) =>
             \A j \in 0 .. th[p].copied - 1 :
               Cell(s, p, T(s, p) + j) = Cell(s, v, H(s, v) + j)
    BY Before DEF At, ThiefOk
  <2>4. Hands(p) = {} /\ Extra(p) = 0 /\ Coming(p) = 0
    BY DEF Hands, Extra, Coming, At, Putting
  <2>5. runqhead' = [runqhead EXCEPT ![v] = Plus(runqhead[v], n)]
    BY <2>1 DEF Cas
  <2>. QED BY <2>1, <2>2, <2>3, <2>4, <2>5
<1>2. /\ Len2 \in Nat /\ Len2 >= 1 /\ Length = Len2 + Len2 /\ W \in Nat /\ Length < W
      /\ RingOk(s, p)
      /\ \A q \in P : H(s, q) \in Nat /\ T(s, q) \in Nat /\ H(s, q) <= T(s, q) /\ RingOk(s, q)
  BY Before DEF Inv
<1>3. /\ runqhead' \in [P -> 0 .. W - 1] /\ H(s, v)' = H(s, v) + n
      /\ \A q \in P \ {v} : H(s, q)' = H(s, q)
  <2>1. TypeOK /\ s \in [P -> 0 .. W - 1] /\ H(s, v) + n <= T(s, v)
        /\ HeadOn(v, n)
    BY <1>1 DEF HeadOn
  <2>. QED BY <2>1, HeadMoves
<1>4. /\ \A q \in P : T(s, q)' = T(s, q)
      /\ \A q \in P, k \in Nat : Cell(s, q, k)' = Cell(s, q, k)
  BY DEF T, Cell
<1>5. /\ th' \in [P -> State] /\ \A q \in P \ {p} : th'[q] = th[q]
      /\ OwnerOk(s, p)' /\ ThiefOk(s, p)'
      /\ Hands(p)' = {} /\ Extra(p)' = n - 1 /\ Coming(p)' = n - 1
  <2>1. CASE n = 1
    BY <2>1, Rests
  <2>2. CASE n # 1
    <3>. DEFINE r == [Resting EXCEPT !.pc = "stealtail", !.n = n - 1]
    <3>1. r \in State /\ r.pc = "stealtail" /\ r.n = n - 1 /\ r.copied = 0
      <4>1. n - 1 \in 0 .. W - 1 /\ 0 \in 0 .. W - 1 /\ 0 \in 0 .. Length
        BY <1>1, <1>2
      <4>. QED BY <4>1 DEF Resting, State
    <3>2. th' = [th EXCEPT ![p] = r]
      BY <2>2
    <3>. HIDE DEF r
    <3>3. /\ th' \in [P -> State] /\ \A q \in P \ {p} : th'[q] = th[q]
          /\ th'[p].pc = "stealtail" /\ th'[p].n = n - 1 /\ th'[p].copied = 0
      BY <3>1, <3>2, Becomes
    <3>4. T(s, p)' = H(s, p)' /\ n - 1 \in 1 .. Len2 - 1
      <4>1. T(s, p)' = T(s, p) /\ H(s, p)' = H(s, p) /\ T(s, p) = H(s, p)
        BY <1>1, <1>3, <1>4
      <4>. QED BY <1>1, <1>2, <2>2, <4>1
    <3>5. OwnerOk(s, p)' /\ ThiefOk(s, p)'
      BY <3>3, <3>4 DEF OwnerOk, ThiefOk, At, Putting, Stealing
    <3>6. Hands(p)' = {} /\ Extra(p)' = n - 1 /\ Coming(p)' = n - 1
      BY <3>3 DEF Hands, Extra, Coming, At, Putting
    <3>. QED BY <3>3, <3>5, <3>6
  <2>. QED BY <2>1, <2>2
<1>. DEFINE last == Cell(s, v, H(s, v) + (n - 1))
<1>6. ASSUME NEW j \in 0 .. n - 1
      PROVE  /\ H(s, v) + j \in Nat /\ T(s, p) + j \in Nat
             /\ Cell(s, v, H(s, v) + j) \in G
             /\ Slotted(s, v, H(s, v) + j, Cell(s, v, H(s, v) + j))
  <2>1. H(s, v) + j \in Nat /\ H(s, v) <= H(s, v) + j /\ H(s, v) + j < T(s, v) /\ Extra(v) \in Nat
        /\ T(s, p) + j \in Nat
    <3>1. Extra(v) \in Nat
      BY <1>1 DEF Extra, TypeOK, State
    <3>. QED BY <1>1, <1>2, <3>1
  <2>2. H(s, v) + j < T(s, v) + Extra(v)
    BY <1>2, <2>1
  <2>. QED BY <1>2, <2>1, <2>2 DEF RingOk, Slotted
<1>7. Stolen(p) = last /\ last \in G
  <2>0. n - 1 \in 0 .. n - 1
    BY <1>1
  <2>1. runqtail[p] + n - 1 = runqtail[p] + (n - 1) /\ n - 1 \in Int
    BY <1>1, <1>2 DEF TypeOK
  <2>2. Slot(runqtail[p] + (n - 1)) = Slot(s[p] + (T(s, p) + (n - 1)))
    BY <1>1, <2>1, Indices
  <2>3. Stolen(p) = Cell(s, p, T(s, p) + (n - 1))
    BY <2>1, <2>2 DEF Stolen, Cell
  <2>. QED BY <1>1, <1>6, <2>0, <2>3
<1>. HIDE DEF last
<1>8. TypeOK'
  BY <1>1, <1>3, <1>5, <1>7 DEF TypeOK
<1>9. Advance(s, p)
  BY <1>1, <1>2, <1>3, <1>4 DEF Advance
<1>10. \A j \in 0 .. n - 1 : Cell(s, v, H(s, v) + j) \notin out
  <2>. SUFFICES ASSUME NEW j \in 0 .. n - 1 PROVE Cell(s, v, H(s, v) + j) \notin out
    OBVIOUS
  <2>. DEFINE x == Cell(s, v, H(s, v) + j)  a == <<"ring", v, H(s, v) + j>>
  <2>1. a \in Place /\ Has(s, a, x) /\ Home(s, x)
    BY <1>6, Ends DEF Has, Slotted, Inv
  <2>2. x \in out => a = <<"out", NoP, 0>>
    BY <2>1, Nowhere
  <2>. QED BY <2>2
<1>11. Bound' = Bound + (Len2 - 1) /\ Bound \in Int
  <2>1. last \notin out /\ n - 1 \in 0 .. n - 1
    BY <1>1, <1>10 DEF last
  <2>. QED BY <1>1, <1>7, <2>1, Counting
<1>12. Bound <= Bound'
  BY <1>2, <1>11
<1>13. RingOk(s, p)'
  <2>1. H(s, p)' = H(s, p) /\ T(s, p)' = T(s, p)
    BY <1>3, <1>4
  <2>2. T(s, p) + (n - 1) <= Bound'
    BY <1>1, <1>2, <1>11 DEF RingOk
  <2>3. ASSUME NEW k \in Nat, H(s, p) <= k, k < T(s, p) + (n - 1) PROVE Cell(s, p, k)' \in G
    <3>. PICK j \in 0 .. n - 1 : k = T(s, p) + j
      <4>1. k - T(s, p) \in 0 .. n - 1 /\ k = T(s, p) + (k - T(s, p))
        BY <1>1, <1>2, <2>3
      <4>. QED BY <4>1
    <3>1. Cell(s, p, k) = Cell(s, v, H(s, v) + j)
      BY <1>1
    <3>. QED BY <1>4, <1>6, <3>1
  <2>. QED BY <1>1, <1>2, <1>5, <2>1, <2>2, <2>3 DEF RingOk
<1>14. ASSUME NEW x \in G PROVE Home(s, x)'
  <2>1. Home(s, x)
    BY DEF Inv
  <2>2. \A q \in P : x \in Hands(q)' <=> x \in Hands(q)
    BY <1>1, <1>5, Others
  <2>3. \A q \in P \ {p, v}, k \in Nat : Slotted(s, q, k, x)' <=> Slotted(s, q, k, x)
    BY <1>3, <1>4, <1>5, Others DEF Slotted
  <2>4. \A k \in Nat : Slotted(s, v, k, x)' <=> Slotted(s, v, k, x) /\ H(s, v) + n <= k
    BY <1>2, <1>3, <1>4, <1>5, Others DEF Slotted
  <2>5. \A k \in Nat : ~Slotted(s, p, k, x)
    BY <1>1, <1>2 DEF Slotted
  <2>6. \A k \in Nat : Slotted(s, p, k, x)' <=>
                         \E j \in 0 .. n - 2 : k = T(s, p) + j /\ Cell(s, v, H(s, v) + j) = x
    <3>. SUFFICES ASSUME NEW k \in Nat
                  PROVE  Slotted(s, p, k, x)' <=>
                           \E j \in 0 .. n - 2 : k = T(s, p) + j /\ Cell(s, v, H(s, v) + j) = x
      OBVIOUS
    <3>1. Slotted(s, p, k, x)' <=> T(s, p) <= k /\ k < T(s, p) + (n - 1) /\ Cell(s, p, k) = x
      BY <1>1, <1>3, <1>4, <1>5 DEF Slotted
    <3>2. ASSUME T(s, p) <= k, k < T(s, p) + (n - 1), Cell(s, p, k) = x
          PROVE  \E j \in 0 .. n - 2 : k = T(s, p) + j /\ Cell(s, v, H(s, v) + j) = x
      <4>. DEFINE j == k - T(s, p)
      <4>1. j \in 0 .. n - 2 /\ j \in 0 .. n - 1 /\ k = T(s, p) + j
        BY <1>1, <1>2, <3>2
      <4>. HIDE DEF j
      <4>2. Cell(s, v, H(s, v) + j) = x
        BY <1>1, <3>2, <4>1
      <4>. QED BY <4>1, <4>2
    <3>3. ASSUME NEW j \in 0 .. n - 2, k = T(s, p) + j, Cell(s, v, H(s, v) + j) = x
          PROVE  T(s, p) <= k /\ k < T(s, p) + (n - 1) /\ Cell(s, p, k) = x
      <4>1. j \in 0 .. n - 1
        BY <1>1
      <4>2. Cell(s, p, k) = x
        BY <1>1, <3>3, <4>1
      <4>. QED BY <1>1, <1>2, <3>3, <4>2
    <3>. QED BY <3>1, <3>2, <3>3
  <2>7. ASSUME NEW j \in 0 .. n - 1, x = Cell(s, v, H(s, v) + j) PROVE Home(s, x)'
    <3>. PICK m \in Nat : m = H(s, v) + j
      BY <1>6
    <3>. PICK w \in Nat : w = T(s, p) + j
      BY <1>6
    <3>. DEFINE a == <<"ring", v, m>>
    <3>0. Slotted(s, v, m, x) /\ m < H(s, v) + n
      BY <1>2, <1>6, <2>7
    <3>1. a \in Place /\ Has(s, a, x)
      BY <3>0, Ends DEF Has, Slotted
    <3>2. \A k \in Nat : Slotted(s, v, k, x) => k = m
      <4>1. \A k \in Nat : Slotted(s, v, k, x) => a = <<"ring", v, k>>
        BY <2>1, <3>1, Nowhere
      <4>. QED BY <4>1
    <3>3. \A k \in Nat : ~(Slotted(s, v, k, x)')
      BY <1>2, <2>4, <3>0, <3>2
    <3>4. ASSUME NEW i \in 0 .. n - 1 PROVE Cell(s, v, H(s, v) + i) = x <=> i = j
      <4>1. Cell(s, v, H(s, v) + i) = x => H(s, v) + i = m
        BY <1>6, <3>2
      <4>. QED BY <1>2, <2>7, <4>1
    <3>5. \A k \in Nat : Slotted(s, p, k, x)' <=> k = w /\ j # n - 1
      <4>. SUFFICES ASSUME NEW k \in Nat
                    PROVE  Slotted(s, p, k, x)' <=> k = w /\ j # n - 1
        OBVIOUS
      <4>1. \A i \in 0 .. n - 2 : i \in 0 .. n - 1
        BY <1>1
      <4>2. j # n - 1 <=> j \in 0 .. n - 2
        BY <1>1
      <4>. QED BY <2>6, <3>4, <4>1, <4>2
    <3>6. x = last <=> j = n - 1
      BY <1>1, <3>4 DEF last
    <3>. DEFINE b == IF j = n - 1 THEN <<"out", NoP, 0>> ELSE <<"ring", p, w>>
    <3>7. b \in Place
      BY Ends
    <3>8. ASSUME NEW q \in P
          PROVE  /\ \A k \in Nat : Slotted(s, q, k, x)' <=>
                                     \/ b = <<"ring", q, k>>
                                     \/ Slotted(s, q, k, x) /\ a # <<"ring", q, k>>
                 /\ x \in Hands(q)' <=>
                      b = <<"hands", q, 0>> \/ (x \in Hands(q) /\ a # <<"hands", q, 0>>)
                 /\ runnext'[q] = x <=>
                      b = <<"next", q, 0>> \/ (runnext[q] = x /\ a # <<"next", q, 0>>)
      <4>1. CASE q = p
        BY <2>2, <2>5, <3>5, <4>1
      <4>2. CASE q = v
        BY <2>2, <3>2, <3>3, <4>2
      <4>3. CASE q \in P \ {p, v}
        BY <2>2, <2>3, <4>3
      <4>. QED BY <4>1, <4>2, <4>3
    <3>9. /\ x \in globrunq' <=> b[1] = "global" \/ (x \in globrunq /\ a[1] # "global")
          /\ x \in out' <=> b[1] = "out" \/ (x \in out /\ a[1] # "out")
      BY <1>7, <3>6
    <3>. HIDE DEF a, b
    <3>. QED BY <2>1, <3>1, <3>7, <3>8, <3>9, HomeMoves
  <2>8. CASE \A j \in 0 .. n - 1 : x # Cell(s, v, H(s, v) + j)
    <3>1. \A k \in Nat : Slotted(s, v, k, x) => H(s, v) + n <= k
      <4>. SUFFICES ASSUME NEW k \in Nat, Slotted(s, v, k, x), k < H(s, v) + n
                    PROVE  FALSE
        BY <1>2
      <4>1. H(s, v) <= k /\ Cell(s, v, k) = x
        BY DEF Slotted
      <4>2. k - H(s, v) \in 0 .. n - 1 /\ H(s, v) + (k - H(s, v)) = k
        BY <1>2, <4>1
      <4>. QED BY <2>8, <4>1, <4>2
    <3>2. \A k \in Nat : ~(Slotted(s, p, k, x)')
      <4>1. \A i \in 0 .. n - 2 : i \in 0 .. n - 1
        BY <1>1
      <4>. QED BY <2>6, <2>8, <4>1
    <3>3. x # last
      BY <1>1, <2>8 DEF last
    <3>4. \A q \in P : /\ \A k \in Nat : Slotted(s, q, k, x)' <=> Slotted(s, q, k, x)
                       /\ x \in Hands(q)' <=> x \in Hands(q)
      BY <2>2, <2>3, <2>4, <2>5, <3>1, <3>2
    <3>5. x \in out' <=> x \in out
      BY <1>7, <3>3
    <3>. QED BY <2>1, <3>4, <3>5, HomeStays
  <2>. QED BY <2>7, <2>8
<1>. QED BY <1>5, <1>8, <1>9, <1>12, <1>13, <1>14, StepOk

\* runqgrab: its compare-and-swap of the victim's head takes what it copied or fails.
LEMMA GrabCasKeeps ==
  ASSUME NEW s, Inv(s), NEW p \in P, GrabCas(p)
  PROVE  Inv(s)' /\ Advance(s, p)
<1>1. th[p].pc \in Stealing
  BY DEF GrabCas, At, Stealing
<1>. QED BY <1>1, GrabCasTakes, AgainKeeps DEF GrabCas

-----------------------------------------------------------------------------
\* At first every goroutine is out of all queues, and the rings begin where they begin.
LEMMA InitOk ==
  ASSUME Init
  PROVE  IInv
<1>0. W \in Nat /\ W > 0 /\ Length \in Nat /\ Len2 \in Nat /\ MaxPuts \in Nat
  BY Numbers, BoundAssumption
<1>1. Resting \in State /\ Resting.pc = "idle" /\ Resting.copied = 0
  BY <1>0 DEF Resting, State
<1>2. TypeOK /\ runqhead \in [P -> 0 .. W - 1] /\ \A p \in P : th[p] = Resting
  <2>1. runqhead \in [P -> 0 .. W - 1] /\ runqtail = runqhead
    BY StartAssumption DEF Init
  <2>2. th \in [P -> State] /\ \A p \in P : th[p] = Resting
    BY <1>1 DEF Init
  <2>3. /\ runq \in [P -> [0 .. Length - 1 -> G \cup {NoG}]] /\ runnext \in [P -> G \cup {NoG}]
        /\ globrunq \subseteq G /\ puts \in 0 .. MaxPuts /\ out \subseteq G
    BY <1>0 DEF Init
  <2>. QED BY <2>1, <2>2, <2>3 DEF TypeOK
<1>. DEFINE s == runqhead
<1>3. \A p \in P : H(s, p) = 0 /\ T(s, p) = 0
  <2>1. \A p \in P : runqhead[p] \in 0 .. W - 1 /\ runqtail[p] = runqhead[p]
    BY <1>2 DEF Init
  <2>. QED BY <2>1, Distances DEF H, T
<1>4. Bound = 0
  <2>1. G \ out = {} /\ puts = 0
    BY DEF Init
  <2>2. Cardinality(G \ out) = 0
    BY <2>1, FS_EmptySet
  <2>. QED BY <1>0, <2>1, <2>2 DEF Bound
<1>5. ASSUME NEW p \in P
      PROVE  RingOk(s, p) /\ OwnerOk(s, p) /\ ThiefOk(s, p) /\ Extra(p) = 0 /\ Hands(p) = {}
  <2>1. th[p].pc = "idle" /\ th[p].copied = 0
    BY <1>1, <1>2
  <2>2. Extra(p) = 0 /\ Coming(p) = 0 /\ Hands(p) = {}
    BY <2>1 DEF Extra, Coming, Hands, At, Putting
  <2>3. RingOk(s, p)
    BY <1>0, <1>3, <1>4, <2>2 DEF RingOk
  <2>. QED BY <2>1, <2>2, <2>3 DEF OwnerOk, ThiefOk, At, Putting, Stealing
<1>6. ASSUME NEW g \in G PROVE Home(s, g)
  <2>1. <<"out", NoP, 0>> \in Place
    BY Ends
  <2>2. ASSUME NEW y \in Place PROVE Has(s, y, g) <=> y = <<"out", NoP, 0>>
    <3>1. g \notin globrunq /\ g \in out /\ \A p \in P : runnext[p] # g
      BY NamesAssumption DEF Init
    <3>2. CASE y[1] = "out"
      <4>1. y = <<"out", NoP, 0>>
        BY <3>2 DEF Place
      <4>. QED BY <3>1, <4>1 DEF Has
    <3>3. CASE y[1] = "ring"
      <4>1. y[2] \in P /\ y[3] \in Nat
        BY <3>3 DEF Place
      <4>2. ~(H(s, y[2]) <= y[3] /\ y[3] < T(s, y[2]) + Extra(y[2]))
        BY <1>3, <1>5, <4>1
      <4>. QED BY <3>3, <4>2 DEF Has
    <3>4. CASE y[1] = "hands"
      <4>1. y[2] \in P
        BY <3>4 DEF Place
      <4>. QED BY <1>5, <3>4, <4>1 DEF Has
    <3>5. CASE y[1] = "next"
      <4>1. y[2] \in P
        BY <3>5 DEF Place
      <4>. QED BY <3>1, <3>5, <4>1 DEF Has
    <3>6. CASE y[1] = "global"
      BY <3>1, <3>6 DEF Has
    <3>. QED BY <3>2, <3>3, <3>4, <3>5, <3>6 DEF Place
  <2>. QED BY <2>1, <2>2 DEF Home
<1>7. Inv(s)
  BY <1>2, <1>5, <1>6 DEF Inv
<1>. QED BY <1>2, <1>7 DEF IInv

\* Every step leaves all in place, and advances the rings.
LEMMA NextKeeps ==
  ASSUME NEW s, Inv(s), Next
  PROVE  Inv(s)' /\ \E p \in P : Advance(s, p)
<1>. PICK p \in P : Thread(p)
  BY DEF Next
<1>1. ASSUME NEW g \in out, Put(p, g) \/ PutNext(p, g) PROVE Inv(s)' /\ Advance(s, p)
  BY <1>1, PutKeeps, PutNextKeeps
<1>2. CASE PutRing(p) \/ PutTail(p) \/ PutSlow(p) \/ PutGlobal(p)
  BY <1>2, PutRingKeeps, PutTailKeeps, PutSlowKeeps, PutGlobalKeeps
<1>3. CASE GetNext(p) \/ Get(p) \/ GetCas(p)
  BY <1>3, GetNextKeeps, GetKeeps, GetCasKeeps
<1>4. ASSUME NEW v \in P, NEW next \in BOOLEAN, Steal(p, v, next)
      PROVE  Inv(s)' /\ Advance(s, p)
  BY <1>4, StealKeeps
<1>5. CASE Grab(p) \/ GrabTail(p) \/ GrabNext(p)
  BY <1>5, GrabKeeps, GrabTailKeeps, GrabNextKeeps
<1>6. CASE GrabCopy(p) \/ GrabCas(p) \/ StealTail(p)
  BY <1>6, GrabCopyKeeps, GrabCasKeeps, StealTailKeeps
<1>. QED BY <1>1, <1>2, <1>3, <1>4, <1>5, <1>6 DEF Thread

\* Nothing happens.
LEMMA StaysPut ==
  ASSUME NEW s, Inv(s), UNCHANGED vars
  PROVE  Inv(s)'
<1>1. TypeOK' /\ Bound' = Bound
  BY DEF Inv, vars, TypeOK, Bound
<1>2. ASSUME NEW p \in P
      PROVE  /\ H(s, p)' = H(s, p) /\ T(s, p)' = T(s, p) /\ Extra(p)' = Extra(p)
             /\ Coming(p)' = Coming(p) /\ Hands(p)' = Hands(p) /\ th'[p] = th[p]
             /\ \A v \in P : Read(s, p, v)' = Read(s, p, v)
             /\ \A k : Cell(s, p, k)' = Cell(s, p, k)
  BY DEF H, T, Extra, Coming, Hands, At, Read, Cell, vars
<1>3. \A g \in G : Home(s, g)'
  <2>. SUFFICES ASSUME NEW g \in G PROVE Home(s, g)'
    OBVIOUS
  <2>1. Home(s, g)
    BY DEF Inv
  <2>2. ASSUME NEW q \in P
        PROVE  /\ \A k \in Nat : Slotted(s, q, k, g)' <=> Slotted(s, q, k, g)
               /\ g \in Hands(q)' <=> g \in Hands(q)
               /\ runnext'[q] = g <=> runnext[q] = g
    BY <1>2 DEF Slotted, vars
  <2>3. (g \in globrunq' <=> g \in globrunq) /\ (g \in out' <=> g \in out)
    BY DEF vars
  <2>. QED BY <2>1, <2>2, <2>3, HomeStays
<1>4. ASSUME NEW p \in P PROVE RingOk(s, p)' /\ OwnerOk(s, p)' /\ ThiefOk(s, p)'
  <2>1. RingOk(s, p) /\ OwnerOk(s, p) /\ ThiefOk(s, p)
    BY DEF Inv
  <2>. QED BY <2>1 DEF RingOk, OwnerOk, ThiefOk, H, T, Extra, Coming, At, Read, Cell, Bound, vars
<1>. QED BY <1>1, <1>3, <1>4 DEF Inv

\* The inductive invariant: as long as no index can pass all its values around (Bound
\* < W), each step of runqput, runqget and runqsteal, whichever threads take it and in
\* whatever order, leaves some s for which every ring, owner and thief is as Inv says.
THEOREM IInvHolds == Spec => []IInv
<1>1. Init => IInv
  BY InitOk
<1>2. IInv /\ [Next]_vars => IInv'
  <2>. SUFFICES ASSUME IInv, [Next]_vars PROVE IInv'
    OBVIOUS
  <2>1. PICK s \in [P -> 0 .. W - 1] : Inv(s)
    BY DEF IInv
  <2>2. CASE Next
    BY <2>1, <2>2, NextKeeps DEF IInv
  <2>3. CASE UNCHANGED vars
    BY <2>1, <2>3, StaysPut DEF IInv
  <2>. QED BY <2>2, <2>3
<1>. QED BY <1>1, <1>2, PTL DEF Spec

\* Heads, tails, slots and the threads' local variables stay in their ranges.
THEOREM TypeCorrect == Spec => []TypeOK
<1>1. IInv => TypeOK
  BY DEF IInv, Inv
<1>. QED BY <1>1, IInvHolds, PTL

\* runqputslow never throws "runqputslow: queue is not full" and runqsteal never throws
\* "runqsteal: runq overflow", for any number of Ps and any ring: only the owner adds to
\* a ring, so what it read of the head can only be too low, and a thief starts from an
\* empty ring.
THEOREM RunQueueNeverThrows == Spec => []NeverThrows
<1>1. ASSUME IInv PROVE NeverThrows
  <2>1. PICK s \in [P -> 0 .. W - 1] : Inv(s)
    BY <1>1 DEF IInv
  <2>2. ASSUME NEW p \in P
        PROVE  /\ Minus(runqtail[p], runqhead[p]) <= Length
               /\ At(p, "putslow") => th[p].n = Len2
               /\ At(p, "stealtail") => Minus(runqtail[p], runqhead[p]) + th[p].n < Length
    <3>1. /\ H(s, p) \in Nat /\ T(s, p) \in Nat /\ H(s, p) <= T(s, p)
          /\ T(s, p) <= H(s, p) + Length /\ OwnerOk(s, p) /\ TypeOK
          /\ Len2 \in Nat /\ Len2 >= 1 /\ Length = Len2 + Len2
      BY <2>1, Before
    <3>2. Minus(runqtail[p], runqhead[p]) = T(s, p) - H(s, p)
      BY <3>1, Indices
    <3>. QED BY <3>1, <3>2 DEF OwnerOk
  <2>. QED BY <2>2 DEF NeverThrows
<1>. QED BY <1>1, IInvHolds, PTL

\* What OnePlace counts in the rings.
LEMMA InRings ==
  ASSUME NEW s, Inv(s), NEW g \in G
  PROVE  \A x \in P \X (0 .. Length - 1) :
           x[2] < Held(x[1]) /\ Nth(x[1], x[2]) = g <=> Slotted(s, x[1], H(s, x[1]) + x[2], g)
<1>. SUFFICES ASSUME NEW p \in P, NEW k \in 0 .. Length - 1
              PROVE  k < Held(p) /\ Nth(p, k) = g <=> Slotted(s, p, H(s, p) + k, g)
  OBVIOUS
<1>1. /\ H(s, p) \in Nat /\ T(s, p) \in Nat /\ H(s, p) <= T(s, p)
      /\ TypeOK /\ s \in [P -> 0 .. W - 1] /\ Length \in Nat /\ th[p] \in State
  BY Before
<1>2. /\ Minus(runqtail[p], runqhead[p]) = T(s, p) - H(s, p)
      /\ Slot(runqhead[p] + k) = Slot(s[p] + (H(s, p) + k))
  BY <1>1, Indices
<1>3. Held(p) = (T(s, p) - H(s, p)) + Extra(p) /\ Nth(p, k) = Cell(s, p, H(s, p) + k)
  BY <1>2 DEF Held, Extra, Nth, Cell
<1>4. Extra(p) \in Nat
  BY <1>1 DEF Extra, State
<1>. QED BY <1>1, <1>3, <1>4 DEF Slotted

\* What a ring holds is at most Length goroutines from its head.
LEMMA HeldFits ==
  ASSUME NEW s, Inv(s), NEW p \in P, NEW k \in Nat, H(s, p) <= k, k < T(s, p) + Extra(p)
  PROVE  k - H(s, p) \in 0 .. Length - 1 /\ H(s, p) + (k - H(s, p)) = k
<1>1. /\ H(s, p) \in Nat /\ T(s, p) \in Nat /\ H(s, p) <= T(s, p)
      /\ T(s, p) <= H(s, p) + Length /\ OwnerOk(s, p) /\ th[p] \in State
      /\ Len2 \in Nat /\ Len2 >= 1 /\ Length = Len2 + Len2
  BY Before
<1>2. CASE At(p, "stealtail")
  <2>1. Extra(p) = th[p].n /\ th[p].n \in 1 .. Len2 - 1 /\ T(s, p) = H(s, p)
    BY <1>1, <1>2 DEF Extra, OwnerOk
  <2>. QED BY <1>1, <2>1
<1>3. CASE ~At(p, "stealtail")
  <2>1. Extra(p) = 0
    BY <1>3 DEF Extra
  <2>. QED BY <1>1, <2>1
<1>. QED BY <1>2, <1>3

\* The queues neither lose a goroutine nor run it twice, for any number of Ps, finite set
\* of goroutines and length of the ring: each is in one ring slot between head and tail, in
\* one next slot, in the global queue, in the hands of one thread, or out.  Stale copies
\* that runqget and runqgrab have read are never taken: the compare-and-swap of the head
\* fails if any was, because indices do not come around while it is pending.
THEOREM EachInOnePlace == Spec => []OnePlace
<1>1. ASSUME IInv PROVE OnePlace
  <2>. PICK s \in [P -> 0 .. W - 1] : Inv(s)
    BY <1>1 DEF IInv
  <2>1. ASSUME NEW g \in G
        PROVE  Cardinality({x \in P \X (0 .. Length - 1) : x[2] < Held(x[1]) /\ Nth(x[1], x[2]) = g})
                 + Cardinality({p \in P : g \in Hands(p)})
                 + Cardinality({p \in P : runnext[p] = g})
                 + Cardinality({g} \cap globrunq) + Cardinality({g} \cap out) = 1
    <3>. DEFINE A == {x \in P \X (0 .. Length - 1) : x[2] < Held(x[1]) /\ Nth(x[1], x[2]) = g}
                B == {p \in P : g \in Hands(p)}
                C == {p \in P : runnext[p] = g}
                D == {g} \cap globrunq
                E == {g} \cap out
    <3>1. A = {x \in P \X (0 .. Length - 1) : Slotted(s, x[1], H(s, x[1]) + x[2], g)}
      BY InRings
    <3>2. PICK a \in Place : Has(s, a, g) /\ Home(s, g)
      <4>1. Home(s, g)
        BY DEF Inv
      <4>2. PICK a \in Place : \A y \in Place : Has(s, y, g) <=> y = a
        BY <4>1 DEF Home
      <4>. QED BY <4>1, <4>2
    <3>3. /\ \A q \in P : /\ \A k \in Nat : Slotted(s, q, k, g) => a = <<"ring", q, k>>
                          /\ g \in Hands(q) => a = <<"hands", q, 0>>
                          /\ runnext[q] = g => a = <<"next", q, 0>>
          /\ g \in globrunq => a = <<"global", NoP, 0>>
          /\ g \in out => a = <<"out", NoP, 0>>
      BY <3>2, Nowhere
    <3>4. \A x \in A : x[1] \in P /\ x[2] \in Nat /\ H(s, x[1]) + x[2] \in Nat
                       /\ a = <<"ring", x[1], H(s, x[1]) + x[2]>>
      <4>. SUFFICES ASSUME NEW p \in P, NEW k \in 0 .. Length - 1, Slotted(s, p, H(s, p) + k, g)
                    PROVE  H(s, p) + k \in Nat /\ a = <<"ring", p, H(s, p) + k>>
        BY <3>1, Numbers
      <4>1. H(s, p) + k \in Nat
        <5>1. H(s, p) \in Nat /\ Length \in Nat
          BY Before
        <5>. QED BY <5>1
      <4>. QED BY <3>3, <4>1
    <3>5. /\ Cardinality({}) = 0 /\ \A x : Cardinality({x}) = 1
      BY FS_EmptySet, FS_Singleton
    <3>. HIDE DEF A
    <3>6. CASE a[1] = "ring"
      <4>. PICK q \in P, m \in Nat : a = <<"ring", q, m>>
        BY <3>6 DEF Place
      <4>1. B = {} /\ C = {} /\ D = {} /\ E = {}
        BY <3>3
      <4>2. Slotted(s, q, m, g)
        BY <3>2 DEF Has, Slotted
      <4>3. m - H(s, q) \in 0 .. Length - 1 /\ H(s, q) + (m - H(s, q)) = m
        BY <4>2, HeldFits DEF Slotted
      <4>4. <<q, m - H(s, q)>> \in A
        BY <3>1, <4>2, <4>3
      <4>5. ASSUME NEW x \in A PROVE x = <<q, m - H(s, q)>>
        <5>1. x \in P \X (0 .. Length - 1) /\ x[1] = q /\ H(s, q) + x[2] = m
          BY <3>1, <3>4
        <5>2. x[2] = m - H(s, q)
          <6>1. H(s, q) \in Nat /\ x[2] \in Nat
            BY <3>4, <5>1, Before
          <6>. QED BY <5>1, <6>1
        <5>. QED BY <5>1, <5>2
      <4>6. A = {<<q, m - H(s, q)>>}
        BY <4>4, <4>5
      <4>. HIDE DEF B, C, D, E
      <4>7. Cardinality(A) = 1 /\ Cardinality(B) = 0 /\ Cardinality(C) = 0
            /\ Cardinality(D) = 0 /\ Cardinality(E) = 0
        BY <3>5, <4>1, <4>6
      <4>. QED BY <4>7 DEF A, B, C, D, E
    <3>7. CASE a[1] = "hands"
      <4>. PICK q \in P : a = <<"hands", q, 0>>
        BY <3>7 DEF Place
      <4>1. A = {} /\ B = {q} /\ C = {} /\ D = {} /\ E = {}
        BY <3>2, <3>3, <3>4 DEF Has
      <4>. HIDE DEF B, C, D, E
      <4>2. Cardinality(A) = 0 /\ Cardinality(B) = 1 /\ Cardinality(C) = 0
            /\ Cardinality(D) = 0 /\ Cardinality(E) = 0
        BY <3>5, <4>1
      <4>. QED BY <4>2 DEF A, B, C, D, E
    <3>8. CASE a[1] = "next"
      <4>. PICK q \in P : a = <<"next", q, 0>>
        BY <3>8 DEF Place
      <4>1. A = {} /\ B = {} /\ C = {q} /\ D = {} /\ E = {}
        BY <3>2, <3>3, <3>4 DEF Has
      <4>. HIDE DEF B, C, D, E
      <4>2. Cardinality(A) = 0 /\ Cardinality(B) = 0 /\ Cardinality(C) = 1
            /\ Cardinality(D) = 0 /\ Cardinality(E) = 0
        BY <3>5, <4>1
      <4>. QED BY <4>2 DEF A, B, C, D, E
    <3>9. CASE a[1] = "global"
      <4>1. A = {} /\ B = {} /\ C = {} /\ D = {g} /\ E = {}
        BY <3>2, <3>3, <3>4, <3>9 DEF Has
      <4>. HIDE DEF B, C, D, E
      <4>2. Cardinality(A) = 0 /\ Cardinality(B) = 0 /\ Cardinality(C) = 0
            /\ Cardinality(D) = 1 /\ Cardinality(E) = 0
        BY <3>5, <4>1
      <4>. QED BY <4>2 DEF A, B, C, D, E
    <3>10. CASE a[1] = "out"
      <4>1. A = {} /\ B = {} /\ C = {} /\ D = {} /\ E = {g}
        BY <3>2, <3>3, <3>4, <3>10 DEF Has
      <4>. HIDE DEF B, C, D, E
      <4>2. Cardinality(A) = 0 /\ Cardinality(B) = 0 /\ Cardinality(C) = 0
            /\ Cardinality(D) = 0 /\ Cardinality(E) = 1
        BY <3>5, <4>1
      <4>. QED BY <4>2 DEF A, B, C, D, E
    <3>. QED BY <3>6, <3>7, <3>8, <3>9, <3>10 DEF Place
  <2>2. TypeOK
    BY DEF Inv
  <2>. QED BY <2>1, <2>2 DEF OnePlace
<1>. QED BY <1>1, IInvHolds, PTL

-----------------------------------------------------------------------------
\* A ring's goroutines, from the head to the tail.
Queued(s, p) ==
  /\ H(s, p) \in Nat /\ T(s, p) \in Nat /\ H(s, p) <= T(s, p)
  /\ Queue(p) \in Seq(G) /\ Len(Queue(p)) = T(s, p) - H(s, p)
  /\ \A i \in 1 .. T(s, p) - H(s, p) : Queue(p)[i] = Cell(s, p, H(s, p) + (i - 1))

\* The queue as the ring's cells from head to tail.
LEMMA QueueIs ==
  ASSUME NEW s, Inv(s), NEW p \in P
  PROVE  Queued(s, p)
<1>. DEFINE h == runqhead[p]  n == T(s, p) - H(s, p)
<1>1. /\ H(s, p) \in Nat /\ T(s, p) \in Nat /\ H(s, p) <= T(s, p) /\ n \in Nat
      /\ TypeOK /\ s \in [P -> 0 .. W - 1] /\ W \in Nat /\ th[p] \in State
      /\ RingOk(s, p)
  BY Before
<1>2. /\ Minus(runqtail[p], h) = n
      /\ \A k \in Int : Slot(h + k) = Slot(s[p] + (H(s, p) + k))
  BY <1>1, Indices
<1>3. h \in Int
  BY <1>1 DEF TypeOK
<1>4. Queue(p) = [i \in 1 .. n |-> runq[p][Slot(h + i - 1)]]
  BY <1>2 DEF Queue, Ring
<1>. HIDE DEF h
<1>5. ASSUME NEW i \in 1 .. n
      PROVE  /\ runq[p][Slot(h + i - 1)] = Cell(s, p, H(s, p) + (i - 1))
             /\ Cell(s, p, H(s, p) + (i - 1)) \in G
  <2>1. h + i - 1 = h + (i - 1) /\ i - 1 \in Int
    BY <1>3
  <2>2. Slot(h + (i - 1)) = Slot(s[p] + (H(s, p) + (i - 1)))
    BY <1>2, <2>1
  <2>3. Extra(p) \in Nat
    BY <1>1 DEF Extra, State
  <2>4. /\ H(s, p) + (i - 1) \in Nat /\ H(s, p) <= H(s, p) + (i - 1)
        /\ H(s, p) + (i - 1) < T(s, p) + Extra(p)
    BY <1>1, <2>3
  <2>5. Cell(s, p, H(s, p) + (i - 1)) \in G
    BY <1>1, <2>4 DEF RingOk
  <2>. QED BY <2>1, <2>2, <2>5 DEF Cell
<1>. HIDE DEF n
<1>6. Queue(p) \in [1 .. n -> G] /\ \A i \in 1 .. n : Queue(p)[i] = Cell(s, p, H(s, p) + (i - 1))
  BY <1>4, <1>5
<1>7. Queue(p) \in Seq(G) /\ Len(Queue(p)) = n
  BY <1>1, <1>6
<1>. QED BY <1>1, <1>6, <1>7 DEF n, Queued

\* And so after a step.
LEMMA QueueIsThen ==
  ASSUME NEW s, NEW p \in P
  PROVE  Inv(s)' => Queued(s, p)'
<1>1. Inv(s) => Queued(s, p)
  BY QueueIs
<1>. QED BY <1>1, PTL

\* Sequences that agree.
LEMMA Longer ==
  ASSUME NEW A \in Seq(G), NEW B \in Seq(G), Len(A) <= Len(B),
         \A i \in 1 .. Len(A) : B[i] = A[i]
  PROVE  IsPrefix(A, B)
<1>1. SubSeq(A, 1, Len(A)) = SubSeq(B, 1, Len(A))
  OBVIOUS
<1>. QED BY <1>1 DEF IsPrefix

\* A sequence that lost its first k elements.
LEMMA Shorter ==
  ASSUME NEW A \in Seq(G), NEW B \in Seq(G), NEW k \in Nat, k <= Len(A), Len(B) = Len(A) - k,
         \A i \in 1 .. Len(B) : B[i] = A[k + i]
  PROVE  B = SubSeq(A, k + 1, Len(A))
OBVIOUS

Moves(q) ==
  \/ IsPrefix(Queue(q), Queue(q)')
  \/ \E k \in 1 .. Len2 :
       k <= Len(Queue(q)) /\ Queue(q)' = SubSeq(Queue(q), k + 1, Len(Queue(q)))

\* One step at a ring appends at the tail or takes from the head.
LEMMA QueueMoves ==
  ASSUME NEW s, Inv(s), Inv(s)', NEW p \in P, Advance(s, p), NEW q \in P
  PROVE  Moves(q)
<1>1. Queued(s, q) /\ Queued(s, q)'
  BY QueueIs, QueueIsThen
<1>a. PICK h \in Nat, t \in Nat, A \in Seq(G) :
         /\ h = H(s, q) /\ t = T(s, q) /\ A = Queue(q) /\ h <= t /\ Len(A) = t - h
         /\ \A i \in 1 .. t - h : A[i] = Cell(s, q, h + (i - 1))
  BY <1>1 DEF Queued
<1>b. PICK m \in Nat, u \in Nat, B \in Seq(G) :
         /\ m = H(s, q)' /\ u = T(s, q)' /\ B = Queue(q)' /\ m <= u /\ Len(B) = u - m
         /\ \A i \in 1 .. u - m : B[i] = runq'[q][Slot(s[q] + (m + (i - 1)))]
  BY <1>1 DEF Queued, Cell
<1>2. /\ h <= t /\ m <= u /\ Len(A) = t - h /\ Len(B) = u - m /\ h <= m /\ t <= u
      /\ \A k \in Nat : h <= k /\ k < t => runq'[q][Slot(s[q] + k)] = Cell(s, q, k)
      /\ m = h \/ (u = t /\ m - h \in 1 .. Len2)
  <2>1. t <= u /\ (m = h \/ (u = t /\ m - h \in 1 .. Len2))
    <3>1. T(s, q)' = T(s, q) \/ (q = p /\ T(s, p) <= T(s, p)')
      BY DEF Advance
    <3>2. H(s, q)' = H(s, q) \/ (T(s, q)' = T(s, q) /\ H(s, q)' - H(s, q) \in 1 .. Len2)
      BY DEF Advance
    <3>. QED BY <1>a, <1>b, <3>1, <3>2
  <2>2. ASSUME NEW k \in Nat, h <= k, k < t
        PROVE  Cell(s, q, k)' = Cell(s, q, k)
    <3>1. CASE q = p
      BY <1>a, <2>2, <3>1 DEF Advance
    <3>2. CASE q # p
      BY <2>2, <3>2 DEF Advance
    <3>. QED BY <3>1, <3>2
  <2>3. \A k \in Nat : h <= k /\ k < t => runq'[q][Slot(s[q] + k)] = Cell(s, q, k)
    BY <2>2 DEF Cell
  <2>. QED BY <1>a, <1>b, <2>1, <2>3
<1>3. ASSUME NEW i \in 1 .. u - m, m + (i - 1) < t
      PROVE  B[i] = A[(m - h) + i]
  <2>0. h <= m /\ h <= t
    BY <1>2
  <2>1. PICK k \in Nat : k = m + (i - 1) /\ h <= k /\ k < t
    BY <1>3, <2>0
  <2>2. B[i] = Cell(s, q, k)
    BY <1>2, <1>b, <2>1
  <2>3. PICK j \in 1 .. t - h : j = (m - h) + i /\ h + (j - 1) = k
    BY <2>0, <2>1
  <2>4. A[j] = Cell(s, q, k)
    BY <1>a, <2>3
  <2>. QED BY <2>2, <2>3, <2>4
<1>4. CASE m = h
  <2>1. Len(A) <= Len(B) /\ \A i \in 1 .. Len(A) : B[i] = A[i]
    <3>. SUFFICES ASSUME NEW i \in 1 .. Len(A) PROVE B[i] = A[i]
      BY <1>2, <1>4
    <3>0. Len(A) = t - h /\ t <= u
      BY <1>2
    <3>1. i \in 1 .. u - m /\ m + (i - 1) < t /\ (m - h) + i = i
      BY <1>4, <3>0
    <3>. QED BY <1>3, <3>1
  <2>2. IsPrefix(A, B)
    BY <2>1, Longer
  <2>. QED BY <1>a, <1>b, <2>2 DEF Moves
<1>5. CASE u = t /\ m - h \in 1 .. Len2
  <2>. PICK k \in 1 .. Len2 : k = m - h
    BY <1>5
  <2>0. k \in Nat
    BY Numbers
  <2>1. k <= Len(A) /\ Len(B) = Len(A) - k /\ Len(B) = t - m
    <3>1. Len(A) = t - h /\ Len(B) = u - m /\ m <= u
      BY <1>2
    <3>. QED BY <1>5, <2>0, <3>1
  <2>2. \A i \in 1 .. Len(B) : B[i] = A[k + i]
    <3>. SUFFICES ASSUME NEW i \in 1 .. t - m PROVE B[i] = A[k + i]
      BY <2>1
    <3>1. m + (i - 1) < t /\ i \in 1 .. u - m
      BY <1>5
    <3>. QED BY <1>3, <3>1
  <2>3. B = SubSeq(A, k + 1, Len(A))
    BY <2>0, <2>1, <2>2, Shorter
  <2>. QED BY <1>a, <1>b, <2>1, <2>3 DEF Moves
<1>. QED BY <1>2, <1>4, <1>5

\* Every ring is a first-in first-out queue: each step appends at its tail or takes from its
\* head (or leaves it), in the order runqput put them, a stolen batch included.
THEOREM RingsAreFifo == Spec => Fifo
<1>1. IInv /\ [Next]_vars => [\A p \in P : Moves(p)]_vars
  <2>. SUFFICES ASSUME IInv, Next PROVE \A p \in P : Moves(p)
    OBVIOUS
  <2>1. PICK s \in [P -> 0 .. W - 1] : Inv(s)
    BY DEF IInv
  <2>2. PICK p \in P : Inv(s)' /\ Advance(s, p)
    BY <2>1, NextKeeps
  <2>. QED BY <2>1, <2>2, QueueMoves
<1>2. IInv /\ [Next]_vars =>
        [\A p \in P :
           \/ IsPrefix(Queue(p), Queue(p)')
           \/ \E k \in 1 .. Len2 :
                k <= Len(Queue(p)) /\ Queue(p)' = SubSeq(Queue(p), k + 1, Len(Queue(p)))]_vars
  BY <1>1 DEF Moves
<1>. QED BY <1>2, IInvHolds, PTL DEF Spec, Fifo

=============================================================================
