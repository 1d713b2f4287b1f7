------------------------ MODULE EventLoopServiceProofs ------------------------
(***************************************************************************)
(* The running server implements the plain service, for any clients and    *)
(* scripts, numbers of workers and descriptors, and all capacities, as     *)
(* long as each client waits for an answer before it asks again: the steps *)
(* of loop, workers, queues, sockets and epoll are, for the clients, steps *)
(* of HttpService or nothing at all.                                       *)
(***************************************************************************)
EXTENDS EventLoopRequestProofs

(* Concatenating a sequence of sequences *)

(* Every set of numbers that holds 0 and successors holds all. *)
LEMMA AllNumbers ==
    ASSUME NEW N, 0 \in N, \A n \in Nat : n \in N => n + 1 \in N
    PROVE  Nat \subseteq N
<1> DEFINE less == OpToRel(<, Nat)
           T == Nat \ N
<1>1. IsWellFoundedOn(less, Nat)
  BY NatLessThanWellFounded
<1>2. \A x, y \in Nat : y < x => <<y, x>> \in less
  BY DEF OpToRel
<1> HIDE DEF less
<1>3. SUFFICES ASSUME T # {} PROVE FALSE
  OBVIOUS
<1>4. PICK x \in T : \A y \in T : ~(<<y, x>> \in less)
  BY <1>1, <1>3, WFMin
<1>5. x \in Nat /\ x # 0
  OBVIOUS
<1>6. x - 1 \in Nat /\ x - 1 < x /\ (x - 1) + 1 = x
  BY <1>5
<1>7. x - 1 \notin T
  BY <1>2, <1>4, <1>5, <1>6
<1> QED
  BY <1>4, <1>5, <1>6, <1>7

(* The function that FlattenSeq defines by recursion, on 1 .. n. *)
Turn(s, i, g) == IF i = 1 THEN s[i] ELSE g[i - 1] \o s[i]
FlatTo(s, n, g) == g = [i \in 1 .. n |-> Turn(s, i, g)]

LEMMA FlatAt ==
    ASSUME NEW s, NEW n, NEW g, FlatTo(s, n, g), NEW i \in 1 .. n
    PROVE  g[i] = Turn(s, i, g)
BY DEF FlatTo

LEMMA FlatExists ==
    ASSUME NEW s, NEW n \in Nat
    PROVE  \E g : FlatTo(s, n, g)
<1> DEFINE N == {k \in Nat : \E g : FlatTo(s, k, g)}
<1>1. 0 \in N
  <2>1. FlatTo(s, 0, [i \in 1 .. 0 |-> 0])
    BY DEF FlatTo
  <2> QED
    BY <2>1
<1>2. ASSUME NEW k \in Nat, k \in N PROVE k + 1 \in N
  <2>1. PICK g : FlatTo(s, k, g)
    BY <1>2
  <2> DEFINE next == Turn(s, k + 1, g)
             h == [i \in 1 .. k + 1 |-> IF i = k + 1 THEN next ELSE g[i]]
  <2>2. h[k + 1] = next /\ (\A i \in 1 .. k : h[i] = g[i]) /\ h = [i \in 1 .. k + 1 |-> h[i]]
    <3> HIDE DEF next
    <3> QED
      OBVIOUS
  <2> HIDE DEF h
  <2>3. ASSUME NEW i \in 1 .. k + 1 PROVE h[i] = Turn(s, i, h)
    <3>1. i # 1 => h[i - 1] = g[i - 1]
      <4>1. i # 1 => i - 1 \in 1 .. k
        OBVIOUS
      <4> QED
        BY <2>2, <4>1
    <3>2. Turn(s, i, h) = Turn(s, i, g)
      BY <3>1 DEF Turn
    <3>3. i # k + 1 => i \in 1 .. k
      OBVIOUS
    <3>4. i # k + 1 => h[i] = Turn(s, i, g)
      BY <2>1, <2>2, <3>3, FlatAt
    <3> QED
      BY <2>2, <3>2, <3>4
  <2>4. FlatTo(s, k + 1, h)
    BY <2>2, <2>3 DEF FlatTo
  <2> QED
    BY <2>4
<1> HIDE DEF N
<1>3. n \in N
  BY <1>1, <1>2, AllNumbers
<1> QED
  BY <1>3 DEF N

Agree(s, t, k) == \A i \in 1 .. k : s[i] = t[i]

LEMMA FlatUnique ==
    ASSUME NEW s, NEW t, NEW k \in Nat, NEW n \in Nat, k <= n, Agree(s, t, k),
           NEW g, NEW h, FlatTo(s, k, g), FlatTo(t, n, h)
    PROVE  Agree(g, h, k)
<1> DEFINE N == {i \in Nat : i \in 1 .. k => g[i] = h[i]}
<1>1. 0 \in N
  OBVIOUS
<1>2. ASSUME NEW i \in Nat, i \in N PROVE i + 1 \in N
  <2> DEFINE j == i + 1
  <2> SUFFICES ASSUME j \in 1 .. k PROVE g[j] = h[j]
    OBVIOUS
  <2>1. j \in 1 .. n /\ s[j] = t[j] /\ j - 1 = i
    BY DEF Agree
  <2>2. j # 1 => g[j - 1] = h[j - 1]
    BY <1>2, <2>1
  <2> HIDE DEF j
  <2>3. Turn(s, j, g) = Turn(t, j, h)
    BY <2>1, <2>2 DEF Turn
  <2>4. g[j] = Turn(s, j, g) /\ h[j] = Turn(t, j, h)
    BY <2>1, FlatAt
  <2> QED
    BY <2>3, <2>4
<1> HIDE DEF N
<1>3. Nat \subseteq N
  BY <1>1, <1>2, AllNumbers
<1> QED
  BY <1>3 DEF N, Agree

LEMMA FlattenIs ==
    ASSUME NEW s, NEW n \in Nat, Len(s) = n, n # 0, NEW g, FlatTo(s, n, g)
    PROVE  FlattenSeq(s) = g[n]
<1> DEFINE h == CHOOSE x : FlatTo(s, n, x)
<1>1. FlattenSeq(s) = h[n]
  BY DEF FlattenSeq, FlatTo, Turn
<1>2. FlatTo(s, n, h)
  BY FlatExists
<1> HIDE DEF h
<1>3. Agree(h, g, n)
  <2>1. n <= n /\ Agree(s, s, n)
    BY DEF Agree
  <2> QED
    BY <1>2, <2>1, FlatUnique
<1>4. h[n] = g[n]
  <2>1. n \in 1 .. n
    OBVIOUS
  <2> QED
    BY <1>3, <2>1 DEF Agree
<1> QED
  BY <1>1, <1>4

(* The concatenation of n + 1 sequences is that of the first n and the last. *)
LEMMA FlattenGrows ==
    ASSUME NEW s, NEW t, NEW n \in Nat, n # 0, Len(s) = n, Len(t) = n + 1,
           Agree(s, t, n)
    PROVE  FlattenSeq(t) = FlattenSeq(s) \o t[n + 1]
<1> DEFINE m == n + 1
<1>0. m \in Nat /\ m # 0 /\ n <= m /\ n \in 1 .. n /\ m \in 1 .. m /\ m # 1 /\ m - 1 = n /\ Len(t) = m
  OBVIOUS
<1> HIDE DEF m
<1>1. PICK g : FlatTo(s, n, g)
  BY FlatExists
<1>2. PICK h : FlatTo(t, m, h)
  BY <1>0, FlatExists
<1>3. g[n] = h[n]
  <2>1. Agree(g, h, n)
    BY <1>0, <1>1, <1>2, FlatUnique
  <2> QED
    BY <1>0, <2>1 DEF Agree
<1>4. FlattenSeq(s) = g[n] /\ FlattenSeq(t) = h[m]
  <2>1. FlattenSeq(s) = g[n]
    BY <1>1, FlattenIs
  <2>2. FlattenSeq(t) = h[m]
    BY <1>0, <1>2, FlattenIs
  <2> QED
    BY <2>1, <2>2
<1>5. h[m] = h[n] \o t[m]
  <2>1. h[m] = Turn(t, m, h)
    BY <1>0, <1>2, FlatAt
  <2> QED
    BY <1>0, <2>1 DEF Turn
<1>6. t[n + 1] = t[m]
  BY DEF m
<1> QED
  BY <1>3, <1>4, <1>5, <1>6

LEMMA FlattenOne ==
    ASSUME NEW s, Len(s) = 1
    PROVE  FlattenSeq(s) = s[1]
<1> DEFINE n == 1
<1>0. n \in Nat /\ n # 0 /\ n \in 1 .. n /\ Len(s) = n
  OBVIOUS
<1> HIDE DEF n
<1>1. PICK g : FlatTo(s, n, g)
  BY <1>0, FlatExists
<1>2. FlattenSeq(s) = g[n]
  BY <1>0, <1>1, FlattenIs
<1>3. g[n] = Turn(s, n, g)
  BY <1>0, <1>1, FlatAt
<1> QED
  BY <1>2, <1>3 DEF n, Turn
-----------------------------------------------------------------------------
(* What a client expects *)

LEMMA FlattenNothing ==
    ASSUME NEW s, Len(s) = 0
    PROVE  FlattenSeq(s) = s
BY DEF FlattenSeq

(* The first m units of the response to the r-th request. *)
Pieces(r, m) == [k \in 1 .. m |-> <<r, k - 1>>]

(* The j units after these. *)
Segment(r, m, j) == [k \in 1 .. j |-> <<r, m + k - 1>>]

Whole(c, n) == Size(<<c, n>>) + 1

LEMMA WholeIs ==
    ASSUME NEW c, NEW n
    PROVE  Whole(c, n) \in Nat \ {0} /\ Response(<<c, n>>) = Pieces(n, Whole(c, n))
BY EventLoopAssumption DEF Whole, Size, Response, Pieces

LEMMA PiecesTyped ==
    ASSUME NEW r \in Nat, NEW m \in Nat
    PROVE  Pieces(r, m) \in Seq(Units) /\ Len(Pieces(r, m)) = m
BY DEF Pieces, Units

LEMMA SegmentTyped ==
    ASSUME NEW r \in Nat, NEW m \in Nat, NEW j \in Nat
    PROVE  Segment(r, m, j) \in Seq(Units) /\ Len(Segment(r, m, j)) = j
BY DEF Segment, Units

LEMMA PiecesGrow ==
    ASSUME NEW r \in Nat, NEW m \in Nat, NEW j \in Nat
    PROVE  Pieces(r, m) \o Segment(r, m, j) = Pieces(r, m + j)
<1> DEFINE p == Pieces(r, m)
           q == Segment(r, m, j)
           u == Pieces(r, m + j)
           both == p \o q
<1>1. p \in Seq(Units) /\ Len(p) = m /\ q \in Seq(Units) /\ Len(q) = j
      /\ u \in Seq(Units) /\ Len(u) = m + j
  BY PiecesTyped, SegmentTyped
<1>2. /\ \A k \in 1 .. m : p[k] = <<r, k - 1>>
      /\ \A k \in 1 .. j : q[k] = <<r, m + k - 1>>
      /\ \A k \in 1 .. m + j : u[k] = <<r, k - 1>>
  BY DEF Pieces, Segment
<1> HIDE DEF p, q, u
<1>3. /\ both \in Seq(Units) /\ Len(both) = m + j
      /\ \A k \in 1 .. m : both[k] = p[k]
      /\ \A k \in 1 .. j : both[m + k] = q[k]
  BY <1>1
<1> HIDE DEF both
<1>4. ASSUME NEW k \in 1 .. m + j PROVE both[k] = u[k]
  <2>1. CASE k <= m
    <3>1. k \in 1 .. m
      BY <2>1
    <3> QED
      BY <1>2, <1>3, <3>1
  <2>2. CASE k > m
    <3>1. k - m \in 1 .. j /\ m + (k - m) = k
      BY <2>2
    <3>2. both[m + (k - m)] = <<r, m + (k - m) - 1>>
      BY <1>2, <1>3, <3>1
    <3> QED
      BY <1>2, <3>1, <3>2
  <2> QED
    BY <2>1, <2>2
<1>5. both = u
  BY <1>1, <1>3, <1>4
<1> QED
  BY <1>5 DEF both, p, q, u

LEMMA ConcatAt ==
    ASSUME NEW S, NEW a \in Seq(S), NEW b \in Seq(S)
    PROVE  /\ a \o b \in Seq(S) /\ Len(a \o b) = Len(a) + Len(b)
           /\ \A k \in 1 .. Len(a) : (a \o b)[k] = a[k]
           /\ \A k \in 1 .. Len(b) : (a \o b)[Len(a) + k] = b[k]
OBVIOUS

LEMMA ConcatThree ==
    ASSUME NEW S, NEW a \in Seq(S), NEW b \in Seq(S), NEW d \in Seq(S)
    PROVE  (a \o b) \o d = a \o (b \o d)
<1> DEFINE left == (a \o b) \o d
           right == a \o (b \o d)
           ab == a \o b
           bd == b \o d
<1>1. /\ ab \in Seq(S) /\ Len(ab) = Len(a) + Len(b)
      /\ \A k \in 1 .. Len(a) : ab[k] = a[k]
      /\ \A k \in 1 .. Len(b) : ab[Len(a) + k] = b[k]
  OBVIOUS
<1>2. /\ bd \in Seq(S) /\ Len(bd) = Len(b) + Len(d)
      /\ \A k \in 1 .. Len(b) : bd[k] = b[k]
      /\ \A k \in 1 .. Len(d) : bd[Len(b) + k] = d[k]
  OBVIOUS
<1> HIDE DEF ab, bd
<1>3. /\ left = ab \o d /\ right = a \o bd
  BY DEF ab, bd
<1> DEFINE la == Len(a)
           lb == Len(b)
           ld == Len(d)
<1>0. la \in Nat /\ lb \in Nat /\ ld \in Nat
  OBVIOUS
<1> HIDE DEF left, right
<1>4. /\ left \in Seq(S) /\ Len(left) = la + lb + ld
      /\ \A k \in 1 .. la + lb : left[k] = ab[k]
      /\ \A k \in 1 .. ld : left[la + lb + k] = d[k]
  <2>1. /\ ab \o d \in Seq(S) /\ Len(ab \o d) = Len(ab) + ld
        /\ \A k \in 1 .. Len(ab) : (ab \o d)[k] = ab[k]
        /\ \A k \in 1 .. ld : (ab \o d)[Len(ab) + k] = d[k]
    <3>1. ab \in Seq(S) /\ d \in Seq(S)
      BY <1>1
    <3> QED
      BY <3>1, ConcatAt
  <2>2. Len(ab) = la + lb
    BY <1>1
  <2> QED
    BY <1>3, <2>1, <2>2
<1>5. /\ right \in Seq(S) /\ Len(right) = la + (lb + ld)
      /\ \A k \in 1 .. la : right[k] = a[k]
      /\ \A k \in 1 .. lb + ld : right[la + k] = bd[k]
  <2>1. /\ a \o bd \in Seq(S) /\ Len(a \o bd) = la + Len(bd)
        /\ \A k \in 1 .. la : (a \o bd)[k] = a[k]
        /\ \A k \in 1 .. Len(bd) : (a \o bd)[la + k] = bd[k]
    <3>1. a \in Seq(S) /\ bd \in Seq(S)
      BY <1>2
    <3> QED
      BY <3>1, ConcatAt
  <2>2. Len(bd) = lb + ld
    BY <1>2
  <2> QED
    BY <1>3, <2>1, <2>2
<1>6. /\ \A k \in 1 .. la : ab[k] = a[k]
      /\ \A k \in 1 .. lb : ab[la + k] = b[k] /\ bd[k] = b[k]
      /\ \A k \in 1 .. ld : bd[lb + k] = d[k]
  BY <1>1, <1>2
<1> HIDE DEF la, lb, ld
<1>7. ASSUME NEW k \in 1 .. la + lb + ld PROVE left[k] = right[k]
  <2>1. CASE k <= la
    <3>1. left[k] = ab[k]
      BY <1>0, <1>4, <2>1
    <3> QED
      BY <1>0, <1>5, <1>6, <2>1, <3>1
  <2>2. CASE k > la /\ k <= la + lb
    <3> DEFINE i == k - la
    <3>1. i \in 1 .. lb /\ la + i = k /\ i \in 1 .. lb + ld /\ la + i \in 1 .. la + lb
      BY <1>0, <2>2
    <3> HIDE DEF i
    <3>2. left[la + i] = ab[la + i]
      BY <1>4, <3>1
    <3>3. right[la + i] = bd[i]
      BY <1>5, <3>1
    <3>4. ab[la + i] = b[i] /\ bd[i] = b[i]
      BY <1>6, <3>1
    <3> QED
      BY <3>1, <3>2, <3>3, <3>4
  <2>3. CASE k > la + lb
    <3> DEFINE i == k - (la + lb)
    <3>1. i \in 1 .. ld /\ la + lb + i = k /\ la + (lb + i) = k /\ lb + i \in 1 .. lb + ld
      BY <1>0, <2>3
    <3> HIDE DEF i
    <3>2. left[la + lb + i] = d[i] /\ right[la + (lb + i)] = bd[lb + i] /\ bd[lb + i] = d[i]
      BY <1>4, <1>5, <1>6, <3>1
    <3> QED
      BY <3>1, <3>2
  <2> QED
    BY <1>0, <2>1, <2>2, <2>3
<1>8. left = right
  <2> DEFINE len == la + lb + ld
  <2>1. len \in Nat /\ Len(left) = len /\ Len(right) = len /\ \A k \in 1 .. len : left[k] = right[k]
    BY <1>0, <1>4, <1>5, <1>7
  <2>2. left \in Seq(S) /\ right \in Seq(S)
    BY <1>4, <1>5
  <2> HIDE DEF len
  <2> QED
    BY <2>1, <2>2
<1> QED
  BY <1>8 DEF left, right

LEMMA StreamNothing == \A c : Stream(c, 0) = <<>>
<1> TAKE c
<1> DEFINE s == [i \in 1 .. 0 |-> Response(<<c, i>>)]
<1>1. Len(s) = 0 /\ s = <<>>
  OBVIOUS
<1>2. Stream(c, 0) = FlattenSeq(s)
  BY DEF Stream
<1> HIDE DEF s
<1>3. FlattenSeq(s) = s
  BY <1>1, FlattenNothing
<1> QED
  BY <1>1, <1>2, <1>3

LEMMA StreamGrows ==
    ASSUME NEW c, NEW n \in Nat
    PROVE  Stream(c, n + 1) = Stream(c, n) \o Pieces(n + 1, Whole(c, n + 1))
<1> DEFINE s == [i \in 1 .. n |-> Response(<<c, i>>)]
           t == [i \in 1 .. n + 1 |-> Response(<<c, i>>)]
           last == Response(<<c, n + 1>>)
<1>1. Stream(c, n) = FlattenSeq(s) /\ Stream(c, n + 1) = FlattenSeq(t)
  BY DEF Stream
<1>2. Len(s) = n /\ Len(t) = n + 1 /\ t[n + 1] = last /\ Agree(s, t, n)
  BY DEF Agree
<1>3. last = Pieces(n + 1, Whole(c, n + 1))
  BY WholeIs
<1>4. Whole(c, n + 1) \in Nat
  BY WholeIs
<1> HIDE DEF s, t, last
<1>5. CASE n # 0
  <2>1. FlattenSeq(t) = FlattenSeq(s) \o t[n + 1]
    BY <1>2, <1>5, FlattenGrows
  <2> QED
    BY <1>1, <1>2, <1>3, <2>1
<1>6. CASE n = 0
  <2>1. FlattenSeq(t) = t[1]
    BY <1>2, <1>6, FlattenOne
  <2>2. Stream(c, n) = <<>>
    BY <1>6, StreamNothing
  <2>3. last \in Seq(Units)
    BY <1>3, <1>4, PiecesTyped
  <2>4. <<>> \o last = last
    BY <2>3
  <2>5. Stream(c, n + 1) = last
    BY <1>1, <1>2, <1>6, <2>1
  <2> QED
    BY <1>3, <2>2, <2>4, <2>5
<1> QED
  BY <1>5, <1>6

(* The answer to the first n requests holds the headers of each. *)
Complete(c, n) ==
    /\ Stream(c, n) \in Seq(Units)
    /\ \A r \in 1 .. n : \E p \in DOMAIN Stream(c, n) : Stream(c, n)[p] = Headers(r)

LEMMA StreamComplete ==
    ASSUME NEW c, NEW n \in Nat
    PROVE  Complete(c, n)
<1> DEFINE N == {k \in Nat : Complete(c, k)}
<1>1. 0 \in N
  <2>1. Stream(c, 0) = <<>>
    BY StreamNothing
  <2>2. <<>> \in Seq(Units) /\ \A r \in 1 .. 0 : FALSE
    OBVIOUS
  <2>3. Complete(c, 0)
    BY <2>1, <2>2 DEF Complete
  <2> QED
    BY <2>3
<1>2. ASSUME NEW k \in Nat, k \in N PROVE k + 1 \in N
  <2> DEFINE s == Stream(c, k)
             m == k + 1
             p == Pieces(m, Whole(c, m))
             t == Stream(c, m)
  <2>1. t = s \o p
    BY StreamGrows
  <2>2. p \in Seq(Units) /\ Len(p) \in Nat \ {0} /\ p[1] = Headers(m)
    <3>1. m \in Nat
      OBVIOUS
    <3> HIDE DEF m
    <3>4. Whole(c, m) \in Nat \ {0}
      BY WholeIs
    <3>2. p \in Seq(Units) /\ Len(p) = Whole(c, m)
      BY <3>1, <3>4, PiecesTyped
    <3>3. p[1] = Headers(m)
      BY <3>1, <3>4 DEF Pieces, Headers
    <3> QED
      BY <3>4, <3>2, <3>3
  <2>3. s \in Seq(Units) /\ \A r \in 1 .. k : \E q \in DOMAIN s : s[q] = Headers(r)
    BY <1>2 DEF Complete
  <2> HIDE DEF s, p, t
  <2>4. /\ t \in Seq(Units) /\ Len(t) = Len(s) + Len(p)
        /\ \A i \in 1 .. Len(s) : t[i] = s[i]
        /\ \A i \in 1 .. Len(p) : t[Len(s) + i] = p[i]
    BY <2>1, <2>2, <2>3
  <2>5. DOMAIN s = 1 .. Len(s) /\ DOMAIN t = 1 .. Len(t) /\ Len(s) \in Nat
    BY <2>3, <2>4
  <2>6. ASSUME NEW r \in 1 .. m PROVE \E q \in DOMAIN t : t[q] = Headers(r)
    <3>1. CASE r \in 1 .. k
      <4>1. PICK q \in DOMAIN s : s[q] = Headers(r)
        BY <2>3, <3>1
      <4>2. q \in DOMAIN t /\ t[q] = s[q]
        BY <2>2, <2>4, <2>5
      <4> QED
        BY <4>1, <4>2
    <3>2. CASE r = m
      <4>1. 1 \in 1 .. Len(p) /\ Len(s) + 1 \in DOMAIN t
        BY <2>2, <2>4, <2>5
      <4>2. t[Len(s) + 1] = Headers(m)
        BY <2>2, <2>4, <4>1
      <4> QED
        BY <3>2, <4>1, <4>2
    <3> QED
      BY <3>1, <3>2
  <2>7. Complete(c, m)
    BY <2>4, <2>6 DEF Complete, t
  <2> QED
    BY <2>7
<1> HIDE DEF N
<1>3. n \in N
  BY <1>1, <1>2, AllNumbers
<1> QED
  BY <1>3 DEF N

LEMMA PrefixIs ==
    ASSUME NEW S, NEW a \in Seq(S), NEW b \in Seq(S)
    PROVE  SubSeq(a \o b, 1, Len(a)) = a
<1> DEFINE ab == a \o b
           n == Len(a)
           front == SubSeq(ab, 1, n)
<1>1. /\ ab \in Seq(S) /\ Len(ab) = Len(a) + Len(b)
      /\ \A k \in 1 .. Len(a) : ab[k] = a[k]
  BY ConcatAt
<1>2. n \in 0 .. Len(ab)
  BY <1>1
<1> HIDE DEF ab, n
<1>3. front \in Seq(S) /\ Len(front) = n /\ \A k \in 1 .. n : front[k] = ab[k]
  BY <1>1, <1>2, SplitSeq
<1> HIDE DEF front
<1>4. Len(front) = Len(a) /\ \A k \in 1 .. Len(a) : front[k] = a[k]
  BY <1>1, <1>3 DEF n
<1>5. front = a
  BY <1>3, <1>4
<1> QED
  BY <1>5 DEF front, ab, n

(* Part of the answer to request n is the answer to the first n, cut short. *)
LEMMA StreamCut ==
    ASSUME NEW c, NEW n \in Nat, NEW m \in Nat, m <= Whole(c, n + 1)
    PROVE  LET part == Stream(c, n) \o Pieces(n + 1, m)
           IN  /\ part \in Seq(Units) /\ Len(part) = Len(Stream(c, n)) + m
               /\ part = SubSeq(Stream(c, n + 1), 1, Len(part))
               /\ Len(Stream(c, n + 1)) = Len(Stream(c, n)) + Whole(c, n + 1)
               /\ Len(Stream(c, n)) \in Nat
<1> DEFINE r == n + 1
           before == Stream(c, n)
           first == Pieces(r, m)
           rest == Segment(r, m, Whole(c, r) - m)
           all == Pieces(r, Whole(c, r))
           part == before \o first
<1>1. Whole(c, r) \in Nat /\ r \in Nat
  <2>1. r \in Nat
    OBVIOUS
  <2> HIDE DEF r
  <2> QED
    BY <2>1, WholeIs
<1>2. Whole(c, r) - m \in Nat /\ m + (Whole(c, r) - m) = Whole(c, r)
  BY <1>1
<1>3. Stream(c, r) = before \o all
  BY StreamGrows
<1> HIDE DEF r
<1>4. before \in Seq(Units)
  BY StreamComplete DEF Complete
<1>5. /\ first \in Seq(Units) /\ Len(first) = m /\ rest \in Seq(Units)
      /\ all \in Seq(Units) /\ Len(all) = Whole(c, r)
  BY <1>1, <1>2, PiecesTyped, SegmentTyped
<1>6. first \o rest = all
  <2> DEFINE left == Whole(c, r) - m
             whole == Whole(c, r)
  <2>1. left \in Nat /\ m + left = whole
    BY <1>2
  <2> HIDE DEF left, whole
  <2>2. Pieces(r, m) \o Segment(r, m, left) = Pieces(r, m + left)
    BY <1>1, <2>1, PiecesGrow
  <2> QED
    BY <2>1, <2>2 DEF left, whole
<1> HIDE DEF before, first, rest, all
<1>7. part \in Seq(Units) /\ Len(part) = Len(before) + m /\ Len(before) \in Nat
      /\ Len(before \o all) = Len(before) + Whole(c, r)
  <2>1. part \in Seq(Units) /\ Len(part) = Len(before) + Len(first)
    BY <1>4, <1>5, ConcatAt
  <2>2. Len(before \o all) = Len(before) + Len(all)
    BY <1>4, <1>5, ConcatAt
  <2> QED
    BY <1>4, <1>5, <2>1, <2>2
<1>8. before \o all = part \o rest
  <2>1. (before \o first) \o rest = before \o (first \o rest)
    BY <1>4, <1>5, ConcatThree
  <2> QED
    BY <1>6, <2>1
<1> HIDE DEF part
<1>9. SubSeq(part \o rest, 1, Len(part)) = part
  BY <1>5, <1>7, PrefixIs
<1> QED
  BY <1>3, <1>7, <1>8, <1>9 DEF r, before, first, part

-----------------------------------------------------------------------------
(* A connection between two questions.  While clients wait for each answer,  *)
(* all that a connection has in hand belongs to the answer to the last       *)
(* question: m units of it have been sent, and what is queued and what is    *)
(* left of the transfer continue there.                                      *)

Answering(cn, c, n, m) ==
    /\ cn.write_buf = <<>> \/ (cn.write_buf = <<Headers(n)>> /\ m = 0)
    /\ cn.sendfile_op.r # 0 =>
           /\ cn.sendfile_op.r = n
           /\ Len(cn.write_buf) + m = cn.sendfile_op.offset + 1
           /\ cn.sendfile_op.offset + cn.sendfile_op.remaining + 1 = Whole(c, n)
           /\ cn.write_buf = <<>> => cn.sendfile_op.remaining > 0

InAnswer(cn, got, c, n, m) ==
    /\ m <= Whole(c, n) /\ got = Stream(c, n - 1) \o Pieces(n, m)
    /\ Answering(cn, c, n, m)

InSession(cn, got, c, n) ==
    IF n = 0 THEN got = <<>> /\ cn.write_buf = <<>> /\ cn.sendfile_op.r = 0
             ELSE \E m \in Nat : InAnswer(cn, got, c, n, m)

Sessions == \A c \in Clients : InSession(conn[c], peer[c].got, c, peer[c].asked)

LEMMA SplitOne ==
    ASSUME NEW x
    PROVE  SubSeq(<<x>>, 1, 1) = <<x>> /\ SubSeq(<<x>>, 1 + 1, 1) = <<>>
<1> DEFINE s == <<x>>
           front == SubSeq(s, 1, 1)
           rest == SubSeq(s, 1 + 1, 1)
<1>1. s \in Seq({x}) /\ Len(s) = 1 /\ s[1] = x
  OBVIOUS
<1> HIDE DEF s
<1>2. /\ front \in Seq({x}) /\ Len(front) = 1 /\ front[1] = x
      /\ rest \in Seq({x}) /\ Len(rest) = 0
  <2>1. 1 \in 0 .. Len(s)
    BY <1>1
  <2>2. /\ SubSeq(s, 1, 1) \in Seq({x}) /\ Len(SubSeq(s, 1, 1)) = 1
        /\ \A i \in 1 .. 1 : SubSeq(s, 1, 1)[i] = s[i]
        /\ SubSeq(s, 1 + 1, Len(s)) \in Seq({x}) /\ Len(SubSeq(s, 1 + 1, Len(s))) = Len(s) - 1
    BY <1>1, <2>1, SplitSeq
  <2> QED
    BY <1>1, <2>2
<1> HIDE DEF front, rest
<1>3. front = <<x>> /\ rest = <<>>
  BY <1>2
<1> QED
  BY <1>3 DEF front, rest, s

LEMMA FlushAnswers ==
    ASSUME NEW c, NEW cn, Connected(cn), NEW n \in Nat, NEW m \in Nat, m <= Whole(c, n),
           Answering(cn, c, n, m), NEW room \in Nat, NEW broken
    PROVE  LET f == FlushWrite(cn, room, broken)
           IN  \E j \in Nat : /\ f.sent = Segment(n, m, j) /\ m + j <= Whole(c, n)
                              /\ Answering(f.conn, c, n, m + j)
<1> DEFINE f == FlushWrite(cn, room, broken)
           op == cn.sendfile_op
           buf == cn.write_buf
           fails == broken /\ HasUnsent(cn)
           goal(j) == /\ f.sent = Segment(n, m, j) /\ m + j <= Whole(c, n)
                      /\ Answering(f.conn, c, n, m + j)
<1>0. Segment(n, m, 0) = <<>> /\ m + 0 = m
  BY DEF Segment
<1>1. CASE fails
  <2>1. f.conn = OnClosed(cn) /\ f.sent = <<>>
    BY <1>1, FlushFails
  <2>2. f.conn.write_buf = cn.write_buf /\ (f.conn = cn \/ f.conn.sendfile_op = NoSendfile)
    BY <2>1, OnClosedTyped
  <2> HIDE DEF f
  <2>3. f.conn.sendfile_op.r # 0 => f.conn = cn
    BY <2>2 DEF NoSendfile
  <2>4. Answering(f.conn, c, n, m)
    BY <2>2, <2>3 DEF Answering
  <2> QED
    BY <1>0, <2>1, <2>4 DEF f
<1>2. CASE ~fails
  <2>1. PICK k \in 0 .. Len(buf), i \in Nat : FlushedParts(cn, f, k, i)
    BY <1>2, FlushParts
  <2>2. /\ op.r \in Nat /\ op.offset \in Nat /\ op.remaining \in Nat
        /\ buf \in Seq(Units) /\ Whole(c, n) \in Nat \ {0}
    BY WholeIs DEF Connected
  <2>3. /\ f.conn.write_buf = SubSeq(buf, k + 1, Len(buf))
        /\ f.sent = SubSeq(buf, 1, k) \o FileUnits(op, i)
        /\ i > 0 => op.r # 0 /\ k = Len(buf)
        /\ i <= op.remaining
        /\ f.conn.sendfile_op.r # 0 =>
               /\ f.conn.sendfile_op.r = op.r /\ f.conn.sendfile_op.offset = op.offset + i
               /\ f.conn.sendfile_op.remaining = op.remaining - i
               /\ f.conn.write_buf = <<>> => f.conn.sendfile_op.remaining > 0
    BY <2>1 DEF FlushedParts
  <2>4. /\ buf = <<>> \/ (buf = <<Headers(n)>> /\ m = 0)
        /\ op.r # 0 => /\ op.r = n /\ Len(buf) + m = op.offset + 1
                       /\ op.offset + op.remaining + 1 = Whole(c, n)
    BY DEF Answering
  <2> DEFINE units == FileUnits(op, i)
  <2>5. /\ units \in Seq(Units) /\ Len(units) = i
        /\ \A u \in 1 .. i : units[u] = <<op.r, op.offset + u>>
    BY <2>2, FileUnitsAre
  <2> HIDE DEF f, units, op
  <2>6. CASE buf = <<>>
    <3>1. f.conn.write_buf = <<>> /\ SubSeq(buf, 1, k) = <<>>
      BY <2>3, <2>6
    <3>2. f.sent = units
      <4>1. <<>> \o units = units
        BY <2>5
      <4> QED
        BY <2>3, <3>1, <4>1 DEF units
    <3>3. op.r # 0 => m = op.offset + 1 /\ m + i <= Whole(c, n)
      BY <2>2, <2>3, <2>4, <2>6
    <3>4. units = Segment(n, m, i)
      <4>1. ASSUME NEW u \in 1 .. i PROVE units[u] = <<n, m + u - 1>>
        <5>1. op.r # 0
          BY <2>3, <4>1
        <5>2. units[u] = <<op.r, op.offset + u>> /\ op.r = n /\ m + u - 1 = op.offset + u
          <6>1. op.r = n /\ m = op.offset + 1
            BY <2>4, <3>3, <5>1
          <6>2. m + u - 1 = op.offset + u
            BY <2>2, <6>1
          <6> QED
            BY <2>5, <6>1, <6>2
        <5> QED
          BY <5>2
      <4>2. units = [u \in 1 .. i |-> units[u]]
        BY <2>5
      <4> QED
        BY <4>1, <4>2 DEF Segment
    <3>5. m + i <= Whole(c, n)
      BY <2>2, <2>3, <3>3
    <3>6. Answering(f.conn, c, n, m + i)
      <4>1. ASSUME f.conn.sendfile_op.r # 0
            PROVE  /\ f.conn.sendfile_op.r = n
                   /\ 0 + (m + i) = f.conn.sendfile_op.offset + 1
                   /\ f.conn.sendfile_op.offset + f.conn.sendfile_op.remaining + 1 = Whole(c, n)
                   /\ f.conn.sendfile_op.remaining > 0
        <5> DEFINE q == f.conn.sendfile_op
        <5>1. q.r = op.r /\ q.offset = op.offset + i /\ q.remaining = op.remaining - i /\ q.remaining > 0
          BY <2>3, <3>1, <4>1
        <5>2. op.r # 0
          BY <4>1, <5>1
        <5>3. op.r = n /\ m = op.offset + 1 /\ op.offset + op.remaining + 1 = Whole(c, n)
          BY <2>4, <3>3, <5>2
        <5> HIDE DEF q
        <5>4. 0 + (m + i) = q.offset + 1 /\ q.offset + q.remaining + 1 = Whole(c, n)
          <6>1. m + i = q.offset + 1
            BY <2>2, <5>1, <5>3
          <6>2. q.offset + q.remaining = op.offset + op.remaining
            BY <2>2, <5>1
          <6>3. 0 + (m + i) = m + i
            OBVIOUS
          <6> QED
            BY <5>3, <6>1, <6>2, <6>3
        <5> QED
          BY <5>1, <5>3, <5>4 DEF q
      <4> QED
        BY <3>1, <4>1 DEF Answering
    <3> QED
      BY <3>2, <3>4, <3>5, <3>6 DEF f
  <2>7. CASE buf = <<Headers(n)>> /\ m = 0
    <3>1. Len(buf) = 1 /\ k \in {0, 1}
      BY <2>7
    <3>2. CASE k = 0
      <4>1. i = 0 /\ f.conn.write_buf = buf /\ SubSeq(buf, 1, k) = <<>>
        BY <2>2, <2>3, <3>1, <3>2
      <4>2. f.sent = <<>>
        BY <2>3, <2>5, <4>1 DEF units
      <4>3. Answering(f.conn, c, n, m)
        <5>1. f.conn.sendfile_op.r # 0 => f.conn.sendfile_op.r = op.r /\ f.conn.sendfile_op.offset = op.offset
                                         /\ f.conn.sendfile_op.remaining = op.remaining
          BY <2>2, <2>3, <4>1
        <5>2. buf # <<>>
          BY <2>7
        <5> QED
          BY <2>4, <4>1, <5>1, <5>2 DEF Answering
      <4> QED
        BY <1>0, <4>2, <4>3 DEF f
    <3>3. CASE k = 1
      <4> DEFINE head == SubSeq(buf, 1, k)
                 rest == SubSeq(buf, k + 1, Len(buf))
                 j == i + 1
      <4>1. head = <<Headers(n)>> /\ rest = <<>>
        BY <2>7, <3>1, <3>3, SplitOne
      <4> HIDE DEF head, rest
      <4>2. f.conn.write_buf = <<>> /\ f.sent = <<Headers(n)>> \o units
        BY <2>3, <4>1 DEF head, rest, units
      <4>3. ASSUME op.r # 0 PROVE op.offset = 0 /\ m + j <= Whole(c, n)
        <5>1. Len(buf) + m = op.offset + 1 /\ op.offset + op.remaining + 1 = Whole(c, n)
          BY <2>4, <4>3
        <5>2. op.offset = 0
          BY <2>2, <2>7, <3>1, <5>1
        <5>3. op.remaining + 1 = Whole(c, n) /\ m + j = i + 1
          BY <2>2, <2>7, <5>1, <5>2
        <5>4. i + 1 <= op.remaining + 1
          BY <2>2, <2>3
        <5> QED
          BY <5>2, <5>3, <5>4
      <4>4. m + j <= Whole(c, n)
        BY <2>2, <2>3, <2>7, <4>3
      <4>5. f.sent = Segment(n, m, j)
        <5>1. /\ <<Headers(n)>> \o units \in Seq(Units) /\ Len(<<Headers(n)>> \o units) = j
              /\ (<<Headers(n)>> \o units)[1] = Headers(n)
              /\ \A u \in 1 .. i : (<<Headers(n)>> \o units)[1 + u] = units[u]
          <6> DEFINE h == <<Headers(n)>>
          <6>1. h \in Seq(Units) /\ Len(h) = 1 /\ h[1] = Headers(n)
            BY DEF Headers, Units
          <6> HIDE DEF h
          <6>2. /\ h \o units \in Seq(Units) /\ Len(h \o units) = Len(h) + Len(units)
                /\ \A u \in 1 .. Len(h) : (h \o units)[u] = h[u]
                /\ \A u \in 1 .. Len(units) : (h \o units)[Len(h) + u] = units[u]
            <7>1. h \in Seq(Units) /\ units \in Seq(Units)
              BY <2>5, <6>1
            <7> QED
              BY <7>1, ConcatAt
          <6>3. (h \o units)[1] = Headers(n) /\ Len(h \o units) = j
            BY <2>5, <6>1, <6>2
          <6> QED
            BY <2>5, <6>1, <6>2, <6>3 DEF h
        <5>2. ASSUME NEW u \in 1 .. j PROVE f.sent[u] = <<n, m + u - 1>>
          <6>1. CASE u = 1
            BY <2>7, <4>2, <5>1, <6>1 DEF Headers
          <6>2. CASE u # 1
            <7> DEFINE v == u - 1
            <7>1. v \in 1 .. i /\ 1 + v = u
              BY <6>2
            <7> HIDE DEF v
            <7>2. f.sent[1 + v] = <<op.r, op.offset + v>>
              BY <2>5, <4>2, <5>1, <7>1
            <7>3. op.r # 0
              BY <2>3, <7>1
            <7>4. op.r = n /\ op.offset + v = m + u - 1
              BY <2>2, <2>4, <2>7, <4>3, <7>1, <7>3
            <7> QED
              BY <7>1, <7>2, <7>4
          <6> QED
            BY <6>1, <6>2
        <5>3. f.sent = [u \in 1 .. j |-> f.sent[u]]
          BY <4>2, <5>1
        <5> QED
          BY <5>2, <5>3 DEF Segment
      <4>6. Answering(f.conn, c, n, m + j)
        <5>1. ASSUME f.conn.sendfile_op.r # 0
              PROVE  /\ f.conn.sendfile_op.r = n
                     /\ 0 + (m + j) = f.conn.sendfile_op.offset + 1
                     /\ f.conn.sendfile_op.offset + f.conn.sendfile_op.remaining + 1 = Whole(c, n)
                     /\ f.conn.sendfile_op.remaining > 0
          <6> DEFINE q == f.conn.sendfile_op
          <6>1. q.r = op.r /\ q.offset = op.offset + i /\ q.remaining = op.remaining - i /\ q.remaining > 0
            BY <2>3, <4>2, <5>1
          <6>2. op.r # 0
            BY <5>1, <6>1
          <6>3. op.r = n /\ op.offset = 0 /\ op.offset + op.remaining + 1 = Whole(c, n)
            BY <2>4, <4>3, <6>2
          <6> HIDE DEF q
          <6>4. 0 + (m + j) = q.offset + 1 /\ q.offset + q.remaining + 1 = Whole(c, n)
            BY <2>2, <2>7, <6>1, <6>3
          <6> QED
            BY <6>1, <6>3, <6>4 DEF q
        <5> QED
          BY <4>2, <5>1 DEF Answering
      <4> QED
        BY <4>4, <4>5, <4>6 DEF f
    <3> QED
      BY <3>1, <3>2, <3>3
  <2> QED
    BY <2>4, <2>6, <2>7
<1> QED
  BY <1>1, <1>2

-----------------------------------------------------------------------------
(* The steps, as the clients see them *)

(* Nothing is sent to c, and it asks nothing. *)
Still(c) ==
    /\ peer'[c].asked = peer[c].asked /\ peer'[c].got = peer[c].got
    /\ conn'[c].sendfile_op \in {conn[c].sendfile_op, NoSendfile}
    /\ \/ conn'[c].write_buf = conn[c].write_buf
       \/ conn'[c].write_buf = <<>> /\ conn'[c].sendfile_op = NoSendfile

(* c receives some of what it is owed, or nothing. *)
Receives(c) ==
    \/ peer'[c].got = peer[c].got
    \/ \E k \in Len(peer[c].got) + 1 .. Len(Stream(c, peer[c].asked)) :
           peer'[c].got = SubSeq(Stream(c, peer[c].asked), 1, k)

LEMMA StillInSession ==
    ASSUME NEW cn, NEW new, NEW got, NEW c, NEW n, InSession(cn, got, c, n),
           new.sendfile_op \in {cn.sendfile_op, NoSendfile},
           new.write_buf = cn.write_buf \/ (new.write_buf = <<>> /\ new.sendfile_op = NoSendfile)
    PROVE  InSession(new, got, c, n)
<1>1. NoSendfile.r = 0
  BY DEF NoSendfile
<1>2. new.sendfile_op.r # 0 => new.sendfile_op = cn.sendfile_op
  BY <1>1
<1>3. CASE n = 0
  BY <1>2, <1>3 DEF InSession
<1>4. CASE n # 0
  <2>1. PICK m \in Nat : InAnswer(cn, got, c, n, m)
    BY <1>4 DEF InSession
  <2>2. Answering(new, c, n, m)
    BY <1>1, <1>2, <2>1 DEF InAnswer, Answering
  <2> QED
    BY <1>4, <2>1, <2>2 DEF InSession, InAnswer
<1> QED
  BY <1>3, <1>4

LEMMA StillSessions ==
    ASSUME Sessions, \A c \in Clients : Still(c)
    PROVE  Sessions'
<1> SUFFICES ASSUME NEW c \in Clients
             PROVE  InSession(conn'[c], peer'[c].got, c, peer'[c].asked)
  BY DEF Sessions
<1>1. InSession(conn[c], peer[c].got, c, peer[c].asked) /\ Still(c)
  BY DEF Sessions
<1>2. InSession(conn'[c], peer[c].got, c, peer[c].asked)
  BY <1>1, StillInSession DEF Still
<1> QED
  BY <1>1, <1>2 DEF Still

LEMMA FlushSession ==
    ASSUME Settled, NEW c \in Clients, NEW cn, NEW left, NEW done, Connected(cn),
           NEW n \in Nat, peer[c].asked = n + 1, NEW m \in Nat,
           InAnswer(cn, peer[c].got, c, n + 1, m), Flush(c, cn, left, done)
    PROVE  /\ \A d \in Clients \ {c} : conn'[d] = conn[d] /\ peer'[d] = peer[d]
           /\ peer'[c].asked = peer[c].asked
           /\ InSession(conn'[c], peer'[c].got, c, n + 1)
           /\ Receives(c)
<1> DEFINE f == FlushWrite(cn, Room(c), Broken(c))
           got == peer[c].got \o f.sent
           room == peer[c].room - Len(f.sent)
           p == [peer[c] EXCEPT !.got = got, !.room = room]
           r == n + 1
           before == Stream(c, n)
<1>1. /\ conn'[c] = f.conn /\ peer'[c] = p
      /\ \A d \in Clients \ {c} : conn'[d] = conn[d] /\ peer'[d] = peer[d]
  BY DEF Flush, ConnBecomes, Settled, TableInv, ClientsTyped
<1>2. peer[c] \in Peer(c) /\ peer[c].got \in Seq(Units) /\ Room(c) \in Nat
  BY EventLoopAssumption DEF Settled, TableInv, ClientsTyped, Peer, Room
<1>3. peer'[c].got = got /\ peer'[c].asked = peer[c].asked
  <2> DEFINE q == [peer[c] EXCEPT !.got = got]
  <2> HIDE DEF got, room
  <2>1. p = [q EXCEPT !.room = room]
    OBVIOUS
  <2>2. q = [connected |-> peer[c].connected, asked |-> peer[c].asked, inbox |-> peer[c].inbox,
             room |-> peer[c].room, got |-> got, fin |-> peer[c].fin, rst |-> peer[c].rst]
    BY <1>2, PeerFields
  <2> HIDE DEF q, p
  <2>3. p = [connected |-> peer[c].connected, asked |-> peer[c].asked, inbox |-> peer[c].inbox,
             room |-> room, got |-> got, fin |-> peer[c].fin, rst |-> peer[c].rst]
    BY <2>1, <2>2
  <2> QED
    BY <1>1, <2>3
<1> HIDE DEF p
<1>4. r \in Nat /\ r # 0 /\ r - 1 = n /\ peer[c].asked = r
  OBVIOUS
<1>5. m <= Whole(c, r) /\ peer[c].got = before \o Pieces(r, m) /\ Answering(cn, c, r, m)
  BY <1>4 DEF InAnswer
<1> HIDE DEF before, f
<1>6. PICK j \in Nat : /\ f.sent = Segment(r, m, j) /\ m + j <= Whole(c, r)
                       /\ Answering(f.conn, c, r, m + j)
  <2> HIDE DEF r
  <2> QED
    BY <1>2, <1>4, <1>5, FlushAnswers DEF f
<1>7. got = before \o Pieces(r, m + j)
  <2> DEFINE sofar == Pieces(r, m)
             next == Segment(r, m, j)
  <2>1. before \in Seq(Units) /\ sofar \in Seq(Units) /\ next \in Seq(Units)
    BY <1>4, StreamComplete, PiecesTyped, SegmentTyped DEF Complete, before
  <2>2. sofar \o next = Pieces(r, m + j)
    BY <1>4, PiecesGrow
  <2> HIDE DEF sofar, next
  <2>3. (before \o sofar) \o next = before \o (sofar \o next)
    BY <2>1, ConcatThree
  <2> QED
    BY <1>5, <1>6, <2>2, <2>3 DEF sofar, next
<1>8. InSession(conn'[c], peer'[c].got, c, r)
  <2>1. InAnswer(f.conn, got, c, r, m + j)
    BY <1>4, <1>6, <1>7 DEF InAnswer, before
  <2>2. m + j \in Nat
    OBVIOUS
  <2> HIDE DEF got, r
  <2>3. InSession(f.conn, got, c, r)
    BY <1>4, <2>1, <2>2 DEF InSession
  <2> QED
    BY <1>1, <1>3, <2>3
<1>9. Receives(c)
  <2>1. /\ Len(peer[c].got) = Len(before) + m /\ Len(before) \in Nat
        /\ Len(Stream(c, r)) = Len(before) + Whole(c, r)
    BY <1>5, StreamCut DEF before
  <2>2. m + j \in Nat /\ m + j <= Whole(c, r)
    BY <1>6
  <2>3. Len(got) = Len(before) + (m + j) /\ got = SubSeq(Stream(c, r), 1, Len(got))
    <3> DEFINE i == m + j
    <3> HIDE DEF i, got
    <3>1. LET part == Stream(c, n) \o Pieces(n + 1, i)
          IN  Len(part) = Len(Stream(c, n)) + i /\ part = SubSeq(Stream(c, n + 1), 1, Len(part))
      BY <2>2, StreamCut DEF i
    <3>2. got = Stream(c, n) \o Pieces(n + 1, i)
      BY <1>7 DEF i, before
    <3>3. Len(got) = Len(Stream(c, n)) + i /\ got = SubSeq(Stream(c, n + 1), 1, Len(got))
      BY <3>1, <3>2
    <3> QED
      BY <3>3 DEF i, before
  <2> HIDE DEF got, r
  <2>4. CASE j = 0
    <3>1. got = peer[c].got
      BY <1>5, <1>7, <2>4
    <3> QED
      BY <1>3, <3>1 DEF Receives
  <2>5. CASE j # 0
    <3> DEFINE k == Len(got)
    <3>0. Whole(c, r) \in Nat
      BY WholeIs
    <3>1. k \in Len(peer[c].got) + 1 .. Len(Stream(c, r))
      BY <2>1, <2>2, <2>3, <2>5, <3>0
    <3>2. peer'[c].got = SubSeq(Stream(c, r), 1, k)
      BY <1>3, <2>3
    <3> HIDE DEF k
    <3> QED
      BY <1>4, <3>1, <3>2 DEF Receives
  <2> QED
    BY <2>4, <2>5
<1> QED
  BY <1>1, <1>3, <1>8, <1>9

LEMMA FlushIdle ==
    ASSUME NEW cn, Connected(cn), cn.write_buf = <<>>, cn.sendfile_op.r = 0,
           NEW room \in Nat, NEW broken
    PROVE  LET f == FlushWrite(cn, room, broken)
           IN  f.sent = <<>> /\ f.conn.write_buf = <<>> /\ f.conn.sendfile_op.r = 0
<1> DEFINE f == FlushWrite(cn, room, broken)
           op == cn.sendfile_op
<1>1. ~HasUnsent(cn)
  BY DEF HasUnsent, Deliverable, Active
<1>2. PICK k \in 0 .. Len(cn.write_buf), i \in Nat : FlushedParts(cn, f, k, i)
  BY <1>1, FlushParts
<1>3. k = 0 /\ i = 0
  BY <1>2 DEF FlushedParts
<1>4. FileUnits(op, i) = <<>>
  BY <1>3 DEF FileUnits
<1> HIDE DEF f, op
<1>5. /\ f.conn.write_buf = SubSeq(<<>>, 1, 0) /\ f.sent = SubSeq(<<>>, 1, 0) \o <<>>
      /\ f.conn.sendfile_op.r # 0 => f.conn.sendfile_op.r = 0
  BY <1>2, <1>3, <1>4 DEF FlushedParts, op
<1>6. SubSeq(<<>>, 1, 0) = <<>> /\ <<>> \o <<>> = <<>>
  OBVIOUS
<1> QED
  BY <1>5, <1>6 DEF f

(* Only c's connection is flushed. *)
Sends(c) ==
    /\ \A d \in Clients \ {c} : conn'[d] = conn[d] /\ peer'[d] = peer[d]
    /\ peer'[c].asked = peer[c].asked /\ Receives(c)

LEMMA SendsSessions ==
    ASSUME Sessions, NEW c \in Clients, Sends(c),
           InSession(conn'[c], peer'[c].got, c, peer[c].asked)
    PROVE  Sessions'
<1> SUFFICES ASSUME NEW d \in Clients
             PROVE  InSession(conn'[d], peer'[d].got, d, peer'[d].asked)
  BY DEF Sessions
<1>1. CASE d = c
  BY <1>1 DEF Sends
<1>2. CASE d # c
  BY <1>2 DEF Sends, Sessions
<1> QED
  BY <1>1, <1>2

LEMMA WriteSession ==
    ASSUME Settled, Sessions, NEW c \in Clients, Write(c)
    PROVE  Sessions' /\ Sends(c) /\ stop' = stop
<1>1. Flush(c, conn[c], "batch", "disarm") /\ stop' = stop
  BY DEF Write, Flush, Goto, IfUnsent, LoopKeeps
<1>2. Connected(conn[c]) /\ peer[c] \in Peer(c) /\ peer[c].asked \in Nat /\ Room(c) \in Nat
  BY EventLoopAssumption DEF Settled, TableInv, ClientsTyped, Peer, Room
<1>3. InSession(conn[c], peer[c].got, c, peer[c].asked)
  BY DEF Sessions
<1>4. CASE peer[c].asked # 0
  <2> DEFINE n == peer[c].asked - 1
  <2>1. n \in Nat /\ peer[c].asked = n + 1
    BY <1>2, <1>4
  <2> HIDE DEF n
  <2>2. PICK m \in Nat : InAnswer(conn[c], peer[c].got, c, n + 1, m)
    BY <1>3, <1>4, <2>1 DEF InSession
  <2>3. /\ \A d \in Clients \ {c} : conn'[d] = conn[d] /\ peer'[d] = peer[d]
        /\ peer'[c].asked = peer[c].asked
        /\ InSession(conn'[c], peer'[c].got, c, n + 1)
        /\ Receives(c)
    BY <1>1, <1>2, <2>1, <2>2, FlushSession
  <2>4. Sends(c)
    BY <2>3 DEF Sends
  <2> QED
    BY <1>1, <2>1, <2>3, <2>4, SendsSessions
<1>5. CASE peer[c].asked = 0
  <2> DEFINE f == FlushWrite(conn[c], Room(c), Broken(c))
             got == peer[c].got \o f.sent
             room == peer[c].room - Len(f.sent)
             p == [peer[c] EXCEPT !.got = got, !.room = room]
  <2>1. peer[c].got = <<>> /\ conn[c].write_buf = <<>> /\ conn[c].sendfile_op.r = 0
    BY <1>3, <1>5 DEF InSession
  <2>2. f.sent = <<>> /\ f.conn.write_buf = <<>> /\ f.conn.sendfile_op.r = 0
    BY <1>2, <2>1, FlushIdle
  <2>3. /\ conn'[c] = f.conn /\ peer'[c] = p
        /\ \A d \in Clients \ {c} : conn'[d] = conn[d] /\ peer'[d] = peer[d]
    BY <1>1 DEF Flush, ConnBecomes, Settled, TableInv, ClientsTyped
  <2> HIDE DEF f
  <2>4. got = <<>>
    BY <2>1, <2>2
  <2>5. peer'[c].got = got /\ peer'[c].asked = peer[c].asked
    <3> DEFINE q == [peer[c] EXCEPT !.got = got]
    <3> HIDE DEF got, room
    <3>1. p = [q EXCEPT !.room = room]
      OBVIOUS
    <3>2. q = [connected |-> peer[c].connected, asked |-> peer[c].asked, inbox |-> peer[c].inbox,
               room |-> peer[c].room, got |-> got, fin |-> peer[c].fin, rst |-> peer[c].rst]
      BY <1>2, PeerFields
    <3> HIDE DEF q, p
    <3>3. p = [connected |-> peer[c].connected, asked |-> peer[c].asked, inbox |-> peer[c].inbox,
               room |-> room, got |-> got, fin |-> peer[c].fin, rst |-> peer[c].rst]
      BY <3>1, <3>2
    <3> QED
      BY <2>3, <3>3
  <2>6. InSession(conn'[c], peer'[c].got, c, peer[c].asked)
    BY <1>5, <2>2, <2>3, <2>4, <2>5 DEF InSession
  <2>7. Sends(c)
    BY <2>1, <2>3, <2>4, <2>5 DEF Sends, Receives
  <2> QED
    BY <1>1, <2>6, <2>7, SendsSessions
<1> QED
  BY <1>4, <1>5

(* A response is drained only while nothing of an answer is under way.  It is *)
(* the answer to the last question, because the client has the headers of all *)
(* the others.                                                                *)
LEMMA DrainedIsNext ==
    ASSUME Settled, Streams, Placed, Sessions, NEW own \in Requests, Count(pending_writes_, own) # 0
    PROVE  LET c == own[1]
           IN  /\ peer[c].asked = own[2]
               /\ conn[c].write_buf = <<>> /\ conn[c].sendfile_op.r = 0
               /\ InAnswer(conn[c], peer[c].got, c, own[2], 0)
<1> DEFINE c == own[1]
           r == own[2]
           a == peer[c].asked
           got == peer[c].got
           buf == conn[c].write_buf
           op == conn[c].sendfile_op
<1>1. c \in Clients /\ r \in 1 .. Len(Script[c]) /\ r \in Nat /\ r # 0
  BY RequestIsSome
<1>2. /\ Connected(conn[c]) /\ peer[c] \in Peer(c) /\ a \in Nat /\ got \in Seq(Units)
      /\ buf \in Seq(Units) /\ op.offset \in Nat
  BY <1>1 DEF Settled, TableInv, ClientsTyped, Peer, Connected
<1>3. r <= a
  <2>1. /\ Arrived(own) \in Nat /\ InHands(own) \in {0, 1} /\ Count(queue_, own) \in Nat
        /\ AtWorkers(own) \in Nat /\ Count(pending_writes_, own) \in Nat /\ Answered(own) \in Nat
    BY DEF Settled, CopiesAdd
  <2>2. Arrived(own) + InHands(own) + Count(queue_, own) + AtWorkers(own)
               + Count(pending_writes_, own) + Answered(own) # 0
    <3> DEFINE x == Count(pending_writes_, own)
               y == Arrived(own)
               z == InHands(own)
               u == Count(queue_, own)
               v == AtWorkers(own)
               t == Answered(own)
    <3>1. x \in Nat /\ x # 0 /\ y \in Nat /\ z \in Nat /\ u \in Nat /\ v \in Nat /\ t \in Nat
      BY <2>1
    <3> HIDE DEF x, y, z, u, v, t
    <3>2. y + z + u + v + x + t # 0
      BY <3>1
    <3> QED
      BY <3>2 DEF x, y, z, u, v, t
  <2> QED
    BY <2>2, OnlyThere
<1>4. Count(buf, Headers(r)) = 0 /\ Count(got, Headers(r)) = 0
  <2>1. Answered(own) = 0
    BY AnsweredOnce
  <2>2. Count(buf, Headers(r)) \in Nat /\ Count(got, Headers(r)) \in Nat
    BY <1>2, CountFinite
  <2>3. Count(buf, Headers(r)) + Count(got, Headers(r)) = 0
    BY <2>1 DEF Answered
  <2> QED
    BY <2>2, <2>3
<1>5. (\A k \in DOMAIN buf : buf[k] # Headers(r)) /\ (\A k \in DOMAIN got : got[k] # Headers(r))
  BY <1>2, <1>4, CountFinite
<1>6. InSession(conn[c], got, c, a)
  BY <1>1 DEF Sessions
<1> HIDE DEF c, r, a, got, buf, op
<1>7. a # 0 /\ a - 1 \in Nat
  BY <1>1, <1>2, <1>3
<1>8. PICK m \in Nat : InAnswer(conn[c], got, c, a, m)
  BY <1>6, <1>7 DEF InSession
<1> DEFINE before == Stream(c, a - 1)
           pieces == Pieces(a, m)
<1>9. /\ before \in Seq(Units) /\ (\A i \in 1 .. a - 1 : \E q \in DOMAIN before : before[q] = Headers(i))
      /\ pieces \in Seq(Units) /\ Len(pieces) = m /\ (m > 0 => pieces[1] = Headers(a))
  <2>1. Complete(c, a - 1)
    BY <1>7, StreamComplete
  <2>2. m > 0 => pieces[1] = Headers(a)
    BY DEF Pieces, Headers
  <2> QED
    BY <1>2, <2>1, <2>2, PiecesTyped DEF Complete
<1> HIDE DEF before, pieces
<1>10. /\ Len(got) = Len(before) + Len(pieces)
       /\ \A k \in 1 .. Len(before) : got[k] = before[k]
       /\ \A k \in 1 .. Len(pieces) : got[Len(before) + k] = pieces[k]
       /\ DOMAIN got = 1 .. Len(got) /\ DOMAIN before = 1 .. Len(before) /\ Len(before) \in Nat
  <2>1. got = before \o pieces
    BY <1>8 DEF InAnswer, before, pieces
  <2>2. /\ Len(before \o pieces) = Len(before) + Len(pieces)
        /\ \A k \in 1 .. Len(before) : (before \o pieces)[k] = before[k]
        /\ \A k \in 1 .. Len(pieces) : (before \o pieces)[Len(before) + k] = pieces[k]
    BY <1>9, ConcatAt
  <2> QED
    BY <1>2, <1>9, <2>1, <2>2
<1>11. r = a
  <2> SUFFICES ASSUME r # a PROVE FALSE
    OBVIOUS
  <2>1. r \in 1 .. a - 1
    BY <1>1, <1>2, <1>3
  <2>2. PICK q \in DOMAIN before : before[q] = Headers(r)
    BY <1>9, <2>1
  <2>3. q \in DOMAIN got /\ got[q] = before[q]
    BY <1>9, <1>10
  <2> QED
    BY <1>5, <2>2, <2>3
<1>12. m = 0
  <2> SUFFICES ASSUME m # 0 PROVE FALSE
    OBVIOUS
  <2>1. 1 \in 1 .. Len(pieces) /\ pieces[1] = Headers(r)
    BY <1>9, <1>11
  <2>2. Len(before) + 1 \in DOMAIN got /\ got[Len(before) + 1] = Headers(r)
    BY <1>9, <1>10, <2>1
  <2> QED
    BY <1>5, <2>2
<1>13. Answering(conn[c], c, r, 0) /\ InAnswer(conn[c], got, c, r, 0)
  BY <1>8, <1>11, <1>12 DEF InAnswer
<1>14. buf = <<>>
  <2> SUFFICES ASSUME buf # <<>> PROVE FALSE
    OBVIOUS
  <2>1. buf = <<Headers(r)>>
    BY <1>13 DEF Answering, buf
  <2>2. 1 \in DOMAIN buf /\ buf[1] = Headers(r)
    BY <2>1
  <2> QED
    BY <1>5, <2>2
<1>15. op.r = 0
  <2> SUFFICES ASSUME op.r # 0 PROVE FALSE
    OBVIOUS
  <2>1. Len(buf) + 0 = op.offset + 1
    BY <1>13 DEF Answering, buf, op
  <2>2. Len(buf) = 0
    BY <1>14
  <2> QED
    BY <1>2, <2>1, <2>2
<1> QED
  BY <1>11, <1>13, <1>14, <1>15 DEF c, r, a, got, buf, op

LEMMA DrainWriteSession ==
    ASSUME Settled, Streams, Placed, Sessions, NEW own \in Requests, DrainWrite(own)
    PROVE  Sessions' /\ Sends(own[1]) /\ stop' = stop
<1> DEFINE c == own[1]
           r == own[2]
           cn == Prepared(own)
<1>1. /\ Flush(c, cn, "arm", "drain") /\ stop' = stop
      /\ pending_writes_ # <<>> /\ own = Head(pending_writes_)
  BY DEF DrainWrite, Draining, TakePending, Flush, Goto, NextPending, LoopKeeps
<1>2. pending_writes_ \in Seq(Requests) /\ c \in Clients /\ Connected(conn[c])
      /\ r \in Nat /\ r # 0 /\ own = <<c, r>>
  BY RequestIsSome DEF Settled, TableInv, PoolTyped, ClientsTyped
<1>3. Count(pending_writes_, own) # 0
  <2>1. pending_writes_[1] = own /\ 1 \in DOMAIN pending_writes_
    BY <1>1, <1>2
  <2> QED
    BY <1>2, <2>1, CountFinite
<1>4. /\ peer[c].asked = r /\ conn[c].write_buf = <<>> /\ conn[c].sendfile_op.r = 0
      /\ InAnswer(conn[c], peer[c].got, c, r, 0)
  BY <1>3, DrainedIsNext
<1>5. /\ Connected(cn) /\ cn.write_buf = <<Headers(r)>>
      /\ cn.sendfile_op.r # 0 => cn.sendfile_op.r = r /\ cn.sendfile_op.offset = 0
                                 /\ cn.sendfile_op.remaining + 1 = Whole(c, r)
  <2>1. /\ Connected(cn) /\ cn.write_buf = Append(conn[c].write_buf, <<r, 0>>)
        /\ cn.sendfile_op =
               IF IsFile(own) THEN [r |-> r, offset |-> 0, remaining |-> Size(own), length |-> Length(own)]
                              ELSE conn[c].sendfile_op
    BY <1>2, PreparedTyped
  <2> HIDE DEF cn, c, r
  <2>2. Append(<<>>, <<r, 0>>) = <<<<r, 0>>>>
    OBVIOUS
  <2>3. CASE IsFile(own)
    <3>1. cn.sendfile_op.r = r /\ cn.sendfile_op.offset = 0 /\ cn.sendfile_op.remaining = Size(own)
      BY <2>1, <2>3
    <3> QED
      BY <1>2, <1>4, <2>1, <2>2, <3>1 DEF Whole, Headers
  <2>4. CASE ~IsFile(own)
    BY <1>4, <2>1, <2>2, <2>4 DEF Headers
  <2> QED
    BY <2>3, <2>4
<1> HIDE DEF cn, c, r
<1>6. InAnswer(cn, peer[c].got, c, r, 0)
  <2>1. Len(<<Headers(r)>>) = 1 /\ <<Headers(r)>> # <<>>
    OBVIOUS
  <2>2. Whole(c, r) \in Nat
    BY WholeIs
  <2>3. cn.sendfile_op.remaining \in Nat
    BY <1>5 DEF Connected
  <2>4. ASSUME cn.sendfile_op.r # 0
        PROVE  /\ cn.sendfile_op.r = r /\ Len(cn.write_buf) + 0 = cn.sendfile_op.offset + 1
               /\ cn.sendfile_op.offset + cn.sendfile_op.remaining + 1 = Whole(c, r)
    BY <1>5, <2>1, <2>3, <2>4
  <2>5. Answering(cn, c, r, 0)
    BY <1>5, <2>1, <2>4 DEF Answering
  <2> QED
    BY <1>4, <2>5 DEF InAnswer
<1> DEFINE n == r - 1
<1>7. n \in Nat /\ r = n + 1
  BY <1>2
<1> HIDE DEF n
<1>8. /\ \A d \in Clients \ {c} : conn'[d] = conn[d] /\ peer'[d] = peer[d]
      /\ peer'[c].asked = peer[c].asked
      /\ InSession(conn'[c], peer'[c].got, c, n + 1)
      /\ Receives(c)
  <2>1. InAnswer(cn, peer[c].got, c, n + 1, 0) /\ peer[c].asked = n + 1
    BY <1>4, <1>6, <1>7
  <2> QED
    BY <1>1, <1>2, <1>5, <1>7, <2>1, FlushSession
<1>9. Sends(c)
  BY <1>8 DEF Sends
<1>10. Sessions'
  BY <1>2, <1>4, <1>7, <1>8, <1>9, SendsSessions
<1> QED
  BY <1>1, <1>9, <1>10 DEF c

(* A client that has all its answers leaves nothing on its connection. *)
LEMMA AskSession ==
    ASSUME Settled, Sessions, ~Pipelining, NEW c \in Clients, SendRequest(c)
    PROVE  /\ Sessions' /\ stop' = stop
           /\ peer[c].asked < Len(Script[c]) /\ peer[c].got = Stream(c, peer[c].asked)
           /\ peer'[c].asked = peer[c].asked + 1 /\ peer'[c].got = peer[c].got
           /\ \A d \in Clients \ {c} : peer'[d] = peer[d]
<1> DEFINE a == peer[c].asked
           n == a + 1
           got == peer[c].got
<1>1. /\ conn' = conn /\ stop' = stop /\ a < Len(Script[c]) /\ got = Stream(c, a)
      /\ peer' = [peer EXCEPT ![c].asked = @ + 1, ![c].inbox = Append(@, peer[c].asked + 1)]
  BY DEF SendRequest, ServerUntouched
<1>2. /\ peer[c] \in Peer(c) /\ a \in Nat /\ Connected(conn[c]) /\ got \in Seq(Units)
  BY DEF Settled, TableInv, ClientsTyped, Peer
<1>3. /\ peer'[c].asked = n /\ peer'[c].got = got
      /\ \A d \in Clients \ {c} : peer'[d] = peer[d]
  <2> DEFINE q == [peer[c] EXCEPT !.asked = n]
             later == Append(peer[c].inbox, n)
             p == [q EXCEPT !.inbox = later]
  <2>1. peer'[c] = p /\ \A d \in Clients \ {c} : peer'[d] = peer[d]
    BY <1>1 DEF Settled, TableInv, ClientsTyped
  <2> HIDE DEF n, later
  <2>2. q = [connected |-> peer[c].connected, asked |-> n, inbox |-> peer[c].inbox,
             room |-> peer[c].room, got |-> peer[c].got, fin |-> peer[c].fin, rst |-> peer[c].rst]
    BY <1>2, PeerFields
  <2> HIDE DEF q
  <2>3. p = [connected |-> peer[c].connected, asked |-> n, inbox |-> later,
             room |-> peer[c].room, got |-> peer[c].got, fin |-> peer[c].fin, rst |-> peer[c].rst]
    BY <2>2
  <2> HIDE DEF p
  <2> QED
    BY <2>1, <2>3
<1>4. conn[c].write_buf = <<>> /\ conn[c].sendfile_op.r = 0
  <2>1. InSession(conn[c], got, c, a)
    BY DEF Sessions
  <2>2. CASE a = 0
    BY <2>1, <2>2 DEF InSession
  <2>3. CASE a # 0
    <3>1. PICK m \in Nat : InAnswer(conn[c], got, c, a, m)
      BY <2>1, <2>3 DEF InSession
    <3> DEFINE k == a - 1
    <3>2. k \in Nat /\ a = k + 1
      BY <1>2, <2>3
    <3> HIDE DEF k
    <3>3. m <= Whole(c, k + 1) /\ got = Stream(c, k) \o Pieces(k + 1, m)
      BY <3>1, <3>2 DEF InAnswer, k
    <3>4. /\ Len(got) = Len(Stream(c, k)) + m /\ Len(Stream(c, k)) \in Nat
          /\ Len(Stream(c, k + 1)) = Len(Stream(c, k)) + Whole(c, k + 1)
      BY <3>2, <3>3, StreamCut
    <3>5. Whole(c, a) \in Nat \ {0}
      BY WholeIs
    <3>6. m = Whole(c, a)
      BY <1>1, <3>2, <3>4, <3>5
    <3>7. Answering(conn[c], c, a, m)
      BY <3>1 DEF InAnswer
    <3>8. conn[c].write_buf = <<>>
      BY <3>5, <3>6, <3>7 DEF Answering
    <3>9. conn[c].sendfile_op.r = 0
      <4> DEFINE op == conn[c].sendfile_op
      <4>1. op.offset \in Nat /\ op.remaining \in Nat /\ Len(<<>>) = 0
        BY <1>2 DEF Connected
      <4>2. op.r # 0 => /\ Len(<<>>) + m = op.offset + 1
                        /\ op.offset + op.remaining + 1 = m /\ op.remaining > 0
        BY <3>6, <3>7, <3>8 DEF Answering
      <4> HIDE DEF op
      <4>3. op.r = 0
        BY <4>1, <4>2
      <4> QED
        BY <4>3 DEF op
    <3> QED
      BY <3>8, <3>9
  <2> QED
    BY <2>2, <2>3
<1>5. InSession(conn[c], got, c, n)
  <2>0. n \in Nat /\ n # 0 /\ n - 1 = a
    BY <1>2
  <2>1. Stream(c, a) \o Pieces(n, 0) = got
    <3>1. Pieces(n, 0) = <<>>
      BY DEF Pieces
    <3>2. got \o <<>> = got
      BY <1>2
    <3> QED
      BY <1>1, <3>1, <3>2
  <2>2. Answering(conn[c], c, n, 0)
    BY <1>4 DEF Answering
  <2> HIDE DEF n, got, a
  <2>3. Whole(c, n) \in Nat
    BY WholeIs
  <2>4. InAnswer(conn[c], got, c, n, 0)
    BY <2>0, <2>1, <2>2, <2>3 DEF InAnswer
  <2> QED
    BY <2>0, <2>4 DEF InSession
<1> HIDE DEF n, got
<1>6. Sessions'
  <2> SUFFICES ASSUME NEW d \in Clients
               PROVE  InSession(conn'[d], peer'[d].got, d, peer'[d].asked)
    BY DEF Sessions
  <2>1. CASE d = c
    BY <1>1, <1>3, <1>5, <2>1
  <2>2. CASE d # c
    BY <1>1, <1>3, <2>2 DEF Sessions
  <2> QED
    BY <2>1, <2>2
<1> QED
  BY <1>1, <1>3, <1>6 DEF n, got

LEMMA UntouchedStill ==
    ASSUME UNCHANGED <<conn, peer>>
    PROVE  \A c \in Clients : Still(c)
BY DEF Still

LEMMA ShutStill ==
    ASSUME Settled, NEW c \in Clients, ConnBecomes(c, OnClosed(conn[c]), {}), UNCHANGED peer
    PROVE  \A d \in Clients : Still(d)
<1> DEFINE cn == OnClosed(conn[c])
<1>1. cn.write_buf = conn[c].write_buf /\ (cn = conn[c] \/ cn.sendfile_op = NoSendfile)
  BY OnClosedTyped DEF Settled, TableInv, ClientsTyped
<1> HIDE DEF cn
<1>2. conn'[c] = cn /\ \A d \in Clients \ {c} : conn'[d] = conn[d]
  BY DEF cn, ConnBecomes, Settled, TableInv, ClientsTyped
<1> SUFFICES ASSUME NEW d \in Clients PROVE Still(d)
  OBVIOUS
<1>3. CASE d = c
  BY <1>1, <1>2, <1>3 DEF Still
<1>4. CASE d # c
  BY <1>2, <1>4 DEF Still
<1> QED
  BY <1>3, <1>4

LEMMA ReadStill ==
    ASSUME Settled, NEW c \in Clients, ReadRequest(c)
    PROVE  (\A d \in Clients : Still(d)) /\ stop' = stop
<1> DEFINE inbox == peer[c].inbox
<1>1. /\ \E k \in BOOLEAN : conn' = [conn EXCEPT ![c].keep_alive = k]
      /\ stop' = stop
  BY DEF ReadRequest, Reading
<1>2. peer[c] \in Peer(c) /\ Connected(conn[c])
  BY DEF Settled, TableInv, ClientsTyped
<1>3. PICK n \in 1 .. Len(inbox) :
          peer' = [peer EXCEPT ![c].inbox = SubSeq(@, n + 1, Len(@))]
  BY DEF ReadRequest
<1> DEFINE left == SubSeq(inbox, n + 1, Len(inbox))
<1>4. \A d \in Clients :
          conn'[d].write_buf = conn[d].write_buf /\ conn'[d].sendfile_op = conn[d].sendfile_op
  <2>1. PICK k \in BOOLEAN : conn' = [conn EXCEPT ![c].keep_alive = k]
    BY <1>1
  <2>2. conn'[c] = [conn[c] EXCEPT !.keep_alive = k] /\ \A d \in Clients \ {c} : conn'[d] = conn[d]
    BY <2>1 DEF Settled, TableInv, ClientsTyped
  <2> QED
    BY <1>2, <2>2 DEF Connected
<1>5. /\ peer'[c].asked = peer[c].asked /\ peer'[c].got = peer[c].got
      /\ \A d \in Clients \ {c} : peer'[d] = peer[d]
  <2> DEFINE p == [peer[c] EXCEPT !.inbox = left]
  <2>1. peer'[c] = p /\ \A d \in Clients \ {c} : peer'[d] = peer[d]
    BY <1>3 DEF Settled, TableInv, ClientsTyped
  <2> HIDE DEF left, inbox
  <2>2. p = [connected |-> peer[c].connected, asked |-> peer[c].asked, inbox |-> left,
             room |-> peer[c].room, got |-> peer[c].got, fin |-> peer[c].fin, rst |-> peer[c].rst]
    BY <1>2, PeerFields
  <2> HIDE DEF p
  <2> QED
    BY <2>1, <2>2
<1>6. \A d \in Clients : Still(d)
  BY <1>4, <1>5 DEF Still
<1> QED
  BY <1>1, <1>6

LEMMA AcceptStill ==
    ASSUME Settled, Streams, Placed, AcceptOne
    PROVE  (\A d \in Clients : Still(d)) /\ stop' = stop
<1>1. PICK c \in backlog :
          \/ conn' = [conn EXCEPT ![c].state = "Destroyed"]
          \/ conn' = [conn EXCEPT ![c] = NewConnection(LowestFree)]
  BY DEF AcceptOne
<1>2. /\ c \in Clients /\ conn[c].state = "None" /\ conn[c].write_buf = <<>> /\ Connected(conn[c])
  BY DEF Settled, TableInv, ClientsTyped, Lives, Streams
<1>3. /\ \A d \in Clients \ {c} : conn'[d] = conn[d]
      /\ \/ conn'[c] = [conn[c] EXCEPT !.state = "Destroyed"]
         \/ conn'[c] = NewConnection(LowestFree)
  BY <1>1, <1>2 DEF Settled, TableInv, ClientsTyped
<1>4. /\ conn'[c].write_buf = conn[c].write_buf
      /\ conn'[c].sendfile_op \in {conn[c].sendfile_op, NoSendfile}
  BY <1>2, <1>3 DEF NewConnection, Connected
<1>5. UNCHANGED <<peer, stop>>
  BY DEF AcceptOne, Accepting
<1> QED
  BY <1>2, <1>3, <1>4, <1>5 DEF Still

LEMMA JoinedStill ==
    ASSUME Settled, Joined
    PROVE  (\A d \in Clients : Still(d)) /\ stop' = stop
<1>1. UNCHANGED <<peer, stop>>
  BY DEF Joined
<1> SUFFICES ASSUME NEW d \in Clients PROVE Still(d)
  BY <1>1
<1>2. CASE conn[d].fd = NoFd
  <2>1. conn'[d] = conn[d]
    BY <1>2 DEF Joined
  <2> QED
    BY <1>1, <2>1 DEF Still
<1>3. CASE conn[d].fd # NoFd
  <2>1. conn'[d] = [NewConnection(NoFd) EXCEPT !.state = "Destroyed"]
    BY <1>3 DEF Joined
  <2>2. conn'[d] = [fd |-> NoFd, state |-> "Destroyed", keep_alive |-> TRUE, write_buf |-> <<>>,
                    sendfile_op |-> NoSendfile]
    BY <2>1 DEF NewConnection
  <2> HIDE DEF NoSendfile
  <2>3. conn'[d].write_buf = <<>> /\ conn'[d].sendfile_op = NoSendfile
    BY <2>2
  <2> QED
    BY <1>1, <2>3 DEF Still
<1> QED
  BY <1>2, <1>3

LEMMA ClientStill ==
    ASSUME Settled, NEW c \in Clients, Connect(c) \/ ReadResponse(c) \/ Fin(c) \/ Rst(c)
    PROVE  (\A d \in Clients : Still(d)) /\ stop' = stop
<1>1. UNCHANGED <<conn, stop>>
  BY DEF Connect, ReadResponse, Fin, Rst, ServerUntouched
<1>2. peer[c] \in Peer(c) /\ peer = [d \in Clients |-> peer[d]]
  BY DEF Settled, TableInv, ClientsTyped
<1>3. peer'[c].asked = peer[c].asked /\ peer'[c].got = peer[c].got
      /\ \A d \in Clients \ {c} : peer'[d] = peer[d]
  <2>1. CASE peer' = [peer EXCEPT ![c].connected = TRUE]
    BY <1>2, <2>1 DEF Peer
  <2>2. CASE peer' = [peer EXCEPT ![c].room = SockRoom]
    BY <1>2, <2>2 DEF Peer
  <2>3. CASE peer' = [peer EXCEPT ![c].fin = TRUE]
    BY <1>2, <2>3 DEF Peer
  <2>4. CASE peer' = [peer EXCEPT ![c].rst = TRUE]
    BY <1>2, <2>4 DEF Peer
  <2> QED
    BY <2>1, <2>2, <2>3, <2>4 DEF Connect, ReadResponse, Fin, Rst
<1> QED
  BY <1>1, <1>3 DEF Still

-----------------------------------------------------------------------------
(* The plain service *)

LEMMA ServiceFlattens == \A s : Service!FlattenSeq(s) = FlattenSeq(s)
BY DEF FlattenSeq, Service!FlattenSeq

LEMMA DueIs ==
    ASSUME NEW c \in Clients, NEW n \in 0 .. Len(Script[c])
    PROVE  Service!Due(c, n) = Stream(c, n)
<1> DEFINE len == Len(Script[c])
           all == [i \in 1 .. len |-> Response(<<c, i>>)]
           first == [i \in 1 .. n |-> Response(<<c, i>>)]
           cut == SubSeq(all, 1, n)
           R == {Response(<<c, i>>) : i \in 1 .. len}
<1>1. len \in Nat /\ n \in 0 .. len
  BY EventLoopAssumption
<1> HIDE DEF len
<1>0. \A i \in 1 .. len : Response(<<c, i>>) \in R
  OBVIOUS
<1> HIDE DEF R
<1>2. all \in Seq(R) /\ Len(all) = len /\ \A i \in 1 .. len : all[i] = Response(<<c, i>>)
  BY <1>0, <1>1
<1>3. first \in Seq(R) /\ Len(first) = n /\ \A i \in 1 .. n : first[i] = Response(<<c, i>>)
  <2>1. \A i \in 1 .. n : Response(<<c, i>>) \in R
    BY <1>0, <1>1
  <2> QED
    BY <1>1, <2>1
<1> HIDE DEF all, first
<1>4. cut \in Seq(R) /\ Len(cut) = n /\ \A i \in 1 .. n : cut[i] = all[i]
  BY <1>1, <1>2, SplitSeq
<1> HIDE DEF cut
<1>5. cut = first
  <2>1. ASSUME NEW i \in 1 .. n PROVE cut[i] = first[i]
    <3>1. i \in 1 .. len
      BY <1>1
    <3> QED
      BY <1>2, <1>3, <1>4, <3>1
  <2> QED
    BY <1>3, <1>4, <2>1
<1>6. Service!Due(c, n) = FlattenSeq(cut)
  BY ServiceFlattens DEF Service!Due, cut, all, len
<1> QED
  BY <1>5, <1>6 DEF Stream, first

LEMMA Stutters ==
    ASSUME \A c \in Clients : Still(c), stop' = stop
    PROVE  UNCHANGED Service!vars
BY DEF Service!vars, Still

LEMMA Delivers ==
    ASSUME Settled, NEW c \in Clients, Sends(c), stop' = stop
    PROVE  Service!Deliver(c) \/ UNCHANGED Service!vars
<1> DEFINE asked == [d \in Clients |-> peer[d].asked]
           got == [d \in Clients |-> peer[d].got]
           stopped == (stop # "no")
<1>0. asked' = asked
  BY DEF Sends
<1>1. stopped' = stopped
  OBVIOUS
<1>2. CASE peer'[c].got = peer[c].got
  <2>1. got' = got
    BY <1>2 DEF Sends
  <2> QED
    BY <1>0, <1>1, <2>1 DEF Service!vars
<1>3. CASE peer'[c].got # peer[c].got
  <2> DEFINE n == peer[c].asked
  <2>1. PICK k \in Len(peer[c].got) + 1 .. Len(Stream(c, n)) : peer'[c].got = SubSeq(Stream(c, n), 1, k)
    BY <1>3 DEF Sends, Receives
  <2>2. n \in 0 .. Len(Script[c])
    BY DEF Settled, TableInv, ClientsTyped, Peer
  <2>3. asked[c] = n /\ got[c] = peer[c].got /\ Service!Due(c, n) = Stream(c, n)
    BY <2>2, DueIs
  <2>4. got' = [got EXCEPT ![c] = SubSeq(Stream(c, n), 1, k)]
    BY <2>1 DEF Sends
  <2> HIDE DEF asked, got, stopped, n
  <2>5. \E i \in Len(got[c]) + 1 .. Len(Service!Due(c, asked[c])) :
            got' = [got EXCEPT ![c] = SubSeq(Service!Due(c, asked[c]), 1, i)]
    BY <2>1, <2>3, <2>4
  <2> QED
    BY <1>0, <1>1, <2>5 DEF Service!Deliver, asked, got, stopped
<1> QED
  BY <1>2, <1>3

LEMMA Asks ==
    ASSUME Settled, Sessions, ~Pipelining, NEW c \in Clients, SendRequest(c)
    PROVE  Service!Ask(c)
<1> DEFINE asked == [d \in Clients |-> peer[d].asked]
           got == [d \in Clients |-> peer[d].got]
           stopped == (stop # "no")
           answers == [i \in 1 .. Len(Script[c]) |-> Response(<<c, i>>)]
           n == peer[c].asked
<1>1. /\ stop' = stop
      /\ n < Len(Script[c]) /\ peer[c].got = Stream(c, n)
      /\ peer'[c].asked = n + 1 /\ peer'[c].got = peer[c].got
      /\ \A d \in Clients \ {c} : peer'[d] = peer[d]
  BY AskSession
<1>2. stopped' = stopped /\ got' = got
  BY <1>1
<1>3. asked' = [asked EXCEPT ![c] = asked[c] + 1]
  BY <1>1
<1>4. Len(answers) = Len(Script[c])
  BY EventLoopAssumption
<1>5. n \in 0 .. Len(Script[c])
  BY DEF Settled, TableInv, ClientsTyped, Peer
<1>6. got[c] = Service!Due(c, asked[c]) /\ asked[c] < Len(answers)
  BY <1>1, <1>4, <1>5, DueIs
<1> HIDE DEF asked, got, stopped
<1> QED
  BY <1>2, <1>3, <1>6 DEF Service!Ask, asked, got, stopped

LEMMA NextServes ==
    ASSUME Settled, Streams, Placed, Sessions, ~Pipelining, [Next]_vars
    PROVE  Sessions' /\ [Service!Next]_(Service!vars)
<1>1. ASSUME \A c \in Clients : Still(c), stop' = stop
      PROVE  Sessions' /\ [Service!Next]_(Service!vars)
  BY <1>1, StillSessions, Stutters
<1>2. ASSUME UNCHANGED <<conn, peer, stop>>
      PROVE  Sessions' /\ [Service!Next]_(Service!vars)
  BY <1>1, <1>2, UntouchedStill
<1>3. ASSUME NEW c \in Clients, Sends(c), stop' = stop, Sessions'
      PROVE  Sessions' /\ [Service!Next]_(Service!vars)
  <2>1. Service!Deliver(c) \/ UNCHANGED Service!vars
    BY <1>3, Delivers
  <2> QED
    BY <1>3, <2>1 DEF Service!Next
<1>4. CASE LoopStep
  <2>1. CASE StartUp
    <3>1. CASE StartFails
      BY <1>2, <3>1 DEF StartFails
    <3>2. CASE ~StartFails
      <4>1. PICK from, to : Enter(from, to)
        BY <2>1, <3>2, StartUpEnters
      <4> QED
        BY <1>2, <4>1 DEF Enter
    <3> QED
      BY <3>1, <3>2
  <2>2. CASE \/ Poll \/ Reap \/ AcceptNothing \/ AcceptThrows \/ DrainEnds \/ Arm \/ Disarm \/ Leave
             \/ \E c \in Clients : ReadAgain(c)
             \/ \E e \in batch : HandleListen(e) \/ HandleWakeup(e) \/ HandleIo(e)
    <3>1. UNCHANGED <<conn, peer, stop>>
      BY <2>2 DEF Poll, Reap, AcceptNothing, AcceptThrows, Accepting, DrainEnds, Draining, Arm, Disarm,
         Leave, ReadAgain, Reading, Handle, HandleListen, HandleWakeup, HandleIo, LoopKeeps
    <3> QED
      BY <1>2, <3>1
  <2>3. ASSUME NEW e \in batch, HandleClosed(e)
        PROVE  Sessions' /\ [Service!Next]_(Service!vars)
    <3> DEFINE c == connections_[e.fd]
    <3>1. /\ ConnBecomes(c, OnClosed(conn[c]), {}) /\ e.fd \in DOMAIN connections_
          /\ UNCHANGED <<peer, stop>>
      BY <2>3 DEF HandleClosed, Handle, LoopKeeps
    <3>2. c \in Clients
      BY <3>1 DEF Settled, TableInv, LoopTyped
    <3> HIDE DEF c
    <3> QED
      BY <1>1, <3>1, <3>2, ShutStill
  <2>4. ASSUME NEW c \in Clients, ReadEnds(c)
        PROVE  Sessions' /\ [Service!Next]_(Service!vars)
    <3>1. ConnBecomes(c, OnClosed(conn[c]), {}) /\ UNCHANGED <<peer, stop>>
      BY <2>4 DEF ReadEnds, Reading
    <3> QED
      BY <1>1, <3>1, ShutStill
  <2>5. CASE AcceptOne
    BY <1>1, <2>5, AcceptStill
  <2>6. ASSUME NEW c \in Clients, ReadRequest(c)
        PROVE  Sessions' /\ [Service!Next]_(Service!vars)
    BY <1>1, <2>6, ReadStill
  <2>7. ASSUME NEW c \in Clients, Write(c)
        PROVE  Sessions' /\ [Service!Next]_(Service!vars)
    BY <1>3, <2>7, WriteSession
  <2>8. CASE Submit \/ PostError \/ \E req \in Requests : DrainDead(req)
    <3>1. UNCHANGED <<conn, peer, stop>>
      BY <2>8 DEF Submit, PostError, DrainDead, Draining, LoopKeeps
    <3> QED
      BY <1>2, <3>1
  <2>9. ASSUME NEW req \in Requests, DrainWrite(req)
        PROVE  Sessions' /\ [Service!Next]_(Service!vars)
    <3>1. Sessions' /\ Sends(req[1]) /\ stop' = stop
      BY <2>9, DrainWriteSession
    <3>2. req[1] \in Clients
      BY RequestIsSome
    <3> QED
      BY <1>3, <3>1, <3>2
  <2>10. CASE Joined
    BY <1>1, <2>10, JoinedStill
  <2> QED
    BY <1>4, <2>1, <2>2, <2>3, <2>4, <2>5, <2>6, <2>7, <2>8, <2>9, <2>10 DEF LoopStep
<1>5. ASSUME NEW w \in Workers, WorkerStep(w)
      PROVE  Sessions' /\ [Service!Next]_(Service!vars)
  <2>1. UNCHANGED <<conn, peer, stop>>
    BY <1>5 DEF WorkerStep, WorkerTake, WorkerExit, HandlerThrows, HandlerReturns, WorkerPost,
       WorkerNotify, WorkerMoves
  <2> QED
    BY <1>2, <2>1
<1>6. ASSUME NEW c \in Clients, SendRequest(c)
      PROVE  Sessions' /\ [Service!Next]_(Service!vars)
  <2>1. Service!Ask(c) /\ Sessions'
    BY <1>6, Asks, AskSession
  <2> QED
    BY <2>1 DEF Service!Next
<1>7. ASSUME NEW c \in Clients, Connect(c) \/ ReadResponse(c) \/ Fin(c) \/ Rst(c)
      PROVE  Sessions' /\ [Service!Next]_(Service!vars)
  BY <1>1, <1>7, ClientStill
<1>8. CASE Signal
  <2>1. UNCHANGED <<conn, peer>> /\ stop' # "no"
    BY <1>8 DEF Signal
  <2>2. Sessions'
    BY <2>1, UntouchedStill, StillSessions
  <2>3. Service!Stop
    BY <2>1 DEF Service!Stop
  <2> QED
    BY <2>2, <2>3 DEF Service!Next
<1>9. CASE UNCHANGED vars
  BY <1>2, <1>9 DEF vars
<1> QED
  BY <1>4, <1>5, <1>6, <1>7, <1>8, <1>9 DEF Next, Environment, Terminated

LEMMA InitServes ==
    ASSUME Init
    PROVE  Sessions /\ Service!Init
<1>1. ASSUME NEW c \in Clients
      PROVE  /\ conn[c].write_buf = <<>> /\ conn[c].sendfile_op.r = 0
             /\ peer[c].got = <<>> /\ peer[c].asked = 0
  <2>1. conn[c] = [NewConnection(NoFd) EXCEPT !.state = "None"]
    BY DEF Init
  <2>2. conn[c].write_buf = <<>> /\ conn[c].sendfile_op.r = 0
    BY <2>1 DEF NewConnection, NoSendfile
  <2> QED
    BY <2>2 DEF Init
<1>2. Sessions
  BY <1>1 DEF Sessions, InSession
<1>3. stop = "no"
  BY DEF Init
<1> QED
  BY <1>1, <1>2, <1>3 DEF Service!Init

(* Where clients wait for each answer before they ask the next question, the *)
(* running server is a plain service: whatever the workers, the queues, the  *)
(* partial writes, the edges, the closed connections and the shutdown do, a  *)
(* client receives the answers to its own questions, in their order, headers *)
(* before body, nothing twice and nothing else (drain_pending_writes(),      *)
(* flush_write(), begin_sendfile() with the callbacks of main.cpp).          *)
THEOREM ServesInOrder == ~Pipelining => (Spec => AnswersInOrder)
<1> SUFFICES ASSUME ~Pipelining PROVE Spec => Service!Spec
  BY DEF AnswersInOrder
<1> DEFINE Inv == TableInv /\ RequestInv
<1>1. Init => Service!Init /\ Sessions
  BY InitServes
<1>2. Inv /\ Sessions /\ [Next]_vars => Sessions' /\ [Service!Next]_(Service!vars)
  <2> SUFFICES ASSUME Inv, Sessions, [Next]_vars PROVE Sessions' /\ [Service!Next]_(Service!vars)
    OBVIOUS
  <2>1. Settled /\ Streams /\ Placed
    BY SettledNext DEF RequestInv
  <2> QED
    BY <2>1, NextServes
<1>3. Spec => []Inv
  BY RequestInvariant
<1> QED
  BY <1>1, <1>2, <1>3, PTL DEF Spec, Service!Spec

=============================================================================
