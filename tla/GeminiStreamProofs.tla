------------------------- MODULE GeminiStreamProofs -------------------------
(***************************************************************************)
(* Proofs about GeminiStream, for streams of any number of lines, cut      *)
(* anywhere: the client gets every line that has ended, once and without   *)
(* its signature, wherever the chunks are cut; and a signature taken out   *)
(* is in the cache.                                                        *)
(***************************************************************************)
EXTENDS GeminiStream, CommonFacts, SequenceTheorems, TLAPS

----------------------------------------------------------------------------
(* What a chunk is turned into is made of two operations on sequences: to  *)
(* keep those elements that are in a set, and to put each element through  *)
(* a function.  Both treat the parts of a sequence one by one, which is    *)
(* why it does not matter where a stream is cut.                           *)

Those(s, K) == Sift(s, {i \in DOMAIN s : s[i] \in K})
Through(s, m) == [i \in DOMAIN s |-> m[s[i]]]

(* Those of a sequence are elements of it. *)
LEMMA ThoseFacts ==
  ASSUME NEW S, NEW s \in Seq(S), NEW K
  PROVE  /\ Those(s, K) \in Seq(S)
         /\ \A n \in 1 .. Len(Those(s, K)) :
              \E i \in 1 .. Len(s) : Those(s, K)[n] = s[i] /\ s[i] \in K
<1> DEFINE I == {i \in 1 .. Len(s) : s[i] \in K}
<1>1. Those(s, K) = Sift(s, I)
  BY LenProperties DEF Those
<1>2. I \in SUBSET (1 .. Len(s))
  OBVIOUS
<1> HIDE DEF I
<1>3. /\ Sift(s, I) \in Seq(S) /\ Len(Sift(s, I)) = Cardinality(I)
      /\ \A a \in 1 .. Cardinality(I) : Nth(I, a) \in I /\ Sift(s, I)[a] = s[Nth(I, a)]
  BY <1>2, SiftFacts
<1>4. QED
  BY <1>1, <1>3 DEF I

(* What is kept depends on the elements the sequence has. *)
LEMMA ThoseSame ==
  ASSUME NEW S, NEW s \in Seq(S), NEW K, NEW M,
         \A i \in 1 .. Len(s) : s[i] \in K <=> s[i] \in M
  PROVE  Those(s, K) = Those(s, M)
<1>1. DOMAIN s = 1 .. Len(s)
  BY LenProperties
<1>2. {i \in DOMAIN s : s[i] \in K} = {i \in DOMAIN s : s[i] \in M}
  BY <1>1
<1>3. QED
  BY <1>2 DEF Those

(* If none of its elements is kept, nothing is. *)
LEMMA ThoseNone ==
  ASSUME NEW S, NEW s \in Seq(S), NEW K, \A i \in 1 .. Len(s) : s[i] \notin K
  PROVE  Those(s, K) = << >>
<1> DEFINE t == Those(s, K)
<1>1. t \in Seq(S) /\ \A n \in 1 .. Len(t) : \E i \in 1 .. Len(s) : t[n] = s[i] /\ s[i] \in K
  BY ThoseFacts
<1>2. \A n \in 1 .. Len(t) : FALSE
  BY <1>1
<1> HIDE DEF t
<1>3. Len(t) \in Nat /\ (t # << >> => Len(t) \in Nat \ {0})
  BY <1>1, LenProperties, EmptySeq
<1>4. t = << >>
  <2> SUFFICES ASSUME t # << >> PROVE FALSE
    OBVIOUS
  <2>1. 1 \in 1 .. Len(t)
    BY <1>3
  <2>2. QED
    BY <1>2, <2>1
<1>5. QED
  BY <1>4 DEF t

(* What is kept of what was kept is in both sets. *)
LEMMA ThoseTwice ==
  ASSUME NEW S, NEW s \in Seq(S), NEW K, NEW M
  PROVE  Those(Those(s, K), M) = Those(s, K \cap M)
<1> DEFINE I == {i \in 1 .. Len(s) : s[i] \in K}
           T == {i \in 1 .. Len(s) : s[i] \in K \cap M}
           J == {a \in 1 .. Cardinality(I) : Nth(I, a) \in T}
<1>1. DOMAIN s = 1 .. Len(s) /\ Len(s) \in Nat
  BY LenProperties
<1>2. Those(s, K) = Sift(s, I) /\ Those(s, K \cap M) = Sift(s, T)
  BY <1>1 DEF Those
<1>3. I \in SUBSET (1 .. Len(s)) /\ T \in SUBSET I
  OBVIOUS
<1>4. /\ Sift(s, I) \in Seq(S) /\ Len(Sift(s, I)) = Cardinality(I)
      /\ \A a \in 1 .. Cardinality(I) : Nth(I, a) \in I /\ Sift(s, I)[a] = s[Nth(I, a)]
  <2> HIDE DEF I
  <2>1. QED
    BY <1>3, SiftFacts
<1>5. DOMAIN Sift(s, I) = 1 .. Cardinality(I)
  BY DEF Sift
<1>6. J = {a \in DOMAIN Sift(s, I) : Sift(s, I)[a] \in M}
  <2>1. \A a \in 1 .. Cardinality(I) : Nth(I, a) \in T <=> Sift(s, I)[a] \in M
    BY <1>4
  <2>2. QED
    BY <1>5, <2>1
<1>7. Sift(Sift(s, I), J) = Sift(s, T)
  <2> HIDE DEF I, T
  <2>1. QED
    BY <1>3, SiftTwice
<1>8. QED
  BY <1>2, <1>6, <1>7 DEF Those

(* What is kept of two sequences joined. *)
LEMMA ThoseJoined ==
  ASSUME NEW S, NEW s \in Seq(S), NEW u \in Seq(S), NEW K
  PROVE  Those(s \o u, K) = Those(s, K) \o Those(u, K)
<1> DEFINE I == {i \in 1 .. Len(s) : s[i] \in K}
           J == {i \in 1 .. Len(u) : u[i] \in K}
           c == s \o u
           L == {i \in 1 .. Len(c) : c[i] \in K}
<1>1. Joins(S, s, u, c)
  BY Joined
<1> HIDE DEF c
<1>2. /\ Len(s) \in Nat /\ Len(u) \in Nat /\ Len(c) = Len(s) + Len(u)
      /\ DOMAIN c = 1 .. Len(c)
      /\ \A i \in 1 .. Len(s) : c[i] = s[i]
      /\ \A i \in 1 .. Len(u) : c[Len(s) + i] = u[i]
  BY <1>1 DEF Joins
<1>3. Those(s, K) = Sift(s, I) /\ Those(u, K) = Sift(u, J) /\ Those(c, K) = Sift(c, L)
  BY <1>2, LenProperties DEF Those
<1>4. L = Beyond(Len(s), I, J)
  <2>1. ASSUME NEW i \in L PROVE i \in Beyond(Len(s), I, J)
    <3>1. i \in 1 .. Len(s) \/ (i - Len(s) \in 1 .. Len(u) /\ i = Len(s) + (i - Len(s)))
      BY <1>2
    <3>2. QED
      BY <1>2, <3>1 DEF Beyond
  <2>2. \A i \in I : i \in L
    BY <1>2
  <2>3. \A j \in J : Len(s) + j \in L
    BY <1>2
  <2>4. QED
    BY <2>1, <2>2, <2>3 DEF Beyond
<1>5. I \in SUBSET (1 .. Len(s)) /\ J \in SUBSET (1 .. Len(u))
  OBVIOUS
<1> HIDE DEF I, J, L
<1>6. SiftsJoin(s, u, I, J)
  BY <1>5, SiftJoined
<1>7. QED
  BY <1>3, <1>4, <1>6 DEF SiftsJoin, c

(* What a function m does with the elements of S. *)
Takes(m, S, T) == \A x \in S : m[x] \in T
Brings(m, S, K, M) == \A x \in S : m[x] \in K <=> x \in M
Composes(h, q, m, S) == \A x \in S : h[x] = q[m[x]]

(* A function keeps the length. *)
LEMMA ThroughFacts ==
  ASSUME NEW S, NEW T, NEW s \in Seq(S), NEW m, \A x \in S : m[x] \in T
  PROVE  /\ Through(s, m) \in Seq(T) /\ Len(Through(s, m)) = Len(s)
         /\ DOMAIN Through(s, m) = 1 .. Len(s)
         /\ \A i \in 1 .. Len(s) : Through(s, m)[i] = m[s[i]]
<1>1. Len(s) \in Nat /\ DOMAIN s = 1 .. Len(s) /\ \A i \in 1 .. Len(s) : s[i] \in S
  BY LenProperties, ElementOfSeq
<1>2. Through(s, m) = [i \in 1 .. Len(s) |-> m[s[i]]]
  BY <1>1 DEF Through
<1>3. \A i \in 1 .. Len(s) : m[s[i]] \in T
  BY <1>1
<1>4. Through(s, m) \in Seq(T)
  BY <1>1, <1>2, <1>3, IsASeq
<1>5. QED
  BY <1>1, <1>2, <1>4, LenProperties

(* Two sequences joined are put through one by one. *)
OneByOne(s, u, m) == Through(s \o u, m) = Through(s, m) \o Through(u, m)

LEMMA ThroughJoined ==
  ASSUME NEW S, NEW T, NEW s \in Seq(S), NEW u \in Seq(S), NEW m, Takes(m, S, T)
  PROVE  OneByOne(s, u, m)
<1> USE DEF Takes
<1> DEFINE c == s \o u
           x == Through(c, m)
           l == Through(s, m)
           r == Through(u, m)
           y == l \o r
<1>1. Joins(S, s, u, c)
  BY Joined
<1>2. /\ x \in Seq(T) /\ Len(x) = Len(c) /\ \A i \in 1 .. Len(c) : x[i] = m[c[i]]
  <2>1. c \in Seq(S)
    BY <1>1 DEF Joins
  <2> HIDE DEF c
  <2>2. QED
    BY <2>1, ThroughFacts
<1>3. /\ l \in Seq(T) /\ Len(l) = Len(s) /\ (\A i \in 1 .. Len(s) : l[i] = m[s[i]])
      /\ r \in Seq(T) /\ Len(r) = Len(u) /\ (\A i \in 1 .. Len(u) : r[i] = m[u[i]])
  <2>1. l \in Seq(T) /\ Len(l) = Len(s) /\ \A i \in 1 .. Len(s) : l[i] = m[s[i]]
    BY ThroughFacts
  <2>2. r \in Seq(T) /\ Len(r) = Len(u) /\ \A i \in 1 .. Len(u) : r[i] = m[u[i]]
    BY ThroughFacts
  <2>3. QED
    BY <2>1, <2>2
<1> HIDE DEF c, x, l, r
<1>4. Joins(T, l, r, y)
  BY <1>3, Joined
<1> HIDE DEF y
<1>5. Len(s) \in Nat /\ Len(u) \in Nat /\ Len(c) = Len(s) + Len(u) /\ Len(y) = Len(c)
  BY <1>1, <1>3, <1>4 DEF Joins
<1>6. ASSUME NEW i \in 1 .. Len(c) PROVE x[i] = y[i]
  <2>1. CASE i \in 1 .. Len(s)
    <3>1. c[i] = s[i] /\ y[i] = l[i]
      BY <1>1, <1>3, <1>4, <2>1 DEF Joins
    <3>2. QED
      BY <1>2, <1>3, <2>1, <3>1
  <2>2. CASE i - Len(s) \in 1 .. Len(u)
    <3>1. i = Len(s) + (i - Len(s))
      BY <1>5
    <3>2. c[i] = u[i - Len(s)] /\ y[i] = r[i - Len(s)]
      BY <1>1, <1>3, <1>4, <2>2, <3>1 DEF Joins
    <3>3. QED
      BY <1>2, <1>3, <2>2, <3>2
  <2>3. QED
    BY <1>5, <2>1, <2>2
<1>7. x = y
  <2>1. y \in Seq(T)
    BY <1>4 DEF Joins
  <2>2. Len(x) = Len(y) /\ \A i \in 1 .. Len(x) : x[i] = y[i]
    BY <1>2, <1>5, <1>6
  <2>3. QED
    BY <1>2, <2>1, <2>2, SeqEqual
<1>8. QED
  BY <1>7 DEF OneByOne, c, x, y, l, r

(* To keep some of what comes out is to keep what they come from. *)
KeptBefore(s, m, K, M) == Those(Through(s, m), K) = Through(Those(s, M), m)

LEMMA ThoseThrough ==
  ASSUME NEW S, NEW T, NEW s \in Seq(S), NEW m, Takes(m, S, T),
         NEW K, NEW M, Brings(m, S, K, M)
  PROVE  KeptBefore(s, m, K, M)
<1> USE DEF Takes, Brings
<1> DEFINE I == {i \in 1 .. Len(s) : s[i] \in M}
           x == Through(s, m)
<1>1. DOMAIN s = 1 .. Len(s) /\ \A i \in 1 .. Len(s) : s[i] \in S
  BY LenProperties, ElementOfSeq
<1>2. DOMAIN x = 1 .. Len(s) /\ \A i \in 1 .. Len(s) : x[i] = m[s[i]]
  BY ThroughFacts
<1> HIDE DEF x
<1>3. {i \in DOMAIN x : x[i] \in K} = I
  BY <1>1, <1>2
<1>4. Those(s, M) = Sift(s, I)
  BY <1>1 DEF Those
<1>5. I \in SUBSET (1 .. Len(s))
  OBVIOUS
<1>6. Those(x, K) = Sift(x, I)
  BY <1>3 DEF Those
<1> HIDE DEF I
<1>7. /\ \A a \in 1 .. Cardinality(I) : Nth(I, a) \in I /\ Sift(s, I)[a] = s[Nth(I, a)]
  BY <1>5, SiftFacts
<1>8. DOMAIN Sift(s, I) = 1 .. Cardinality(I)
  BY DEF Sift
<1>9. Sift(x, I) = [a \in 1 .. Cardinality(I) |-> x[Nth(I, a)]]
  BY DEF Sift
<1>10. Through(Sift(s, I), m) = [a \in 1 .. Cardinality(I) |-> m[Sift(s, I)[a]]]
  BY <1>8 DEF Through
<1>11. \A a \in 1 .. Cardinality(I) : x[Nth(I, a)] = m[Sift(s, I)[a]]
  BY <1>2, <1>5, <1>7
<1>12. QED
  BY <1>4, <1>6, <1>9, <1>10, <1>11 DEF KeptBefore, x

(* Functions that agree on a sequence turn it into the same. *)
LEMMA ThroughSame ==
  ASSUME NEW S, NEW s \in Seq(S), NEW m, NEW q,
         \A i \in 1 .. Len(s) : m[s[i]] = q[s[i]]
  PROVE  Through(s, m) = Through(s, q)
<1>1. DOMAIN s = 1 .. Len(s)
  BY LenProperties
<1>2. QED
  BY <1>1 DEF Through

(* A function that changes none of the elements leaves the sequence. *)
LEMMA ThroughIdentity ==
  ASSUME NEW S, NEW s \in Seq(S), NEW m, \A i \in 1 .. Len(s) : m[s[i]] = s[i]
  PROVE  Through(s, m) = s
<1>1. s \in [1 .. Len(s) -> S] /\ DOMAIN s = 1 .. Len(s)
  BY LenProperties
<1>2. Through(s, m) = [i \in 1 .. Len(s) |-> s[i]]
  BY <1>1 DEF Through
<1>3. QED
  BY <1>1, <1>2

(* To put it through one function and then through another. *)
AtOnce(s, m, q, h) == Through(Through(s, m), q) = Through(s, h)

LEMMA ThroughTwice ==
  ASSUME NEW S, NEW T, NEW s \in Seq(S), NEW m, Takes(m, S, T),
         NEW q, NEW h, Composes(h, q, m, S)
  PROVE  AtOnce(s, m, q, h)
<1> USE DEF Takes, Composes
<1>1. DOMAIN s = 1 .. Len(s) /\ \A i \in 1 .. Len(s) : s[i] \in S
  BY LenProperties, ElementOfSeq
<1>2. DOMAIN Through(s, m) = 1 .. Len(s) /\ \A i \in 1 .. Len(s) : Through(s, m)[i] = m[s[i]]
  BY ThroughFacts
<1>3. \A i \in 1 .. Len(s) : q[Through(s, m)[i]] = h[s[i]]
  BY <1>1, <1>2
<1> DEFINE x == Through(s, m)
<1> HIDE DEF x
<1>4. Through(x, q) = [i \in 1 .. Len(s) |-> q[x[i]]]
  BY <1>2 DEF Through, x
<1>5. Through(s, h) = [i \in 1 .. Len(s) |-> h[s[i]]]
  BY <1>1 DEF Through
<1>6. QED
  BY <1>3, <1>4, <1>5 DEF AtOnce, x

----------------------------------------------------------------------------
(* The bytes of a stream *)

(* The pieces the upstream sends. *)
Sides == {"head", "tail", "cr", "lf"}
Raw == [line : 1 .. MaxLines, b : Sides]

(* Where a piece stands among all that the lines could have. *)
SideNo(b) == IF b = "head" THEN 1 ELSE IF b = "tail" THEN 2 ELSE IF b = "cr" THEN 3 ELSE 4
Code(p) == 4 * (p.line - 1) + SideNo(p.b)

(* A line before the last one has an end. *)
StreamOK(ls) ==
  /\ Len(ls) \in 0 .. MaxLines /\ DOMAIN ls = 1 .. Len(ls)
  /\ \A l \in 1 .. Len(ls) - 1 : ls[l].eol # "none"

LEMMA StreamsAre == \A ls \in Streams : StreamOK(ls)
<1> SUFFICES ASSUME NEW ls \in Streams PROVE StreamOK(ls)
  OBVIOUS
<1>1. PICK n \in 0 .. MaxLines :
        ls \in [1 .. n -> Line \cup LastLine] /\ \A i \in 1 .. n - 1 : ls[i] \in Line
  BY DEF Streams
<1>2. n \in Nat /\ Len(ls) = n /\ DOMAIN ls = 1 .. n
  <2>1. n \in Nat
    BY StreamAssumption
  <2>2. ls \in Seq(Line \cup LastLine) /\ Len(ls) = n
    BY <1>1, <2>1, IsASeq, LenProperties
  <2>3. QED
    BY <1>1, <2>1, <2>2
<1>3. \A l \in Line : l.eol # "none"
  BY DEF Line
<1>4. QED
  BY <1>1, <1>2, <1>3 DEF StreamOK

(* All the pieces the lines could have are in the order of their codes. *)
LEMMA GridFacts ==
  ASSUME NEW ls, StreamOK(ls)
  PROVE  /\ Grid(ls) \in Seq(Raw) /\ Len(Grid(ls)) = 4 * Len(ls)
         /\ DOMAIN Grid(ls) = 1 .. 4 * Len(ls)
         /\ \A i \in 1 .. 4 * Len(ls) :
              Grid(ls)[i].line \in 1 .. Len(ls) /\ Code(Grid(ls)[i]) = i
         /\ \A l \in 1 .. Len(ls) : \A b \in Sides :
              \E i \in 1 .. 4 * Len(ls) : Grid(ls)[i] = Piece(l, b)
<1> DEFINE n == Len(ls)
           g == Grid(ls)
           L(i) == ((i - 1) \div 4) + 1
           R(i) == ((i - 1) % 4) + 1
<1>1. n \in Nat /\ n <= MaxLines /\ MaxLines \in Nat /\ 4 * n \in Nat
  BY StreamAssumption DEF StreamOK
<1>2. g = [i \in 1 .. 4 * n |-> Piece(L(i), Slots[R(i)])]
  BY DEF Grid
<1>3. /\ Slots[1] = "head" /\ Slots[2] = "tail" /\ Slots[3] = "cr" /\ Slots[4] = "lf"
  BY DEF Slots
<1> HIDE DEF n, g
<1>4. ASSUME NEW i \in 1 .. 4 * n
      PROVE  L(i) \in 1 .. n /\ R(i) \in 1 .. 4 /\ 4 * (L(i) - 1) + R(i) = i
  BY <1>1
<1>5. ASSUME NEW l \in 1 .. n, NEW r \in 1 .. 4
      PROVE  /\ 4 * (l - 1) + r \in 1 .. 4 * n
             /\ L(4 * (l - 1) + r) = l /\ R(4 * (l - 1) + r) = r
  BY <1>1
<1> HIDE DEF L, R
<1>6. \A r \in 1 .. 4 : Slots[r] \in Sides /\ SideNo(Slots[r]) = r
  BY <1>3 DEF Sides, SideNo
<1>7. \A b \in Sides : \E r \in 1 .. 4 : Slots[r] = b
  BY <1>3 DEF Sides
<1>8. ASSUME NEW i \in 1 .. 4 * n
      PROVE  g[i] \in Raw /\ g[i].line \in 1 .. n /\ Code(g[i]) = i
  <2>1. g[i].line = L(i) /\ g[i].b = Slots[R(i)] /\ g[i] = [line |-> L(i), b |-> Slots[R(i)]]
    BY <1>2 DEF Piece
  <2>2. L(i) \in 1 .. MaxLines
    BY <1>1, <1>4
  <2>3. g[i] \in Raw
    BY <1>4, <1>6, <2>1, <2>2 DEF Raw
  <2>4. QED
    BY <1>4, <1>6, <2>1, <2>3 DEF Code
<1>9. \A i \in 1 .. 4 * n : Piece(L(i), Slots[R(i)]) \in Raw
  BY <1>2, <1>8
<1>10. g \in Seq(Raw)
  BY <1>1, <1>2, <1>9, IsASeq
<1>11. DOMAIN g = 1 .. 4 * n /\ Len(g) = 4 * n
  BY <1>1, <1>2, <1>10, LenProperties
<1>12. ASSUME NEW l \in 1 .. n, NEW b \in Sides
       PROVE  \E i \in 1 .. 4 * n : g[i] = Piece(l, b)
  <2>1. PICK r \in 1 .. 4 : Slots[r] = b
    BY <1>7
  <2>2. QED
    BY <1>2, <1>5, <2>1
<1>13. QED
  BY <1>8, <1>10, <1>11, <1>12 DEF g, n

(* The bytes B of the lines ls: each piece that its line has, in order. *)
BytesOK(ls, B) ==
  /\ B \in Seq(Raw) /\ Len(B) \in Nat /\ DOMAIN B = 1 .. Len(B)
  /\ \A i \in 1 .. Len(B) :
       B[i].line \in 1 .. Len(ls) /\ B[i].b \in Sides /\ Has(ls[B[i].line], B[i].b)
  /\ \A i, j \in 1 .. Len(B) : i < j => Code(B[i]) < Code(B[j])
  /\ \A l \in 1 .. Len(ls) : \A b \in Sides :
       Has(ls[l], b) => \E i \in 1 .. Len(B) : B[i] = Piece(l, b)

LEMMA BytesAre ==
  ASSUME NEW ls, StreamOK(ls)
  PROVE  BytesOK(ls, BytesOf(ls))
<1> DEFINE g == Grid(ls)
           m == Len(g)
           I == {i \in DOMAIN g : Has(ls[g[i].line], g[i].b)}
           B == BytesOf(ls)
           n == Cardinality(I)
<1>1. /\ g \in Seq(Raw) /\ m = 4 * Len(ls) /\ DOMAIN g = 1 .. m /\ m \in Nat
      /\ \A i \in 1 .. m : g[i].line \in 1 .. Len(ls) /\ Code(g[i]) = i /\ g[i] \in Raw
      /\ \A l \in 1 .. Len(ls) : \A b \in Sides : \E i \in 1 .. m : g[i] = Piece(l, b)
  <2>1. g \in Seq(Raw)
    BY GridFacts
  <2> HIDE DEF g
  <2>2. Len(g) \in Nat /\ \A i \in 1 .. Len(g) : g[i] \in Raw
    BY <2>1, LenProperties, ElementOfSeq
  <2>3. QED
    BY <2>1, <2>2, GridFacts DEF g
<1>2. B = Sift(g, I)
  BY DEF BytesOf
<1>3. I \in SUBSET (1 .. m)
  BY <1>1
<1>4. \A i \in I : Has(ls[g[i].line], g[i].b)
  OBVIOUS
<1>5. \A i \in 1 .. m : Has(ls[g[i].line], g[i].b) => i \in I
  BY <1>1
<1> HIDE DEF I, B, g
<1>6. /\ B \in Seq(Raw) /\ Len(B) = n /\ n \in 0 .. m
      /\ \A a \in 1 .. n : Nth(I, a) \in I /\ B[a] = g[Nth(I, a)]
      /\ \A i \in I : \E a \in 1 .. n : i = Nth(I, a)
  BY <1>1, <1>2, <1>3, SiftFacts
<1>7. \A a, b \in 1 .. n : a < b => Nth(I, a) < Nth(I, b)
  BY <1>1, <1>3, NthCounts
<1> HIDE DEF m, n
<1>8. DOMAIN B = 1 .. n /\ n \in Nat
  BY <1>1, <1>6, LenProperties
<1>9. ASSUME NEW a \in 1 .. n
      PROVE  /\ B[a].line \in 1 .. Len(ls) /\ B[a].b \in Sides
             /\ Has(ls[B[a].line], B[a].b) /\ Code(B[a]) = Nth(I, a)
  <2>1. Nth(I, a) \in I /\ Nth(I, a) \in 1 .. m /\ B[a] = g[Nth(I, a)]
    BY <1>3, <1>6
  <2>2. B[a] \in Raw
    BY <1>1, <2>1
  <2>3. QED
    BY <1>1, <1>4, <2>1, <2>2 DEF Raw
<1>10. ASSUME NEW a \in 1 .. n, NEW b \in 1 .. n, a < b PROVE Code(B[a]) < Code(B[b])
  BY <1>7, <1>9, <1>10
<1>11. ASSUME NEW l \in 1 .. Len(ls), NEW b \in Sides, Has(ls[l], b)
       PROVE  \E a \in 1 .. n : B[a] = Piece(l, b)
  <2>1. PICK i \in 1 .. m : g[i] = Piece(l, b)
    BY <1>1
  <2>2. i \in I
    BY <1>5, <1>11, <2>1 DEF Piece
  <2>3. QED
    BY <1>6, <2>1, <2>2
<1>12. QED
  BY <1>6, <1>8, <1>9, <1>10, <1>11 DEF BytesOK, B

(* A piece that the upstream sends, and its code. *)
LEMMA ByteFacts ==
  ASSUME NEW ls, NEW B, BytesOK(ls, B), NEW i \in 1 .. Len(B)
  PROVE  /\ B[i] \in Raw /\ B[i] = Piece(B[i].line, B[i].b)
         /\ B[i].line \in 1 .. Len(ls) /\ B[i].line \in Int /\ Code(B[i]) \in Int
         /\ Code(B[i]) > 4 * (B[i].line - 1) /\ Code(B[i]) <= 4 * B[i].line
         /\ Code(B[i]) = 4 * (B[i].line - 1) + SideNo(B[i].b)
         /\ B[i].b \in Sides
<1>1. B[i] \in Raw
  BY ElementOfSeq DEF BytesOK
<1>2. B[i] = Piece(B[i].line, B[i].b) /\ B[i].line \in Int
  BY <1>1 DEF Raw, Piece
<1>3. B[i].line \in 1 .. Len(ls) /\ B[i].b \in Sides
  BY DEF BytesOK
<1>4. SideNo(B[i].b) \in 1 .. 4
  BY DEF SideNo
<1>5. QED
  BY <1>1, <1>2, <1>3, <1>4 DEF Code

(* The piece with the next code is the next piece. *)
LEMMA NextCode ==
  ASSUME NEW ls, NEW B, BytesOK(ls, B), NEW i \in 1 .. Len(B), NEW j \in 1 .. Len(B),
         Code(B[j]) = Code(B[i]) + 1
  PROVE  j = i + 1
<1>1. \A a \in 1 .. Len(B) : Code(B[a]) \in Int
  BY ByteFacts
<1>2. \A a, b \in 1 .. Len(B) : a < b => Code(B[a]) < Code(B[b])
  BY DEF BytesOK
<1>3. Len(B) \in Nat /\ i \in Nat /\ j \in Nat
  BY DEF BytesOK
<1>4. ~ (j < i) /\ j # i
  BY <1>1, <1>2
<1>5. ~ (i + 1 < j)
  <2> SUFFICES ASSUME i + 1 < j PROVE FALSE
    OBVIOUS
  <2>1. i + 1 \in 1 .. Len(B) /\ i < i + 1
    BY <1>3
  <2>2. Code(B[i]) < Code(B[i + 1]) /\ Code(B[i + 1]) < Code(B[j])
    BY <1>2, <2>1
  <2>3. QED
    BY <1>1, <2>1, <2>2
<1>6. QED
  BY <1>3, <1>4, <1>5

(* A head is followed by its tail, and a tail follows its head. *)
LEMMA HeadAndTail ==
  ASSUME NEW ls, NEW B, BytesOK(ls, B), NEW i \in 1 .. Len(B)
  PROVE  /\ B[i].b = "head" =>
              i + 1 \in 1 .. Len(B) /\ B[i + 1] = Piece(B[i].line, "tail")
         /\ B[i].b = "tail" =>
              i - 1 \in 1 .. Len(B) /\ B[i - 1] = Piece(B[i].line, "head")
<1> DEFINE l == B[i].line
<1>1. l \in 1 .. Len(ls) /\ l \in Int /\ Code(B[i]) = 4 * (l - 1) + SideNo(B[i].b)
  BY ByteFacts
<1>2. Has(ls[l], B[i].b) /\ Len(B) \in Nat
  BY DEF BytesOK
<1>3. "head" \in Sides /\ "tail" \in Sides /\ SideNo("head") = 1 /\ SideNo("tail") = 2
  BY DEF Sides, SideNo
<1>4. \A b \in Sides : Has(ls[l], b) => \E j \in 1 .. Len(B) : B[j] = Piece(l, b)
  BY <1>1 DEF BytesOK
<1>5. \A b : Piece(l, b).line = l /\ Piece(l, b).b = b
  BY DEF Piece
<1> HIDE DEF l
<1>6. ASSUME B[i].b = "head"
      PROVE  i + 1 \in 1 .. Len(B) /\ B[i + 1] = Piece(l, "tail")
  <2>1. Has(ls[l], "tail")
    BY <1>2, <1>6 DEF Has
  <2>2. PICK j \in 1 .. Len(B) : B[j] = Piece(l, "tail")
    BY <1>3, <1>4, <2>1
  <2>3. Code(B[j]) = 4 * (l - 1) + 2 /\ Code(B[i]) = 4 * (l - 1) + 1
    BY <1>1, <1>3, <1>5, <1>6, <2>2 DEF Code
  <2>4. j = i + 1
    <3>1. Code(B[j]) = Code(B[i]) + 1
      BY <1>1, <2>3
    <3>2. QED
      BY <3>1, NextCode
  <2>5. QED
    BY <2>2, <2>4
<1>7. ASSUME B[i].b = "tail"
      PROVE  i - 1 \in 1 .. Len(B) /\ B[i - 1] = Piece(l, "head")
  <2>1. Has(ls[l], "head")
    BY <1>2, <1>7 DEF Has
  <2>2. PICK j \in 1 .. Len(B) : B[j] = Piece(l, "head")
    BY <1>3, <1>4, <2>1
  <2>3. Code(B[j]) = 4 * (l - 1) + 1 /\ Code(B[i]) = 4 * (l - 1) + 2
    BY <1>1, <1>3, <1>5, <1>7, <2>2 DEF Code
  <2>4. i = j + 1
    <3>1. Code(B[i]) = Code(B[j]) + 1
      BY <1>1, <2>3
    <3>2. QED
      BY <3>1, NextCode
  <2>5. j = i - 1
    BY <2>4
  <2>6. QED
    BY <2>2, <2>5
<1>8. QED
  BY <1>6, <1>7 DEF l

(* What comes up to the end of a line is of that line or an earlier one,   *)
(* what comes after it is of a later one.                                  *)
LEMMA UpToEnd ==
  ASSUME NEW ls, NEW B, BytesOK(ls, B), NEW i \in 1 .. Len(B), NEW j \in 1 .. Len(B),
         B[j].b = "lf"
  PROVE  i <= j <=> B[i].line <= B[j].line
<1> DEFINE a == Code(B[i])
           b == Code(B[j])
           l == B[i].line
           m == B[j].line
<1>1. /\ a \in Int /\ l \in Int /\ a > 4 * (l - 1) /\ a <= 4 * l
      /\ b \in Int /\ m \in Int /\ b = 4 * (m - 1) + 4
  <2>1. SideNo("lf") = 4
    BY DEF SideNo
  <2>2. QED
    BY <2>1, ByteFacts
<1>2. (i < j => a < b) /\ (j < i => b < a) /\ (i = j => a = b)
  BY DEF BytesOK
<1>3. i \in Int /\ j \in Int
  OBVIOUS
<1> HIDE DEF a, b, l, m
<1>4. i <= j => l <= m
  BY <1>1, <1>2, <1>3
<1>5. j < i => m < l
  BY <1>1, <1>2, <1>3
<1>6. QED
  BY <1>1, <1>3, <1>4, <1>5 DEF l, m

(* Of the first n pieces those up to e are the lines that have ended. *)
At(B, e, n) ==
  /\ n \in 0 .. Len(B) /\ e \in 0 .. n
  /\ e > 0 => B[e].b = "lf"
  /\ \A j \in e + 1 .. n : B[j].b # "lf"

LEMMA EndedUpTo ==
  ASSUME NEW ls, StreamOK(ls), NEW B, BytesOK(ls, B), NEW e, NEW n, At(B, e, n),
         NEW i \in 1 .. n
  PROVE  (\E k \in 1 .. n : B[k] = Piece(B[i].line, "lf")) <=> i <= e
<1>1. Len(B) \in Nat /\ n \in Nat /\ e \in Nat /\ n <= Len(B) /\ e <= n
  BY DEF At, BytesOK
<1>2. \A k \in 1 .. n : k \in 1 .. Len(B)
  BY <1>1
<1>3. \A l, b : Piece(l, b).line = l /\ Piece(l, b).b = b
  BY DEF Piece
<1>4. ASSUME NEW k \in 1 .. n, B[k] = Piece(B[i].line, "lf")
      PROVE  i <= e
  <2>1. B[k].b = "lf" /\ B[k].line = B[i].line
    BY <1>3, <1>4
  <2>2. k <= e
    <3>1. k \notin e + 1 .. n
      BY <2>1 DEF At
    <3>2. QED
      BY <1>1, <3>1
  <2>3. B[i].line \in Int
    BY <1>2, ByteFacts
  <2>4. i <= k
    <3>1. B[i].line <= B[k].line
      BY <2>1, <2>3
    <3>2. QED
      BY <1>2, <2>1, <3>1, UpToEnd
  <2>5. QED
    BY <1>1, <2>2, <2>4
<1>5. ASSUME i <= e
      PROVE  \E k \in 1 .. n : B[k] = Piece(B[i].line, "lf")
  <2> DEFINE l == B[i].line
             m == B[e].line
  <2>1. e \in 1 .. Len(B) /\ e \in 1 .. n /\ B[e].b = "lf"
    BY <1>1, <1>5 DEF At
  <2>2. l <= m /\ l \in 1 .. Len(ls) /\ m \in 1 .. Len(ls) /\ Len(ls) \in Nat
    BY <1>2, <1>5, <2>1, ByteFacts, UpToEnd DEF StreamOK
  <2>3. CASE l = m
    <3>1. B[e] = Piece(l, "lf")
      BY <2>1, <2>3, ByteFacts
    <3>2. QED
      BY <2>1, <3>1
  <2>4. CASE l # m
    <3> HIDE DEF l, m
    <3>1. l \in 1 .. Len(ls) - 1
      BY <2>2, <2>4
    <3>2. Has(ls[l], "lf") /\ "lf" \in Sides
      BY <3>1 DEF Has, Sides, StreamOK
    <3>3. PICK k \in 1 .. Len(B) : B[k] = Piece(l, "lf")
      BY <2>2, <3>2 DEF BytesOK
    <3>4. B[k].line = l
      BY <1>3, <3>3
    <3>5. k <= e
      BY <2>1, <2>2, <3>4, UpToEnd DEF m
    <3>6. k \in 1 .. n
      BY <1>1, <3>5
    <3>7. QED
      BY <3>3, <3>6 DEF l
  <2>5. QED
    BY <2>3, <2>4
<1>6. QED
  BY <1>4, <1>5

----------------------------------------------------------------------------
(* What is sent of lines that have ended *)

(* A part of the bytes between two ends of lines: it has both pieces of    *)
(* each of its lines.                                                      *)
Segment(c) ==
  /\ c \in Seq(Raw) /\ Len(c) \in Nat /\ DOMAIN c = 1 .. Len(c)
  /\ \A i \in 1 .. Len(c) :
       /\ c[i].line \in DOMAIN lines
       /\ c[i].b \in {"head", "tail"} => Whole(c, c[i].line)

(* The pieces of the lines ls that are written again, those written anew,  *)
(* and what is written for each.                                           *)
KeptIn(ls) == {p \in Raw : /\ p.b # "cr"
                           /\ ~ (ls[p.line].kind = "signed" /\ p.b = "tail")}
SignedIn(ls) == {p \in Raw : ls[p.line].kind = "signed" /\ p.b = "head"}
Anew(ls) == [p \in Raw |-> IF p \in SignedIn(ls) THEN Piece(p.line, "stripped") ELSE p]

(* The bytes c of the lines ls as the client should get them, but for \r.  *)
Clean(ls, c) == Through(Those(c, KeptIn(ls)), Anew(ls))

NoCrs == {p \in Pieces : p.b # "cr"}
Strippeds == {p \in Pieces : p.b = "stripped"}
LineOf == [p \in Pieces |-> p.line]

(* Bytes are pieces, and what is written for them. *)
LEMMA AnewFacts ==
  ASSUME NEW ls
  PROVE  /\ Raw \subseteq Pieces
         /\ \A p \in Raw : /\ Anew(ls)[p] \in Pieces
                           /\ Anew(ls)[p] \in NoCrs <=> p.b # "cr"
                           /\ Anew(ls)[p] \in Strippeds <=> p \in SignedIn(ls)
                           /\ LineOf[Anew(ls)[p]] = LineOf[p]
                           /\ p \notin SignedIn(ls) => Anew(ls)[p] = p
<1>1. Raw \subseteq Pieces
  BY DEF Raw, Pieces, Sides
<1>2. ASSUME NEW p \in Raw
      PROVE  /\ Anew(ls)[p] \in Pieces
             /\ Anew(ls)[p] \in NoCrs <=> p.b # "cr"
             /\ Anew(ls)[p] \in Strippeds <=> p \in SignedIn(ls)
             /\ LineOf[Anew(ls)[p]] = LineOf[p]
             /\ p \notin SignedIn(ls) => Anew(ls)[p] = p
  <2> DEFINE q == Piece(p.line, "stripped")
  <2>1. p \in Pieces /\ p.b \in Sides /\ p.line \in 1 .. MaxLines
    BY <1>1 DEF Raw
  <2>2. q \in Pieces /\ q.b = "stripped" /\ q.line = p.line
    BY <2>1 DEF Pieces, Piece
  <2>3. Anew(ls)[p] = IF p \in SignedIn(ls) THEN q ELSE p
    BY DEF Anew
  <2>4. p.b # "stripped"
    BY <2>1 DEF Sides
  <2>5. p \in SignedIn(ls) => p.b # "cr"
    BY DEF SignedIn
  <2> HIDE DEF q
  <2>6. CASE p \in SignedIn(ls)
    BY <2>1, <2>2, <2>3, <2>5, <2>6 DEF NoCrs, Strippeds, LineOf
  <2>7. CASE p \notin SignedIn(ls)
    BY <2>1, <2>3, <2>4, <2>7 DEF NoCrs, Strippeds, LineOf
  <2>8. QED
    BY <2>6, <2>7
<1>3. QED
  BY <1>1, <1>2

(* Where bytes are cut does not matter to what is made of them. *)
LEMMA CleanJoined ==
  ASSUME NEW ls, NEW s \in Seq(Raw), NEW u \in Seq(Raw)
  PROVE  Clean(ls, s \o u) = Clean(ls, s) \o Clean(ls, u)
<1> DEFINE K == KeptIn(ls)
           m == Anew(ls)
           a == Those(s, K)
           b == Those(u, K)
<1>1. Those(s \o u, K) = a \o b
  BY ThoseJoined
<1>2. a \in Seq(Raw) /\ b \in Seq(Raw)
  <2>1. a \in Seq(Raw)
    BY ThoseFacts
  <2>2. b \in Seq(Raw)
    BY ThoseFacts
  <2>3. QED
    BY <2>1, <2>2
<1>3. \A p \in Raw : m[p] \in Pieces
  BY AnewFacts
<1> HIDE DEF a, b, m
<1>4. Through(a \o b, m) = Through(a, m) \o Through(b, m)
  <2>1. Takes(m, Raw, Pieces)
    BY <1>3 DEF Takes
  <2>2. OneByOne(a, b, m)
    BY <1>2, <2>1, ThroughJoined, Zenon
  <2>3. QED
    BY <2>2 DEF OneByOne
<1>5. QED
  BY <1>1, <1>4 DEF Clean, a, b, m

(* In a segment a line is taken for signed if it is. *)
LEMMA SegmentSigned ==
  ASSUME NEW c, Segment(c), NEW i \in 1 .. Len(c), c[i].b \in {"head", "tail"}
  PROVE  Signed(c, c[i].line) <=> lines[c[i].line].kind = "signed"
BY DEF Segment, Signed

(* What is written again of a segment, and which signatures are cached. *)
LEMMA SegmentKept ==
  ASSUME NEW c, Segment(c)
  PROVE  /\ Kept(c) = Those(c, KeptIn(lines))
         /\ SignedHeads(c) = Those(c, SignedIn(lines))
         /\ SignedLines(c) = Through(Those(c, SignedIn(lines)), LineOf)
         /\ SignedLines(c) \in Seq(1 .. MaxLines)
<1>1. DOMAIN c = 1 .. Len(c) /\ c \in Seq(Raw) /\ \A i \in 1 .. Len(c) : c[i] \in Raw
  BY ElementOfSeq DEF Segment
<1>2. \A i \in DOMAIN c :
        /\ (c[i].b # "cr" /\ (c[i].b = "tail" => ~ Signed(c, c[i].line)))
             <=> c[i] \in KeptIn(lines)
        /\ (c[i].b = "head" /\ Signed(c, c[i].line)) <=> c[i] \in SignedIn(lines)
  <2> SUFFICES ASSUME NEW i \in DOMAIN c
               PROVE  /\ (c[i].b # "cr" /\ (c[i].b = "tail" => ~ Signed(c, c[i].line)))
                           <=> c[i] \in KeptIn(lines)
                      /\ (c[i].b = "head" /\ Signed(c, c[i].line)) <=> c[i] \in SignedIn(lines)
    OBVIOUS
  <2>1. c[i] \in Raw
    BY <1>1
  <2>2. c[i].b \in {"head", "tail"} =>
          (Signed(c, c[i].line) <=> lines[c[i].line].kind = "signed")
    BY <1>1, SegmentSigned
  <2>3. QED
    BY <2>1, <2>2 DEF KeptIn, SignedIn
<1>3. Kept(c) = Those(c, KeptIn(lines))
  <2>1. {i \in DOMAIN c : /\ c[i].b # "cr"
                          /\ c[i].b = "tail" => ~ Signed(c, c[i].line)}
        = {i \in DOMAIN c : c[i] \in KeptIn(lines)}
    BY <1>2
  <2>2. QED
    BY <2>1 DEF Kept, Those
<1>4. SignedHeads(c) = Those(c, SignedIn(lines))
  <2>1. {i \in DOMAIN c : c[i].b = "head" /\ Signed(c, c[i].line)}
        = {i \in DOMAIN c : c[i] \in SignedIn(lines)}
    BY <1>2
  <2>2. QED
    BY <2>1 DEF SignedHeads, Those
<1> DEFINE h == Those(c, SignedIn(lines))
<1>5. h \in Seq(Raw)
  BY <1>1, ThoseFacts
<1>6. \A p \in Raw : LineOf[p] \in 1 .. MaxLines /\ LineOf[p] = p.line
  BY AnewFacts DEF LineOf, Raw
<1> HIDE DEF h
<1>7. SignedLines(c) = Through(h, LineOf)
  <2>1. DOMAIN h = 1 .. Len(h) /\ \A i \in 1 .. Len(h) : h[i] \in Raw
    BY <1>5, LenProperties, ElementOfSeq
  <2>2. SignedLines(c) = [i \in DOMAIN h |-> h[i].line]
    BY <1>4 DEF SignedLines, h
  <2>3. \A i \in DOMAIN h : h[i].line = LineOf[h[i]]
    BY <1>6, <2>1
  <2>4. QED
    BY <2>2, <2>3 DEF Through
<1>8. SignedLines(c) \in Seq(1 .. MaxLines)
  <2>1. \A p \in Raw : LineOf[p] \in 1 .. MaxLines
    BY <1>6
  <2>2. Through(h, LineOf) \in Seq(1 .. MaxLines)
    BY <1>5, <2>1, ThroughFacts
  <2>3. QED
    BY <1>7, <2>2
<1>9. QED
  BY <1>3, <1>4, <1>7, <1>8 DEF h

(* A segment without the marker has no signed line. *)
LEMMA SegmentUnmarked ==
  ASSUME NEW c, Segment(c), ~ Marked(c), NEW i \in 1 .. Len(c)
  PROVE  /\ c[i] \notin SignedIn(lines)
         /\ c[i] \in KeptIn(lines) <=> c[i].b # "cr"
<1>1. c[i] \in Raw /\ c[i].line \in DOMAIN lines
  BY ElementOfSeq DEF Segment
<1>2. c[i].b \in {"head", "tail"} => lines[c[i].line].kind # "signed"
  BY <1>1 DEF Segment, Marked
<1>3. QED
  BY <1>1, <1>2 DEF SignedIn, KeptIn

(* A segment with the marker is written anew. *)
LEMMA SegmentMarked ==
  ASSUME NEW c, Segment(c), Marked(c)
  PROVE  Transform(c) = Clean(lines, c)
<1> DEFINE k == Those(c, KeptIn(lines))
<1>1. c \in Seq(Raw)
  BY DEF Segment
<1>2. k \in Seq(Raw) /\ \A n \in 1 .. Len(k) : \E i \in 1 .. Len(c) : k[n] = c[i]
  BY <1>1, ThoseFacts
<1> HIDE DEF k
<1>3. DOMAIN k = 1 .. Len(k) /\ \A n \in 1 .. Len(k) : k[n] \in Raw
  BY <1>2, LenProperties, ElementOfSeq
<1>4. Transform(c) = [n \in DOMAIN k |-> Rewrite(c, k[n])]
  BY SegmentKept DEF Transform, k
<1>5. ASSUME NEW n \in DOMAIN k PROVE Rewrite(c, k[n]) = Anew(lines)[k[n]]
  <2>1. PICK i \in 1 .. Len(c) : k[n] = c[i]
    BY <1>2, <1>3
  <2>2. k[n] \in Raw
    BY <1>3
  <2>3. k[n].b = "head" =>
          (Signed(c, k[n].line) <=> lines[k[n].line].kind = "signed")
    BY <2>1, SegmentSigned
  <2>4. (k[n].b = "head" /\ Signed(c, k[n].line)) <=> k[n] \in SignedIn(lines)
    BY <2>2, <2>3 DEF SignedIn
  <2>5. QED
    BY <2>2, <2>4 DEF Rewrite, Anew
<1>6. QED
  BY <1>4, <1>5 DEF Clean, Through, k

(* What the client gets for a segment: its lines in order, but for \r, and *)
(* no signature but those that are cached.                                 *)
LEMMA SegmentSent ==
  ASSUME NEW c, Segment(c)
  PROVE  /\ Transform(c) \in Seq(Pieces)
         /\ Those(Transform(c), NoCrs) = Clean(lines, c)
         /\ Through(Those(Transform(c), Strippeds), LineOf) = SignedLines(c)
<1> DEFINE K == KeptIn(lines)
           H == SignedIn(lines)
           m == Anew(lines)
           k == Those(c, K)
           h == Those(c, H)
<1>1. c \in Seq(Raw) /\ c \in Seq(Pieces) /\ \A i \in 1 .. Len(c) : c[i] \in Raw
  <2>1. c \in Seq(Raw)
    BY DEF Segment
  <2>2. QED
    BY <2>1, AnewFacts, SeqMonotonic, ElementOfSeq
<1>2. SignedLines(c) = Through(h, LineOf)
  BY SegmentKept
<1>3. /\ \A p \in Raw : m[p] \in Pieces
      /\ \A p \in Raw : m[p] \in NoCrs <=> p \in {q \in Raw : q.b # "cr"}
      /\ \A p \in Raw : m[p] \in Strippeds <=> p \in H
      /\ \A p \in Raw : LineOf[p] = LineOf[m[p]]
      /\ \A p \in Raw : p \notin H => m[p] = p
  BY AnewFacts
<1>4. k \in Seq(Raw) /\ h \in Seq(Raw)
  <2>1. k \in Seq(Raw)
    BY <1>1, ThoseFacts
  <2>2. h \in Seq(Raw)
    BY <1>1, ThoseFacts
  <2>3. QED
    BY <2>1, <2>2
<1>5. CASE Marked(c)
  <2>1. Transform(c) = Through(k, m)
    BY <1>5, SegmentMarked DEF Clean
  <2>2. Through(k, m) \in Seq(Pieces)
    <3> HIDE DEF k, m
    <3>1. QED
      BY <1>3, <1>4, ThroughFacts
  <2>3. Those(Through(k, m), NoCrs) = Through(k, m)
    <3> DEFINE N == {q \in Raw : q.b # "cr"}
    <3>1. Those(k, N) = k
      <4>1. Those(k, N) = Those(c, K \cap N)
        <5> HIDE DEF K, N
        <5>1. QED
          BY <1>1, ThoseTwice
      <4>2. K \cap N = K
        BY DEF KeptIn
      <4>3. QED
        BY <4>1, <4>2
    <3>2. Those(Through(k, m), NoCrs) = Through(Those(k, N), m)
      <4> HIDE DEF k, m, N
      <4>1. Takes(m, Raw, Pieces) /\ Brings(m, Raw, NoCrs, N)
        BY <1>3 DEF Takes, Brings, N
      <4>2. KeptBefore(k, m, NoCrs, N)
        BY <1>4, <4>1, ThoseThrough, Zenon
      <4>3. QED
        BY <4>2 DEF KeptBefore
    <3>3. QED
      BY <3>1, <3>2
  <2>4. Through(Those(Through(k, m), Strippeds), LineOf) = Through(h, LineOf)
    <3>1. Those(Through(k, m), Strippeds) = Through(Those(k, H), m)
      <4> HIDE DEF k, m, H
      <4>1. Takes(m, Raw, Pieces) /\ Brings(m, Raw, Strippeds, H)
        BY <1>3 DEF Takes, Brings
      <4>2. KeptBefore(k, m, Strippeds, H)
        BY <1>4, <4>1, ThoseThrough, Zenon
      <4>3. QED
        BY <4>2 DEF KeptBefore
    <3>2. Those(k, H) = h
      <4>1. Those(k, H) = Those(c, K \cap H)
        <5> HIDE DEF K, H
        <5>1. QED
          BY <1>1, ThoseTwice
      <4>2. K \cap H = H
        BY DEF KeptIn, SignedIn
      <4>3. QED
        BY <4>1, <4>2
    <3>3. Through(Through(h, m), LineOf) = Through(h, LineOf)
      <4> HIDE DEF h, m
      <4>1. Takes(m, Raw, Pieces) /\ Composes(LineOf, LineOf, m, Raw)
        BY <1>3 DEF Takes, Composes
      <4>2. AtOnce(h, m, LineOf, LineOf)
        BY <1>4, <4>1, ThroughTwice, Zenon
      <4>3. QED
        BY <4>2 DEF AtOnce
    <3>4. QED
      BY <3>1, <3>2, <3>3
  <2>5. QED
    BY <1>2, <2>1, <2>2, <2>3, <2>4 DEF Clean
<1>6. CASE ~ Marked(c)
  <2>1. Transform(c) = c
    BY <1>6 DEF Transform
  <2>2. \A i \in 1 .. Len(c) : c[i] \notin H /\ (c[i] \in K <=> c[i] \in NoCrs)
    <3> SUFFICES ASSUME NEW i \in 1 .. Len(c)
                 PROVE  c[i] \notin H /\ (c[i] \in K <=> c[i] \in NoCrs)
      OBVIOUS
    <3>1. c[i] \notin H /\ (c[i] \in K <=> c[i].b # "cr")
      BY <1>6, SegmentUnmarked
    <3>2. c[i] \in Pieces
      BY <1>1, AnewFacts
    <3>3. QED
      BY <3>1, <3>2 DEF NoCrs
  <2>3. Those(c, NoCrs) = k
    <3> HIDE DEF K
    <3>1. \A i \in 1 .. Len(c) : c[i] \in NoCrs <=> c[i] \in K
      BY <2>2
    <3>2. QED
      BY <1>1, <3>1, ThoseSame
  <2>4. Through(k, m) = k
    <3>1. \A n \in 1 .. Len(k) : \E i \in 1 .. Len(c) : k[n] = c[i]
      BY <1>1, ThoseFacts
    <3> HIDE DEF k, m, H
    <3>2. \A n \in 1 .. Len(k) : m[k[n]] = k[n]
      BY <1>1, <1>3, <2>2, <3>1
    <3>3. QED
      BY <1>4, <3>2, ThroughIdentity
  <2>5. h = << >>
    <3> HIDE DEF H
    <3>1. \A i \in 1 .. Len(c) : c[i] \notin H
      BY <2>2
    <3>2. QED
      BY <1>1, <3>1, ThoseNone
  <2>6. Those(c, Strippeds) = << >>
    <3>1. \A i \in 1 .. Len(c) : c[i] \notin Strippeds
      BY <1>1 DEF Raw, Sides, Strippeds
    <3>2. QED
      BY <1>1, <3>1, ThoseNone
  <2>7. QED
    BY <1>1, <1>2, <2>1, <2>3, <2>4, <2>5, <2>6 DEF Clean
<1>7. QED
  BY <1>5, <1>6

----------------------------------------------------------------------------
(* Parts of a sequence *)

(* The part after e up to f. *)
LEMMA PartFacts ==
  ASSUME NEW S, NEW B \in Seq(S), NEW e \in 0 .. Len(B), NEW f \in e .. Len(B)
  PROVE  /\ SubSeq(B, e + 1, f) \in Seq(S) /\ Len(SubSeq(B, e + 1, f)) = f - e
         /\ \A i \in 1 .. f - e : SubSeq(B, e + 1, f)[i] = B[e + i] /\ e + i \in 1 .. Len(B)
<1> DEFINE c == SubSeq(B, e + 1, f)
<1>1. /\ Len(B) \in Nat /\ e \in Int /\ f \in Int /\ e + 1 \in Int
      /\ \A i \in e + 1 .. f : B[i] \in S
  BY LenProperties, ElementOfSeq
<1>2. /\ c \in Seq(S)
      /\ Len(c) = IF e + 1 <= f THEN f - (e + 1) + 1 ELSE 0
      /\ \A i \in 1 .. f - (e + 1) + 1 : c[i] = B[(e + 1) + i - 1]
  BY <1>1, SubSeqProperties
<1> HIDE DEF c
<1>3. Len(c) = f - e
  BY <1>1, <1>2
<1>4. ASSUME NEW i \in 1 .. f - e PROVE c[i] = B[e + i] /\ e + i \in 1 .. Len(B)
  <2>1. (e + 1) + i - 1 = e + i /\ i \in 1 .. f - (e + 1) + 1 /\ e + i \in 1 .. Len(B)
    BY <1>1
  <2>2. QED
    BY <1>2, <2>1
<1>5. QED
  BY <1>2, <1>3, <1>4 DEF c

(* A part of a part. *)
LEMMA PartOfPart ==
  ASSUME NEW S, NEW B \in Seq(S), NEW e \in 0 .. Len(B), NEW f \in e .. Len(B),
         NEW g \in 0 .. f - e, NEW h \in g .. f - e
  PROVE  SubSeq(SubSeq(B, e + 1, f), g + 1, h) = SubSeq(B, e + g + 1, e + h)
<1> DEFINE c == SubSeq(B, e + 1, f)
           x == SubSeq(c, g + 1, h)
           y == SubSeq(B, e + g + 1, e + h)
<1>1. /\ c \in Seq(S) /\ Len(c) = f - e
      /\ \A i \in 1 .. f - e : c[i] = B[e + i] /\ e + i \in 1 .. Len(B)
  BY PartFacts
<1>2. Len(B) \in Nat
  BY LenProperties
<1> HIDE DEF c
<1>3. g \in 0 .. Len(c) /\ h \in g .. Len(c)
  BY <1>1
<1>4. x \in Seq(S) /\ Len(x) = h - g /\ \A i \in 1 .. h - g : x[i] = c[g + i]
  BY <1>1, <1>3, PartFacts
<1>5. e + g \in 0 .. Len(B) /\ e + h \in e + g .. Len(B)
  BY <1>2
<1>6. /\ y \in Seq(S) /\ Len(y) = (e + h) - (e + g)
      /\ \A i \in 1 .. (e + h) - (e + g) : y[i] = B[(e + g) + i]
  BY <1>5, PartFacts
<1> HIDE DEF x, y
<1>7. Len(x) = Len(y)
  BY <1>4, <1>6
<1>8. ASSUME NEW i \in 1 .. h - g PROVE x[i] = y[i]
  <2>1. g + i \in 1 .. f - e /\ e + (g + i) = (e + g) + i /\ i \in 1 .. (e + h) - (e + g)
    BY <1>2
  <2>2. QED
    BY <1>1, <1>4, <1>6, <2>1
<1>9. x = y
  BY <1>4, <1>6, <1>7, <1>8, SeqEqual
<1>10. QED
  BY <1>9 DEF c, x, y

(* The last end of a line: the greatest place that has one, or none. *)
LEMMA LastLfFacts ==
  ASSUME NEW c \in Seq(Raw)
  PROVE  /\ LastLf(c) \in 0 .. Len(c)
         /\ LastLf(c) > 0 => c[LastLf(c)].b = "lf"
         /\ \A j \in LastLf(c) + 1 .. Len(c) : c[j].b # "lf"
<1> DEFINE n == Len(c)
           E == {i \in 1 .. n : c[i].b = "lf"}
           After == {n - i : i \in E}
           k == LastLf(c)
<1>1. n \in Nat /\ DOMAIN c = 1 .. n
  BY LenProperties
<1> HIDE DEF n
<1>2. CASE E = {}
  <2>1. k = 0
    BY <1>1, <1>2 DEF LastLf
  <2> HIDE DEF k
  <2>2. QED
    BY <1>1, <1>2, <2>1 DEF k, n
<1>3. CASE E # {}
  <2>1. After \in SUBSET Nat /\ After # {}
    BY <1>1, <1>3
  <2>2. PICK d \in After : \A o \in After : d <= o
    <3> HIDE DEF After
    <3>1. QED
      BY <2>1, LeastOf
  <2>3. PICK i \in E : d = n - i
    OBVIOUS
  <2>4. ASSUME NEW j \in E PROVE j <= i
    <3>1. d <= n - j
      BY <2>2
    <3>2. i \in Int /\ j \in Int /\ n - i <= n - j
      BY <1>1, <2>3, <3>1
    <3>3. QED
      BY <1>1, <3>2
  <2>5. i \in DOMAIN c /\ c[i].b = "lf" /\ \A j \in i + 1 .. Len(c) : c[j].b # "lf"
    <3>1. \A j \in i + 1 .. n : j \in 1 .. n /\ ~ (j <= i)
      BY <1>1
    <3>2. QED
      BY <1>1, <2>4, <3>1 DEF n
  <2>6. k = CHOOSE h \in DOMAIN c :
              c[h].b = "lf" /\ \A j \in h + 1 .. Len(c) : c[j].b # "lf"
    BY <2>5 DEF LastLf
  <2> HIDE DEF k
  <2>7. k \in DOMAIN c /\ c[k].b = "lf" /\ \A j \in k + 1 .. Len(c) : c[j].b # "lf"
    BY <2>5, <2>6
  <2>8. QED
    BY <1>1, <2>7 DEF k, n
<1>4. QED
  BY <1>2, <1>3

(* Between two ends of lines there are only whole lines. *)
EndAt(B, e) == e \in 0 .. Len(B) /\ (e > 0 => B[e].b = "lf")

LEMMA SegmentIs ==
  ASSUME StreamOK(lines), NEW B, BytesOK(lines, B), NEW e, EndAt(B, e), NEW f, EndAt(B, f),
         e <= f
  PROVE  Segment(SubSeq(B, e + 1, f))
<1> DEFINE c == SubSeq(B, e + 1, f)
<1>1. B \in Seq(Raw) /\ Len(B) \in Nat /\ e \in 0 .. Len(B) /\ f \in e .. Len(B)
  BY DEF BytesOK, EndAt
<1>2. /\ c \in Seq(Raw) /\ Len(c) = f - e
      /\ \A i \in 1 .. f - e : c[i] = B[e + i] /\ e + i \in 1 .. Len(B)
  BY <1>1, PartFacts
<1>3. DOMAIN c = 1 .. Len(c) /\ Len(c) \in Nat
  BY <1>2, LenProperties
<1> HIDE DEF c
<1>4. ASSUME NEW i \in 1 .. Len(c) PROVE c[i].line \in DOMAIN lines
  <2>1. c[i] = B[e + i] /\ e + i \in 1 .. Len(B)
    BY <1>2
  <2>2. B[e + i].line \in 1 .. Len(lines)
    BY <2>1, ByteFacts
  <2>3. QED
    BY <2>1, <2>2 DEF StreamOK
<1>5. ASSUME NEW i \in 1 .. Len(c), c[i].b = "head" PROVE Whole(c, c[i].line)
  <2>1. c[i] = B[e + i] /\ e + i \in 1 .. Len(B)
    BY <1>2
  <2>2. (e + i) + 1 \in 1 .. Len(B) /\ B[(e + i) + 1] = Piece(c[i].line, "tail")
    BY <1>5, <2>1, HeadAndTail
  <2>3. c[i] = Piece(c[i].line, "head")
    BY <1>5, <2>1, ByteFacts
  <2>4. e + i # f
    <3>1. SUFFICES ASSUME e + i = f PROVE FALSE
      OBVIOUS
    <3>2. f > 0
      BY <1>1, <3>1
    <3>3. B[f].b = "lf"
      BY <3>2 DEF EndAt
    <3>4. QED
      BY <1>5, <2>1, <3>1, <3>3
  <2>5. i \in 1 .. Len(c) - 1 /\ i + 1 \in 1 .. f - e /\ (e + i) + 1 = e + (i + 1)
    BY <1>1, <1>2, <2>4
  <2>6. c[i + 1] = Piece(c[i].line, "tail")
    BY <1>2, <2>2, <2>5
  <2>7. QED
    BY <2>3, <2>5, <2>6 DEF Whole
<1>6. ASSUME NEW i \in 1 .. Len(c), c[i].b = "tail" PROVE Whole(c, c[i].line)
  <2>1. c[i] = B[e + i] /\ e + i \in 1 .. Len(B)
    BY <1>2
  <2>2. (e + i) - 1 \in 1 .. Len(B) /\ B[(e + i) - 1] = Piece(c[i].line, "head")
    BY <1>6, <2>1, HeadAndTail
  <2>3. c[i] = Piece(c[i].line, "tail")
    BY <1>6, <2>1, ByteFacts
  <2>4. i # 1
    <3>1. SUFFICES ASSUME i = 1 PROVE FALSE
      OBVIOUS
    <3>2. (e + i) - 1 = e /\ e > 0
      BY <1>1, <2>2, <3>1
    <3>3. B[e].b = "lf" /\ B[e].b = "head"
      BY <2>2, <3>2 DEF EndAt, Piece
    <3>4. QED
      BY <3>3
  <2>5. i - 1 \in 1 .. Len(c) - 1 /\ i - 1 \in 1 .. f - e /\ (e + i) - 1 = e + (i - 1)
        /\ (i - 1) + 1 = i
    BY <1>1, <1>2, <2>4
  <2>6. c[i - 1] = Piece(c[i].line, "head")
    BY <1>2, <2>2, <2>5
  <2>7. QED
    BY <2>3, <2>5, <2>6 DEF Whole
<1>7. QED
  BY <1>2, <1>3, <1>4, <1>5, <1>6 DEF Segment, c

----------------------------------------------------------------------------
(* The inductive invariant *)

(* Of the n bytes of the lines ls that have come, those up to the end of   *)
(* a line have gone out, clean, and the rest is kept back; what has been   *)
(* taken out is cached.                                                    *)
Passed(ls, n, kept, gone, e) ==
  /\ At(BytesOf(ls), e, n)
  /\ kept = SubSeq(BytesOf(ls), e + 1, n)
  /\ Those(gone, NoCrs) = Clean(ls, SubSeq(BytesOf(ls), 1, e))

InvOf(ls, n, kept, gone, put) ==
  /\ ls \in Streams /\ n \in 0 .. Len(BytesOf(ls))
  /\ gone \in Seq(Pieces) /\ put \in Seq(1 .. MaxLines)
  /\ \E e \in 0 .. n : Passed(ls, n, kept, gone, e)
  /\ put = Through(Those(gone, Strippeds), LineOf)

Inv ==
  /\ InvOf(lines, sent, pending, out, cached)
  /\ phase \in {"open", "flushed", "ended", "failed"}

(* What goes out between two ends of lines and what is cached for it. *)
LEMMA SegmentPassed ==
  ASSUME NEW c, Segment(c), NEW gone \in Seq(Pieces)
  PROVE  /\ gone \o Transform(c) \in Seq(Pieces)
         /\ Those(gone \o Transform(c), NoCrs) = Those(gone, NoCrs) \o Clean(lines, c)
         /\ Through(Those(gone \o Transform(c), Strippeds), LineOf)
              = Through(Those(gone, Strippeds), LineOf) \o SignedLines(c)
<1> DEFINE t == Transform(c)
           x == Those(gone, Strippeds)
           y == Those(t, Strippeds)
<1>1. /\ t \in Seq(Pieces) /\ Those(t, NoCrs) = Clean(lines, c)
      /\ Through(y, LineOf) = SignedLines(c)
  BY SegmentSent
<1>2. x \in Seq(Pieces)
  BY ThoseFacts
<1>3. y \in Seq(Pieces)
  <2> HIDE DEF t
  <2>1. QED
    BY <1>1, ThoseFacts
<1>4. ASSUME NEW K PROVE Those(gone \o t, K) = Those(gone, K) \o Those(t, K)
  <2>1. t \in Seq(Pieces)
    BY <1>1
  <2> HIDE DEF t, x, y
  <2>2. QED
    BY <2>1, ThoseJoined
<1>5. Those(gone \o t, Strippeds) = x \o y
  BY <1>4
<1>6. gone \o t \in Seq(Pieces)
  <2> HIDE DEF t
  <2>1. QED
    BY <1>1, ConcatProperties
<1> HIDE DEF t, x, y
<1>7. Through(x \o y, LineOf) = Through(x, LineOf) \o Through(y, LineOf)
  <2>1. Takes(LineOf, Pieces, 1 .. MaxLines)
    BY DEF Takes, LineOf, Pieces
  <2>2. OneByOne(x, y, LineOf)
    BY <1>2, <1>3, <2>1, ThroughJoined, Zenon
  <2>3. QED
    BY <2>2 DEF OneByOne
<1>8. QED
  BY <1>1, <1>4, <1>5, <1>6, <1>7 DEF t, x, y

(* At the start nothing has come. *)
LEMMA InitInv == Init => Inv
<1> SUFFICES ASSUME Init PROVE Inv
  OBVIOUS
<1> DEFINE B == BytesOf(lines)
<1>1. /\ lines \in Streams /\ sent = 0 /\ pending = << >> /\ out = << >>
      /\ cached = << >> /\ phase = "open"
  BY DEF Init
<1>2. B \in Seq(Raw) /\ Len(B) \in Nat
  BY <1>1, StreamsAre, BytesAre DEF BytesOK
<1> HIDE DEF B
<1>3. At(B, 0, 0)
  BY <1>2 DEF At
<1>4. SubSeq(B, 1, 0) = << >> /\ SubSeq(B, 0 + 1, 0) = << >>
  BY SubSeqEmpty
<1>5. /\ << >> \in Seq(Pieces) /\ << >> \in Seq(Raw) /\ << >> \in Seq(1 .. MaxLines)
      /\ Len(<< >>) = 0
  BY EmptySeq
<1>6. ASSUME NEW K PROVE Those(<< >>, K) = << >>
  <2>1. \A i \in 1 .. Len(<< >>) : << >>[i] \notin K
    BY <1>5
  <2>2. QED
    BY <1>5, <2>1, ThoseNone
<1>7. \A m : Through(<< >>, m) = << >>
  BY DEF Through
<1>8. Those(out, NoCrs) = Clean(lines, SubSeq(B, 1, 0))
  BY <1>1, <1>4, <1>6, <1>7 DEF Clean
<1>9. Passed(lines, 0, pending, out, 0)
  BY <1>1, <1>3, <1>4, <1>8 DEF Passed, B
<1>10. cached = Through(Those(out, Strippeds), LineOf)
  BY <1>1, <1>6, <1>7
<1>11. InvOf(lines, sent, pending, out, cached)
  BY <1>1, <1>2, <1>5, <1>9, <1>10 DEF InvOf, B
<1>12. QED
  BY <1>1, <1>11 DEF Inv

(* However many bytes come with a chunk, what is passed is whole lines, and *)
(* what is kept back is what comes after them.                              *)
LEMMA PassStep ==
  ASSUME InvOf(lines, sent, pending, out, cached),
         NEW n \in Nat, sent + n <= Len(Bytes),
         Pass(SubSeq(Bytes, sent + 1, sent + n))
  PROVE  InvOf(lines, sent + n, pending', out', cached')
<1> DEFINE B == BytesOf(lines)
           N == sent + n
<1>1. StreamOK(lines) /\ BytesOK(lines, B) /\ B \in Seq(Raw) /\ Len(B) \in Nat
  BY StreamsAre, BytesAre DEF InvOf, BytesOK
<1>2. sent \in 0 .. Len(B) /\ N \in 0 .. Len(B)
  BY <1>1 DEF InvOf, Bytes
<1>3. PICK e \in 0 .. sent : Passed(lines, sent, pending, out, e)
  BY DEF InvOf
<1>4. /\ At(B, e, sent) /\ pending = SubSeq(B, e + 1, sent)
      /\ Those(out, NoCrs) = Clean(lines, SubSeq(B, 1, e))
  BY <1>3 DEF Passed
<1>5. out \in Seq(Pieces) /\ cached = Through(Those(out, Strippeds), LineOf)
  BY DEF InvOf
<1> DEFINE chunk == SubSeq(B, sent + 1, N)
           c == pending \o chunk
<1>6. /\ pending' = Remaining(c)
      /\ out' = out \o Transform(Complete(c))
      /\ cached' = cached \o SignedLines(Complete(c))
  BY DEF Pass, Bytes
<1>7. lines \in Streams
  BY DEF InvOf
<1> HIDE DEF B, N
<1>8. e \in Nat /\ e <= sent /\ sent <= N /\ N <= Len(B) /\ sent \in Nat /\ N \in Nat
  BY <1>1, <1>2 DEF N
<1>9. c = SubSeq(B, e + 1, N)
  <2>1. e + 1 \in 1 .. Len(B) + 1 /\ sent \in (e + 1) - 1 .. Len(B) /\ N \in sent .. Len(B)
    BY <1>1, <1>8
  <2>2. SubSeq(B, e + 1, sent) \o SubSeq(B, sent + 1, N) = SubSeq(B, e + 1, N)
    BY <1>1, <2>1, ConcatAdjacentSubSeq
  <2>3. QED
    BY <1>4, <2>2
<1> HIDE DEF c
<1>10. e \in 0 .. Len(B) /\ N \in e .. Len(B)
  BY <1>1, <1>8
<1>11. /\ c \in Seq(Raw) /\ Len(c) = N - e
       /\ \A i \in 1 .. N - e : c[i] = B[e + i] /\ e + i \in 1 .. Len(B)
  BY <1>1, <1>9, <1>10, PartFacts
<1> DEFINE k == LastLf(c)
           f == e + k
<1>12. /\ k \in 0 .. N - e /\ (k > 0 => c[k].b = "lf")
       /\ \A j \in k + 1 .. N - e : c[j].b # "lf"
  BY <1>11, LastLfFacts
<1>13. Complete(c) = SubSeq(c, 1, k) /\ Remaining(c) = SubSeq(c, k + 1, N - e)
  BY <1>11 DEF Complete, Remaining
<1> HIDE DEF k
<1>14. f \in 0 .. N /\ f \in e .. Len(B) /\ f - e = k /\ e <= f
  BY <1>8, <1>12
<1>15. Complete(c) = SubSeq(B, e + 1, f)
  <2>1. 0 \in 0 .. N - e /\ k \in 0 .. N - e
    BY <1>8, <1>12
  <2>2. SubSeq(SubSeq(B, e + 1, N), 0 + 1, k) = SubSeq(B, e + 0 + 1, e + k)
    BY <1>1, <1>10, <2>1, PartOfPart
  <2>3. 0 + 1 = 1 /\ e + 0 + 1 = e + 1
    BY <1>8
  <2>4. QED
    BY <1>9, <1>13, <2>2, <2>3
<1>16. Remaining(c) = SubSeq(B, f + 1, N)
  <2>1. N - e \in k .. N - e /\ e + (N - e) = N
    BY <1>8, <1>12
  <2>2. SubSeq(SubSeq(B, e + 1, N), k + 1, N - e) = SubSeq(B, e + k + 1, e + (N - e))
    BY <1>1, <1>10, <1>12, <2>1, PartOfPart
  <2>3. QED
    BY <1>9, <1>13, <2>1, <2>2
<1>17. At(B, f, N)
  <2>1. ASSUME f > 0 PROVE B[f].b = "lf"
    <3>1. CASE k = 0
      <4>1. f = e
        BY <1>8, <3>1
      <4>2. QED
        BY <1>4, <2>1, <4>1 DEF At
    <3>2. CASE k > 0
      <4>1. k \in 1 .. N - e
        BY <1>12, <3>2
      <4>2. QED
        BY <1>11, <1>12, <3>2, <4>1
    <3>3. QED
      BY <1>12, <3>1, <3>2
  <2>2. ASSUME NEW j \in f + 1 .. N PROVE B[j].b # "lf"
    <3>1. /\ j - e \in k + 1 .. N - e /\ j - e \in 1 .. N - e /\ e + (j - e) = j
      BY <1>8, <1>12
    <3>2. QED
      BY <1>11, <1>12, <3>1
  <2>3. QED
    BY <1>1, <1>2, <1>14, <2>1, <2>2 DEF At
<1>18. Segment(Complete(c))
  <2>1. EndAt(B, e)
    BY <1>4, <1>10 DEF At, EndAt
  <2>2. EndAt(B, f)
    BY <1>14, <1>17 DEF At, EndAt
  <2> HIDE DEF f
  <2>3. QED
    BY <1>1, <1>14, <1>15, <2>1, <2>2, SegmentIs
<1> HIDE DEF f
<1>19. /\ out' \in Seq(Pieces)
       /\ Those(out', NoCrs) = Those(out, NoCrs) \o Clean(lines, Complete(c))
       /\ Through(Those(out', Strippeds), LineOf)
            = Through(Those(out, Strippeds), LineOf) \o SignedLines(Complete(c))
  BY <1>5, <1>6, <1>18, SegmentPassed
<1>20. Those(out', NoCrs) = Clean(lines, SubSeq(B, 1, f))
  <2>1. /\ 1 \in 1 .. Len(B) + 1 /\ e \in 1 - 1 .. Len(B) /\ f \in e .. Len(B)
    BY <1>1, <1>8, <1>14
  <2>2. SubSeq(B, 1, e) \o SubSeq(B, e + 1, f) = SubSeq(B, 1, f)
    BY <1>1, <2>1, ConcatAdjacentSubSeq
  <2>3. SubSeq(B, 0 + 1, e) \in Seq(Raw) /\ 0 + 1 = 1
    <3>1. 0 \in 0 .. Len(B) /\ e \in 0 .. Len(B)
      BY <1>1, <1>8
    <3>2. QED
      BY <1>1, <3>1, PartFacts
  <2>4. SubSeq(B, e + 1, f) \in Seq(Raw)
    BY <1>1, <1>10, <1>14, PartFacts
  <2>5. Clean(lines, SubSeq(B, 1, e) \o SubSeq(B, e + 1, f))
        = Clean(lines, SubSeq(B, 1, e)) \o Clean(lines, SubSeq(B, e + 1, f))
    <3> DEFINE s == SubSeq(B, 1, e)
               u == SubSeq(B, e + 1, f)
    <3>1. s \in Seq(Raw) /\ u \in Seq(Raw)
      BY <2>3, <2>4
    <3> HIDE DEF s, u
    <3>2. Clean(lines, s \o u) = Clean(lines, s) \o Clean(lines, u)
      BY <3>1, CleanJoined, Zenon
    <3>3. QED
      BY <3>2 DEF s, u
  <2>6. QED
    BY <1>4, <1>15, <1>19, <2>2, <2>5
<1>21. Passed(lines, N, pending', out', f)
  BY <1>6, <1>16, <1>17, <1>20 DEF Passed, B
<1>22. cached' = Through(Those(out', Strippeds), LineOf)
  BY <1>5, <1>6, <1>19
<1>23. cached' \in Seq(1 .. MaxLines)
  <2>1. cached \in Seq(1 .. MaxLines)
    BY DEF InvOf
  <2>2. SignedLines(Complete(c)) \in Seq(1 .. MaxLines)
    BY <1>18, SegmentKept
  <2>3. QED
    BY <1>6, <2>1, <2>2, ConcatProperties
<1>24. QED
  BY <1>2, <1>7, <1>14, <1>19, <1>21, <1>22, <1>23 DEF InvOf, N, B

(* No step breaks the invariant. *)
LEMMA NextInv == Inv /\ [Next]_vars => Inv'
<1> SUFFICES ASSUME Inv, [Next]_vars PROVE Inv'
  OBVIOUS
<1>1. InvOf(lines, sent, pending, out, cached)
      /\ phase \in {"open", "flushed", "ended", "failed"}
  BY DEF Inv
<1>2. ASSUME NEW n \in 1 .. Len(Bytes), Chunk(n) PROVE Inv'
  <2>1. /\ n \in Nat /\ sent + n <= Len(Bytes) /\ sent' = sent + n /\ lines' = lines
        /\ phase' = phase /\ Pass(SubSeq(Bytes, sent + 1, sent + n))
    BY <1>2 DEF Chunk
  <2>2. InvOf(lines, sent + n, pending', out', cached')
    BY <1>1, <2>1, PassStep
  <2>3. QED
    BY <1>1, <2>1, <2>2 DEF Inv
<1>3. CASE Flush
  <2>1. sent \in Nat /\ sent = Len(Bytes)
    <3>1. Len(Bytes) \in Nat /\ sent \in 0 .. Len(Bytes)
      BY <1>1, StreamsAre, BytesAre DEF InvOf, Bytes, BytesOK
    <3>2. QED
      BY <1>3, <3>1 DEF Flush
  <2>2. /\ 0 \in Nat /\ sent + 0 <= Len(Bytes) /\ sent + 0 = sent
    BY <2>1
  <2>3. SubSeq(Bytes, sent + 1, sent + 0) = << >>
    <3>1. sent + 1 \in Int /\ sent + 0 \in Int /\ sent + 0 < sent + 1
      BY <2>1
    <3>2. QED
      BY <3>1, SubSeqEmpty
  <2>4. Pass(SubSeq(Bytes, sent + 1, sent + 0))
    BY <1>3, <2>3 DEF Flush
  <2>5. InvOf(lines, sent + 0, pending', out', cached')
    BY <1>1, <2>2, <2>4, PassStep
  <2>6. QED
    BY <1>3, <2>2, <2>5 DEF Inv, Flush
<1>4. CASE Fail
  BY <1>1, <1>4 DEF Fail, Inv
<1>5. CASE End
  BY <1>1, <1>5 DEF End, Inv
<1>6. CASE UNCHANGED vars
  BY <1>1, <1>6 DEF vars, Inv
<1>7. QED
  BY <1>2, <1>3, <1>4, <1>5, <1>6 DEF Next

(* What the invariant says of the bytes that have come. *)
LEMMA WhatHasCome ==
  ASSUME Inv
  PROVE  /\ StreamOK(lines) /\ BytesOK(lines, Bytes)
         /\ sent \in 0 .. Len(Bytes) /\ Len(Bytes) \in Nat
         /\ Received \in Seq(Raw) /\ Len(Received) = sent /\ DOMAIN Received = 1 .. sent
         /\ \A i \in 1 .. sent : Received[i] = Bytes[i] /\ i \in 1 .. Len(Bytes)
         /\ out \in Seq(Pieces)
<1>1. StreamOK(lines) /\ BytesOK(lines, Bytes) /\ sent \in 0 .. Len(Bytes)
  BY StreamsAre, BytesAre DEF Inv, InvOf, Bytes
<1>2. Bytes \in Seq(Raw) /\ Len(Bytes) \in Nat
  BY <1>1 DEF BytesOK
<1>3. /\ SubSeq(Bytes, 0 + 1, sent) \in Seq(Raw) /\ Len(SubSeq(Bytes, 0 + 1, sent)) = sent - 0
      /\ \A i \in 1 .. sent - 0 :
           SubSeq(Bytes, 0 + 1, sent)[i] = Bytes[0 + i] /\ 0 + i \in 1 .. Len(Bytes)
  <2>1. 0 \in 0 .. Len(Bytes) /\ sent \in 0 .. Len(Bytes)
    BY <1>1, <1>2
  <2>2. QED
    BY <1>2, <2>1, PartFacts
<1>4. sent - 0 = sent /\ 0 + 1 = 1 /\ \A i \in 1 .. sent : 0 + i = i
  BY <1>1, <1>2
<1>5. /\ Received \in Seq(Raw) /\ Len(Received) = sent
      /\ \A i \in 1 .. sent : Received[i] = Bytes[i] /\ i \in 1 .. Len(Bytes)
  BY <1>3, <1>4 DEF Received
<1>6. DOMAIN Received = 1 .. sent
  BY <1>5, LenProperties
<1>7. QED
  BY <1>1, <1>2, <1>5, <1>6 DEF Inv, InvOf

(* What the client has but for \r is what the lines that have ended give. *)
LEMMA InvCuts == Inv => CutsDoNotMatter
<1> SUFFICES ASSUME Inv PROVE NoCr(out) = Expected
  BY DEF CutsDoNotMatter
<1> DEFINE B == Bytes
           r == Received
           K == KeptIn(lines)
<1>1. /\ StreamOK(lines) /\ BytesOK(lines, B) /\ B \in Seq(Raw)
      /\ sent \in 0 .. Len(B) /\ Len(B) \in Nat
      /\ r \in Seq(Raw) /\ Len(r) = sent /\ DOMAIN r = 1 .. sent
      /\ \A i \in 1 .. sent : r[i] = B[i] /\ i \in 1 .. Len(B)
      /\ out \in Seq(Pieces)
  BY WhatHasCome DEF BytesOK
<1>2. PICK e \in 0 .. sent : Passed(lines, sent, pending, out, e)
  BY DEF Inv, InvOf
<1> DEFINE p == SubSeq(B, 1, e)
           I == {i \in 1 .. e : p[i] \in K}
<1>3. At(B, e, sent) /\ Those(out, NoCrs) = Clean(lines, p)
  BY <1>2 DEF Passed, Bytes
<1>4. NoCr(out) = Those(out, NoCrs)
  <2>1. DOMAIN out = 1 .. Len(out) /\ \A i \in 1 .. Len(out) : out[i] \in Pieces
    BY <1>1, LenProperties, ElementOfSeq
  <2>2. {i \in DOMAIN out : out[i].b # "cr"} = {i \in DOMAIN out : out[i] \in NoCrs}
    BY <2>1 DEF NoCrs
  <2>3. QED
    BY <2>2 DEF NoCr, Those
<1> DEFINE R(i) == /\ Ended(r[i].line) /\ r[i].b # "cr"
                   /\ ~ (lines[r[i].line].kind = "signed" /\ r[i].b = "tail")
           W == {i \in DOMAIN r : R(i)}
           whole == Sift(r, W)
<1>5. Expected = [i \in DOMAIN whole |->
                    IF lines[whole[i].line].kind = "signed" /\ whole[i].b = "head"
                    THEN Piece(whole[i].line, "stripped") ELSE whole[i]]
  BY DEF Expected
<1> HIDE DEF B, r
<1>6. e \in 0 .. Len(B) /\ e \in Nat /\ e <= sent
  BY <1>1
<1>7. /\ p \in Seq(Raw) /\ Len(p) = e /\ DOMAIN p = 1 .. e
      /\ \A i \in 1 .. e : p[i] = B[i]
  <2>1. 0 \in 0 .. Len(B)
    BY <1>1
  <2>2. /\ SubSeq(B, 0 + 1, e) \in Seq(Raw) /\ Len(SubSeq(B, 0 + 1, e)) = e - 0
        /\ \A i \in 1 .. e - 0 : SubSeq(B, 0 + 1, e)[i] = B[0 + i]
    BY <1>1, <1>6, <2>1, PartFacts
  <2>3. 0 + 1 = 1 /\ e - 0 = e /\ \A i \in 1 .. e : 0 + i = i
    BY <1>6
  <2>4. p \in Seq(Raw) /\ Len(p) = e /\ \A i \in 1 .. e : p[i] = B[i]
    BY <2>2, <2>3
  <2>5. QED
    BY <2>4, LenProperties
<1> HIDE DEF p
<1>8. \A i \in 1 .. e : i \in 1 .. sent /\ p[i] = r[i]
  BY <1>1, <1>6, <1>7
<1>9. W = I
  <2>1. ASSUME NEW i \in 1 .. sent PROVE Ended(r[i].line) <=> i <= e
    <3>1. (\E j \in 1 .. sent : B[j] = Piece(B[i].line, "lf")) <=> i <= e
      BY <1>1, <1>3, EndedUpTo
    <3>2. Ended(r[i].line) <=> \E j \in 1 .. sent : r[j] = Piece(r[i].line, "lf")
      BY <1>1 DEF Ended, r
    <3>3. QED
      BY <1>1, <3>1, <3>2
  <2>2. ASSUME NEW i \in 1 .. sent PROVE R(i) <=> i <= e /\ r[i] \in K
    <3>1. r[i] \in Raw
      BY <1>1, ElementOfSeq
    <3>2. QED
      BY <2>1, <3>1 DEF KeptIn
  <2> HIDE DEF R, K
  <2>3. \A i \in W : i \in I
    <3> SUFFICES ASSUME NEW i \in W PROVE i \in I
      OBVIOUS
    <3>1. i \in 1 .. sent /\ R(i)
      BY <1>1
    <3>2. i <= e /\ r[i] \in K
      BY <2>2, <3>1
    <3>3. i \in 1 .. e
      BY <1>6, <3>1, <3>2
    <3>4. QED
      BY <1>8, <3>2, <3>3
  <2>4. \A i \in I : i \in W
    <3> SUFFICES ASSUME NEW i \in I PROVE i \in W
      OBVIOUS
    <3>1. i \in 1 .. e /\ i <= e /\ i \in 1 .. sent /\ r[i] \in K
      BY <1>6, <1>8
    <3>2. R(i)
      BY <2>2, <3>1
    <3>3. QED
      BY <1>1, <3>1, <3>2
  <2>5. QED
    BY <2>3, <2>4
<1> HIDE DEF W, K
<1>10. whole = Those(p, K)
  <2>1. I \in SUBSET (1 .. e)
    OBVIOUS
  <2>2. Those(p, K) = Sift(p, I)
    BY <1>7 DEF Those
  <2>3. \A a \in 1 .. Cardinality(I) : Nth(I, a) \in I
    <3> HIDE DEF I
    <3>1. QED
      BY <1>6, <2>1, NthCounts
  <2>4. \A a \in 1 .. Cardinality(I) : r[Nth(I, a)] = p[Nth(I, a)]
    BY <1>8, <2>1, <2>3
  <2> HIDE DEF I
  <2>5. Sift(r, I) = [a \in 1 .. Cardinality(I) |-> r[Nth(I, a)]]
    BY DEF Sift
  <2>6. Sift(p, I) = [a \in 1 .. Cardinality(I) |-> p[Nth(I, a)]]
    BY DEF Sift
  <2>7. QED
    BY <1>9, <2>2, <2>4, <2>5, <2>6
<1> HIDE DEF whole
<1>11. whole \in Seq(Raw) /\ DOMAIN whole = 1 .. Len(whole)
       /\ \A i \in 1 .. Len(whole) : whole[i] \in Raw
  <2>1. whole \in Seq(Raw)
    BY <1>7, <1>10, ThoseFacts
  <2>2. QED
    BY <2>1, LenProperties, ElementOfSeq
<1>12. \A i \in DOMAIN whole :
         (IF lines[whole[i].line].kind = "signed" /\ whole[i].b = "head"
          THEN Piece(whole[i].line, "stripped") ELSE whole[i]) = Anew(lines)[whole[i]]
  BY <1>11 DEF Anew, SignedIn
<1>13. Expected = Through(whole, Anew(lines))
  BY <1>5, <1>12 DEF Through
<1>14. Clean(lines, p) = Through(whole, Anew(lines))
  BY <1>10 DEF Clean, K
<1>15. QED
  BY <1>3, <1>4, <1>13, <1>14

(* What lasts of a sequence is those of its pieces that do, each as it was. *)
LastingIn(ls) == {p \in Pieces : /\ p.b # "cr"
                                 /\ ~ (p.b = "tail" /\ ls[p.line].kind = "signed")}
Old == [p \in Pieces |-> IF p.b = "stripped" THEN Piece(p.line, "head") ELSE p]

LEMMA LastingIs ==
  ASSUME NEW s \in Seq(Pieces)
  PROVE  Lasting(s) = Through(Those(s, LastingIn(lines)), Old)
<1> DEFINE L == LastingIn(lines)
           I == {i \in DOMAIN s : /\ s[i].b # "cr"
                                  /\ ~ (s[i].b = "tail" /\ lines[s[i].line].kind = "signed")}
           kept == Sift(s, I)
<1>1. DOMAIN s = 1 .. Len(s) /\ \A i \in 1 .. Len(s) : s[i] \in Pieces
  BY LenProperties, ElementOfSeq
<1>2. I = {i \in DOMAIN s : s[i] \in L}
  BY <1>1 DEF LastingIn
<1>3. Lasting(s) = [i \in DOMAIN kept |->
                      IF kept[i].b = "stripped" THEN Piece(kept[i].line, "head") ELSE kept[i]]
  BY DEF Lasting
<1> HIDE DEF I, L
<1>4. kept = Those(s, L)
  BY <1>2 DEF Those
<1> HIDE DEF kept
<1>5. kept \in Seq(Pieces)
  BY <1>4, ThoseFacts
<1>6. DOMAIN kept = 1 .. Len(kept) /\ \A i \in 1 .. Len(kept) : kept[i] \in Pieces
  BY <1>5, LenProperties, ElementOfSeq
<1>7. \A i \in DOMAIN kept :
        (IF kept[i].b = "stripped" THEN Piece(kept[i].line, "head") ELSE kept[i]) = Old[kept[i]]
  BY <1>6 DEF Old
<1>8. QED
  BY <1>3, <1>4, <1>7 DEF Through, L

(* Of bytes it is those that are written again. *)
LEMMA LastingOfBytes ==
  ASSUME NEW s \in Seq(Raw)
  PROVE  Lasting(s) = Those(s, KeptIn(lines))
<1> DEFINE L == LastingIn(lines)
           K == KeptIn(lines)
           t == Those(s, K)
<1>1. Raw \subseteq Pieces /\ \A p \in Raw : p.b # "stripped"
  BY AnewFacts DEF Raw, Sides
<1>2. \A p \in Raw : (p \in L <=> p \in K) /\ Old[p] = p
  BY <1>1 DEF LastingIn, KeptIn, Old
<1> HIDE DEF L, K
<1>3. s \in Seq(Pieces) /\ \A i \in 1 .. Len(s) : s[i] \in Raw
  BY <1>1, SeqMonotonic, ElementOfSeq
<1>4. Those(s, L) = t
  <2>1. \A i \in 1 .. Len(s) : s[i] \in L <=> s[i] \in K
    BY <1>2, <1>3
  <2>2. QED
    BY <2>1, ThoseSame
<1>5. t \in Seq(Raw)
  BY ThoseFacts
<1> HIDE DEF t
<1>6. \A i \in 1 .. Len(t) : Old[t[i]] = t[i]
  BY <1>2, <1>5, ElementOfSeq
<1>7. Through(t, Old) = t
  BY <1>5, <1>6, ThroughIdentity
<1>8. QED
  BY <1>3, <1>4, <1>7, LastingIs DEF L, K, t

(* Of what went out it is those of the bytes it was made of.               *)
LEMMA LastingOfClean ==
  ASSUME NEW s \in Seq(Raw), NEW gone \in Seq(Pieces),
         Those(gone, NoCrs) = Clean(lines, s)
  PROVE  Lasting(gone) = Those(s, KeptIn(lines))
<1> DEFINE L == LastingIn(lines)
           K == KeptIn(lines)
           m == Anew(lines)
           M == {p \in Raw : m[p] \in L}
           h == [p \in Raw |-> Old[m[p]]]
           t == Those(s, K)
<1>1. ASSUME NEW p \in Raw
      PROVE  /\ m[p] \in Pieces /\ Old[m[p]] = p
             /\ p \in K => m[p] \in L
  <2> DEFINE q == Piece(p.line, "stripped")
  <2>1. /\ p \in Pieces /\ p.b \in Sides /\ p = Piece(p.line, p.b)
        /\ p.b # "stripped"
    BY AnewFacts DEF Raw, Sides, Piece
  <2>2. q \in Pieces /\ q.b = "stripped" /\ q.line = p.line
    BY <2>1 DEF Pieces, Piece
  <2>3. m[p] = IF p \in SignedIn(lines) THEN q ELSE p
    BY DEF Anew
  <2> HIDE DEF q, m
  <2>4. CASE p \in SignedIn(lines)
    <3>1. p.b = "head" /\ m[p] = q
      BY <2>3, <2>4 DEF SignedIn
    <3>2. Old[q] = Piece(p.line, "head")
      BY <2>2 DEF Old
    <3>3. q \in L
      BY <2>2 DEF LastingIn
    <3>4. QED
      BY <2>1, <2>2, <3>1, <3>2, <3>3
  <2>5. CASE p \notin SignedIn(lines)
    <3>1. m[p] = p /\ Old[p] = p
      BY <2>1, <2>3, <2>5 DEF Old
    <3>2. p \in K => p \in L
      BY <2>1 DEF KeptIn, LastingIn
    <3>3. QED
      BY <2>1, <3>1, <3>2
  <2>6. QED
    BY <2>4, <2>5
<1>2. L \subseteq NoCrs
  BY DEF LastingIn, NoCrs
<1>3. NoCrs \cap L = L
  BY <1>2
<1>4. K \cap M = K
  <2>1. K \subseteq Raw
    BY DEF KeptIn
  <2> HIDE DEF K, m, L
  <2>2. QED
    BY <1>1, <2>1
<1>5. t \in Seq(Raw)
  BY ThoseFacts
<1>6. Clean(lines, s) = Through(t, m)
  BY DEF Clean
<1>7. Takes(m, Raw, Pieces) /\ Brings(m, Raw, L, M)
  BY <1>1 DEF Takes, Brings
<1>8. Composes(h, Old, m, Raw)
  BY DEF Composes
<1>9. \A p \in Raw : h[p] = p
  BY <1>1
<1> HIDE DEF L, K, m, M, h
<1>10. Those(gone, L) = Through(t, m)
  <2>1. Those(gone, L) = Those(Those(gone, NoCrs), L)
    BY <1>3, ThoseTwice
  <2>2. Those(Through(t, m), L) = Through(Those(t, M), m)
    <3> HIDE DEF t
    <3>1. KeptBefore(t, m, L, M)
      BY <1>5, <1>7, ThoseThrough, Zenon
    <3>2. QED
      BY <3>1 DEF KeptBefore
  <2>3. Those(t, M) = t
    BY <1>4, ThoseTwice
  <2>4. QED
    BY <1>6, <2>1, <2>2, <2>3
<1> HIDE DEF t
<1>11. Through(Through(t, m), Old) = Through(t, h)
  <2>1. AtOnce(t, m, Old, h)
    BY <1>5, <1>7, <1>8, ThroughTwice, Zenon
  <2>2. QED
    BY <2>1 DEF AtOnce
<1>12. Through(t, h) = t
  <2>1. \A i \in 1 .. Len(t) : h[t[i]] = t[i]
    BY <1>5, <1>9, ElementOfSeq
  <2>2. QED
    BY <1>5, <2>1, ThroughIdentity
<1>13. Lasting(gone) = Through(Those(gone, L), Old)
  BY LastingIs DEF L
<1>14. QED
  BY <1>10, <1>11, <1>12, <1>13 DEF K, t

(* What went out and what is kept back are what has come. *)
LEMMA InvNothingBetween == Inv => NothingBetween
<1> SUFFICES ASSUME Inv PROVE NothingBetween
  OBVIOUS
<1> DEFINE B == Bytes
           r == Received
           K == KeptIn(lines)
<1>1. /\ B \in Seq(Raw) /\ sent \in 0 .. Len(B) /\ Len(B) \in Nat
      /\ r \in Seq(Raw) /\ r = SubSeq(B, 1, sent) /\ out \in Seq(Pieces)
  BY WhatHasCome DEF BytesOK, Received
<1>2. PICK e \in 0 .. sent : Passed(lines, sent, pending, out, e)
  BY DEF Inv, InvOf
<1> DEFINE a == SubSeq(B, 1, e)
<1>3. /\ At(B, e, sent) /\ pending = SubSeq(B, e + 1, sent)
      /\ Those(out, NoCrs) = Clean(lines, a)
  BY <1>2 DEF Passed, Bytes
<1> HIDE DEF B, r, K
<1>4. e \in 0 .. Len(B) /\ sent \in e .. Len(B) /\ e \in Nat /\ sent \in Nat
  BY <1>1
<1>5. a \in Seq(Raw)
  <2>1. 0 \in 0 .. Len(B) /\ 0 + 1 = 1
    BY <1>1
  <2>2. SubSeq(B, 0 + 1, e) \in Seq(Raw)
    BY <1>1, <1>4, <2>1, PartFacts
  <2>3. QED
    BY <2>1, <2>2
<1>6. /\ pending \in Seq(Raw) /\ Len(pending) = sent - e
      /\ \A i \in 1 .. sent - e : pending[i] = B[e + i]
  BY <1>1, <1>3, <1>4, PartFacts
<1>7. a \o pending = r
  <2>1. 1 \in 1 .. Len(B) + 1 /\ e \in 1 - 1 .. Len(B) /\ sent \in e .. Len(B)
    BY <1>1, <1>4
  <2>2. QED
    BY <1>1, <1>3, <2>1, ConcatAdjacentSubSeq
<1> HIDE DEF a
<1>8. Lasting(out) = Those(a, K)
  BY <1>1, <1>3, <1>5, LastingOfClean DEF K
<1>9. Lasting(pending) = Those(pending, K) /\ Lasting(r) = Those(r, K)
  <2>1. Lasting(pending) = Those(pending, K)
    BY <1>6, LastingOfBytes DEF K
  <2>2. Lasting(r) = Those(r, K)
    BY <1>1, LastingOfBytes DEF K
  <2>3. QED
    BY <2>1, <2>2
<1>10. Those(r, K) = Those(a, K) \o Those(pending, K)
  <2>1. Those(a \o pending, K) = Those(a, K) \o Those(pending, K)
    BY <1>5, <1>6, ThoseJoined
  <2>2. QED
    BY <1>7, <2>1
<1>11. \A i \in DOMAIN pending : pending[i].b # "lf"
  <2>1. DOMAIN pending = 1 .. sent - e
    BY <1>6, LenProperties
  <2>2. \A i \in 1 .. sent - e : e + i \in e + 1 .. sent
    BY <1>4
  <2>3. QED
    BY <1>3, <1>6, <2>1, <2>2 DEF At
<1>12. QED
  BY <1>8, <1>9, <1>10, <1>11 DEF NothingBetween, r

(* The cache has the line of every signature that was taken out. *)
LEMMA InvStripped == Inv => StrippedIsCached
<1> SUFFICES ASSUME Inv PROVE StrippedIsCached
  OBVIOUS
<1> DEFINE x == Those(out, Strippeds)
<1>1. out \in Seq(Pieces) /\ cached = Through(x, LineOf)
  BY DEF Inv, InvOf
<1>2. Stripped(out) = x
  <2>1. DOMAIN out = 1 .. Len(out) /\ \A i \in 1 .. Len(out) : out[i] \in Pieces
    BY <1>1, LenProperties, ElementOfSeq
  <2>2. {i \in DOMAIN out : out[i].b = "stripped"} = {i \in DOMAIN out : out[i] \in Strippeds}
    BY <2>1 DEF Strippeds
  <2>3. QED
    BY <2>2 DEF Stripped, Those
<1>3. x \in Seq(Pieces)
  BY <1>1, ThoseFacts
<1> HIDE DEF x
<1>4. DOMAIN x = 1 .. Len(x) /\ \A i \in 1 .. Len(x) : x[i] \in Pieces
  BY <1>3, LenProperties, ElementOfSeq
<1>5. \A i \in DOMAIN x : LineOf[x[i]] = x[i].line
  BY <1>4 DEF LineOf
<1>6. QED
  BY <1>1, <1>2, <1>5 DEF StrippedIsCached, Through

(* The variables have their types. *)
LEMMA InvTypeOK == Inv => TypeOK
<1> SUFFICES ASSUME Inv PROVE TypeOK
  OBVIOUS
<1>1. /\ lines \in Streams /\ out \in Seq(Pieces) /\ cached \in Seq(1 .. MaxLines)
      /\ phase \in {"open", "flushed", "ended", "failed"}
  BY DEF Inv, InvOf
<1>2. /\ Bytes \in Seq(Raw) /\ sent \in 0 .. Len(Bytes) /\ Len(Bytes) \in Nat
  BY WhatHasCome DEF BytesOK
<1>3. PICK e \in 0 .. sent : Passed(lines, sent, pending, out, e)
  BY DEF Inv, InvOf
<1>4. pending = SubSeq(Bytes, e + 1, sent)
  BY <1>3 DEF Passed, Bytes
<1>5. pending \in Seq(Raw)
  <2>1. e \in 0 .. Len(Bytes) /\ sent \in e .. Len(Bytes)
    BY <1>2
  <2>2. QED
    BY <1>2, <1>4, <2>1, PartFacts
<1>6. pending \in Seq(Pieces)
  BY <1>5, AnewFacts, SeqMonotonic
<1>7. QED
  BY <1>1, <1>2, <1>6 DEF TypeOK

----------------------------------------------------------------------------
(* The theorems *)

(* wrap_sse_stream: at every moment what has gone out, clean, is what came *)
(* up to the end of a line, the rest is kept back, and what was taken out  *)
(* is in the cache.                                                        *)
THEOREM InvHolds == Spec => []Inv
<1>1. Init => Inv
  BY InitInv
<1>2. Inv /\ [Next]_vars => Inv'
  BY NextInv
<1>3. QED
  BY <1>1, <1>2, PTL DEF Spec

(* The variables of the stream have their types. *)
THEOREM TypeCorrect == Spec => []TypeOK
<1>1. Inv => TypeOK
  BY InvTypeOK
<1>2. QED
  BY <1>1, InvHolds, PTL

(* transform_sse_chunk_cache_strip: wherever the upstream cuts its bytes,  *)
(* the client has each line that has ended, in order and once, and without *)
(* its signature.                                                          *)
THEOREM CutsNeverMatter == Spec => []CutsDoNotMatter
<1>1. Inv => CutsDoNotMatter
  BY InvCuts
<1>2. QED
  BY <1>1, InvHolds, PTL

(* The buffer: what went out, with each line as it came, and what is kept  *)
(* back are together what has come, but for the \r and the signatures; and *)
(* only part of one line is kept back.                                     *)
THEOREM NothingIsLost == Spec => []NothingBetween
<1>1. Inv => NothingBetween
  BY InvNothingBetween
<1>2. QED
  BY <1>1, InvHolds, PTL

(* transform_sse_line_cache_strip: a signature that was taken out of       *)
(* a line is in the cache, once and in the order of the lines, and no      *)
(* other is.                                                               *)
THEOREM SignaturesAreCached == Spec => []StrippedIsCached
<1>1. Inv => StrippedIsCached
  BY InvStripped
<1>2. QED
  BY <1>1, InvHolds, PTL
=============================================================================
