----------------------- MODULE GeminiSignaturesProofs -----------------------
(***************************************************************************)
(* Proofs about GeminiSignatures, for any conversations, backends and      *)
(* calls, any texts, caches of any size and lifetime, and any number of    *)
(* replies, signatures and clears: what a conversation that is sent again  *)
(* carries.                                                                *)
(***************************************************************************)
EXTENDS GeminiSignatures, CommonFacts, SequenceTheorems, FiniteSetTheorems, TLAPS

----------------------------------------------------------------------------
(* Texts *)

(* All places of a sequence kept, it is as it was. *)
LEMMA SiftAll ==
  ASSUME NEW S, NEW s \in Seq(S)
  PROVE  Sift(s, DOMAIN s) = s
<1> DEFINE f == [a \in 1 .. Len(s) |-> a]
<1>1. Len(s) \in Nat /\ DOMAIN s = 1 .. Len(s)
  BY LenProperties
<1>2. CountsUp(f, Len(s), DOMAIN s)
  BY <1>1 DEF CountsUp
<1>3. Sift(s, DOMAIN s) = [a \in 1 .. Len(s) |-> s[f[a]]]
  <2> HIDE DEF f
  <2>1. DOMAIN s \in SUBSET (1 .. Len(s))
    BY <1>1
  <2>2. QED
    BY <1>2, <2>1, SiftCounted
<1>4. [a \in 1 .. Len(s) |-> s[f[a]]] = [a \in 1 .. Len(s) |-> s[a]]
  OBVIOUS
<1>5. s = [a \in 1 .. Len(s) |-> s[a]]
  BY <1>1
<1>6. QED
  BY <1>3, <1>4, <1>5

(* Whatever is left of a sequence was in it. *)
LEMMA SiftedFrom ==
  ASSUME NEW S, NEW s \in Seq(S), NEW I, I \subseteq DOMAIN s
  PROVE  /\ Sift(s, I) \in Seq(S) /\ DOMAIN Sift(s, I) = 1 .. Cardinality(I)
         /\ Cardinality(I) \in Nat
         /\ \A a \in DOMAIN Sift(s, I) : Nth(I, a) \in I /\ Sift(s, I)[a] = s[Nth(I, a)]
<1>1. I \in SUBSET (1 .. Len(s))
  BY LenProperties
<1>2. /\ Sift(s, I) \in Seq(S) /\ Len(Sift(s, I)) = Cardinality(I)
      /\ Cardinality(I) \in 0 .. Len(s)
      /\ \A a \in 1 .. Cardinality(I) : Nth(I, a) \in I /\ Sift(s, I)[a] = s[Nth(I, a)]
  BY <1>1, SiftFacts
<1>3. DOMAIN Sift(s, I) = 1 .. Cardinality(I)
  BY DEF Sift
<1>4. QED
  BY <1>2, <1>3

(* Only a line end at the end is dropped. *)
LEMMA LastNlFacts ==
  ASSUME NEW S, NEW s \in Seq(S)
  PROVE  /\ WithoutLastNl(s) \in Seq(S)
         /\ Worded(WithoutLastNl(s)) = Worded(s)
         /\ \A i \in DOMAIN WithoutLastNl(s) : i \in DOMAIN s /\ WithoutLastNl(s)[i] = s[i]
<1>1. Len(s) \in Nat /\ DOMAIN s = 1 .. Len(s)
  BY LenProperties
<1>2. CASE s # << >> /\ EndsLine(s[Len(s)])
  <2> DEFINE w == SubSeq(s, 1, Len(s) - 1)
             T == {i \in DOMAIN s : ~ EndsLine(s[i])}
  <2>1. Len(s) > 0
    BY <1>1, <1>2, EmptySeq
  <2>2. /\ w \in Seq(S) /\ Len(w) = Len(s) - 1
        /\ \A i \in 1 .. Len(s) - 1 : w[i] = s[i]
        /\ DOMAIN w = 1 .. Len(s) - 1
    BY <1>1, <2>1
  <2>3. WithoutLastNl(s) = w
    BY <1>2 DEF WithoutLastNl
  <2> HIDE DEF w
  <2>4. {i \in DOMAIN w : ~ EndsLine(w[i])} = T
    <3>1. \A i \in DOMAIN s : i \in 1 .. Len(s) - 1 \/ i = Len(s)
      BY <1>1
    <3>2. \A i \in DOMAIN s : ~ EndsLine(s[i]) => i \in 1 .. Len(s) - 1
      BY <1>2, <3>1, Zenon
    <3>3. \A i \in 1 .. Len(s) - 1 : i \in DOMAIN s
      BY <1>1
    <3>4. \A i : i \in DOMAIN w /\ ~ EndsLine(w[i]) <=> i \in DOMAIN s /\ ~ EndsLine(s[i])
      BY <2>2, <3>2, <3>3, Zenon
    <3>5. QED
      BY <3>4, Zenon DEF T
  <2>5. T \in SUBSET (1 .. Len(s) - 1) /\ Len(s) - 1 \in Nat
    <3>1. {i \in DOMAIN w : ~ EndsLine(w[i])} \in SUBSET DOMAIN w
      OBVIOUS
    <3>2. Len(s) - 1 \in Nat
      BY <1>1, <2>1
    <3>3. QED
      BY <2>2, <2>4, <3>1, <3>2
  <2> HIDE DEF T
  <2>6. \A a \in 1 .. Cardinality(T) : Nth(T, a) \in T
    BY <2>5, NthCounts
  <2>7. \A a \in 1 .. Cardinality(T) : w[Nth(T, a)] = s[Nth(T, a)]
    BY <2>2, <2>5, <2>6
  <2>8. Sift(w, T) = Sift(s, T)
    BY <2>7 DEF Sift
  <2>9. Worded(w) = Worded(s)
    BY <2>4, <2>8 DEF Worded, T
  <2>10. \A i \in DOMAIN w : i \in DOMAIN s
    BY <1>1, <2>2
  <2>11. QED
    BY <2>2, <2>3, <2>9, <2>10
<1>3. CASE ~ (s # << >> /\ EndsLine(s[Len(s)]))
  <2>1. WithoutLastNl(s) = s
    BY <1>3 DEF WithoutLastNl
  <2>2. QED
    BY <2>1
<1>4. QED
  BY <1>2, <1>3

(* No mark is left in a text that is cleaned. *)
LEMMA NoMarkIsLeft ==
  ASSUME NEW S, NEW s \in Seq(S)
  PROVE  /\ WithoutThink(s) \in Seq(S) /\ Cleaned(s) \in Seq(S)
         /\ \A i \in DOMAIN Cleaned(s) : Cleaned(s)[i].part # "sig"
<1> DEFINE u == WithoutThink(s)
           v == WithoutPlain(u)
<1>1. /\ u \in Seq(S)
      /\ \A a \in DOMAIN u : \E i \in DOMAIN s \ InThink(s) : u[a] = s[i]
  <2> DEFINE I == DOMAIN s \ InThink(s)
  <2>1. u = Sift(s, I)
    BY DEF WithoutThink
  <2>2. I \subseteq DOMAIN s
    OBVIOUS
  <2> HIDE DEF I, u
  <2>3. u \in Seq(S) /\ \A a \in DOMAIN u : \E i \in I : u[a] = s[i]
    BY <2>1, <2>2, SiftedFrom
  <2>4. QED
    BY <2>3 DEF I
<1>2. \A i \in DOMAIN s \ InThink(s) : s[i].part # "sig"
  BY DEF InThink
<1>3. \A a \in DOMAIN u : u[a].part # "sig"
  BY <1>1, <1>2
<1> HIDE DEF u
<1>4. /\ v \in Seq(S)
      /\ \A a \in DOMAIN v : \E i \in DOMAIN u : v[a] = u[i]
  <2>1. DOMAIN u \ InPlainLine(u) \subseteq DOMAIN u
    OBVIOUS
  <2> DEFINE I == DOMAIN u \ InPlainLine(u)
  <2>2. v = Sift(u, I)
    BY DEF WithoutPlain
  <2> HIDE DEF I, v
  <2>3. I \subseteq DOMAIN u
    BY <2>1 DEF I
  <2>4. QED
    BY <1>1, <2>2, <2>3, SiftedFrom
<1>5. \A a \in DOMAIN v : v[a].part # "sig"
  BY <1>3, <1>4
<1> HIDE DEF v
<1>6. Cleaned(s) = WithoutLastNl(v)
  BY DEF Cleaned, u, v
<1>7. QED
  BY <1>1, <1>4, <1>5, <1>6, LastNlFacts DEF u

(* Without a SIGID: there is no such line. *)
LEMMA NoPlainLine ==
  ASSUME NEW S, NEW s \in Seq(S), \A i \in DOMAIN s : s[i].part # "plain"
  PROVE  WithoutPlain(s) = s
<1>1. InPlainLine(s) = {}
  BY DEF InPlainLine
<1>2. DOMAIN s \ InPlainLine(s) = DOMAIN s
  BY <1>1
<1>3. QED
  BY <1>2, SiftAll DEF WithoutPlain

(* The places the upstream wrote, and what it wrote. *)
Written(s) == {i \in DOMAIN s : s[i].part \notin {"sig", "br"}}
Wrote(s) == Sift(s, Written(s))

(* What the marks of a text leave of it. *)
LEMMA WrittenFacts ==
  ASSUME NEW S, NEW s \in Seq(S), NEW w, w = Wrote(s), NEW O, O = Written(s)
  PROVE  /\ w \in Seq(S) /\ Cardinality(O) \in Nat /\ DOMAIN w = 1 .. Cardinality(O)
         /\ O \in SUBSET (1 .. Len(s)) /\ Len(s) \in Nat
         /\ \A a \in DOMAIN w : Nth(O, a) \in O /\ w[a] = s[Nth(O, a)]
         /\ \A i \in O : \E a \in DOMAIN w : Nth(O, a) = i
         /\ \A a, b \in DOMAIN w : a < b => Nth(O, a) < Nth(O, b)
<1>1. O \subseteq DOMAIN s /\ w = Sift(s, O)
  BY DEF Written, Wrote
<1>2. O \in SUBSET (1 .. Len(s)) /\ Len(s) \in Nat
  BY <1>1, LenProperties
<1>3. /\ w \in Seq(S) /\ DOMAIN w = 1 .. Cardinality(O) /\ Cardinality(O) \in Nat
      /\ \A a \in DOMAIN w : Nth(O, a) \in O /\ w[a] = s[Nth(O, a)]
  BY <1>1, SiftedFrom
<1>4. /\ \A i \in O : \E a \in 1 .. Cardinality(O) : Nth(O, a) = i
      /\ \A a, b \in 1 .. Cardinality(O) : a < b => Nth(O, a) < Nth(O, b)
  BY <1>2, NthCounts
<1>5. QED
  BY <1>2, <1>3, <1>4

(* If no mark is hidden, what closes an open is no mark, nor is there one  *)
(* between.                                                                *)
LEMMA OpenTillClose ==
  ASSUME NEW S, NEW s \in Seq(S), Hidden(s) = {},
         NEW j \in DOMAIN s, NEW k \in DOMAIN s, j < k, s[j].part = "open",
         \A m \in j .. k - 1 : s[m].part # "close"
  PROVE  s[k].part # "sig" /\ \A m \in j .. k - 1 : ~ Closes(s[m])
<1>1. j \in Nat /\ k \in Nat /\ DOMAIN s = 1 .. Len(s) /\ Len(s) \in Nat
  BY LenProperties
<1>2. ASSUME NEW i \in j .. k, s[i].part = "sig"
      PROVE  FALSE
  <2> DEFINE M == {m \in j .. k : s[m].part = "sig"}
  <2>1. M \in SUBSET Nat /\ M # {}
    BY <1>1, <1>2
  <2>2. PICK l \in M : \A m \in M : l <= m
    BY <2>1, LeastOf
  <2>3. l \in j .. k /\ s[l].part = "sig" /\ l # j /\ l \in DOMAIN s /\ j \in 1 .. l - 1
    BY <1>1, <2>2
  <2>4. ASSUME NEW m \in j .. l - 1
        PROVE  ~ Closes(s[m])
    <3>1. m \in j .. k /\ ~ (l <= m) /\ m \in j .. k - 1
      BY <1>1, <2>3, <2>4
    <3>2. s[m].part # "sig"
      BY <2>2, <3>1
    <3>3. s[m].part # "close"
      BY <3>1
    <3>4. QED
      BY <3>2, <3>3 DEF Closes
  <2>5. l \in Hidden(s)
    BY <2>3, <2>4 DEF Hidden
  <2>6. QED
    BY <2>5
<1>3. \A m \in j .. k - 1 : s[m].part # "sig" /\ s[m].part # "close"
  BY <1>1, <1>2
<1>4. k \in j .. k
  BY <1>1
<1>5. QED
  BY <1>2, <1>3, <1>4 DEF Closes

(* If no mark is hidden, a place that the upstream wrote is in a block of  *)
(* thoughts just if it is in one of what the upstream wrote.               *)
LEMMA MarksHideNothing ==
  ASSUME NEW S, NEW s \in Seq(S), Hidden(s) = {}, NEW w, w = Wrote(s),
         NEW O, O = Written(s), NEW a \in DOMAIN w
  PROVE  Nth(O, a) \in InThink(s) <=> a \in InThink(w)
<1> DEFINE At(x) == Nth(O, x)
           n == Cardinality(O)
<1>1. /\ w \in Seq(S) /\ n \in Nat /\ DOMAIN w = 1 .. n
      /\ O \in SUBSET (1 .. Len(s)) /\ Len(s) \in Nat
      /\ \A x \in DOMAIN w : At(x) \in O /\ w[x] = s[At(x)]
      /\ \A i \in O : \E x \in DOMAIN w : At(x) = i
      /\ \A x, y \in DOMAIN w : x < y => At(x) < At(y)
  BY WrittenFacts
<1>2. DOMAIN s = 1 .. Len(s)
  BY LenProperties
<1>3. /\ \A i \in O : s[i].part \notin {"sig", "br"}
      /\ \A i \in DOMAIN s : s[i].part \notin {"sig", "br"} => i \in O
  BY DEF Written
<1> HIDE DEF At, n
<1>4. \A x \in DOMAIN w : x \in Nat /\ At(x) \in Nat /\ At(x) \in DOMAIN s
  BY <1>1, <1>2
<1>5. \A x, y \in DOMAIN w : x <= y <=> At(x) <= At(y)
  <2> SUFFICES ASSUME NEW x \in DOMAIN w, NEW y \in DOMAIN w
               PROVE  x <= y <=> At(x) <= At(y)
    OBVIOUS
  <2>1. x < y => At(x) < At(y)
    BY <1>1
  <2>2. y < x => At(y) < At(x)
    BY <1>1
  <2>3. x \in Nat /\ y \in Nat /\ At(x) \in Nat /\ At(y) \in Nat
    BY <1>4
  <2>4. x = y => At(x) = At(y)
    OBVIOUS
  <2>5. QED
    BY <2>1, <2>2, <2>3, <2>4
<1>6. ASSUME At(a) \in InThink(s) PROVE a \in InThink(w)
  <2>1. s[At(a)].part # "sig"
    BY <1>1, <1>3
  <2>2. PICK j \in DOMAIN s, k \in DOMAIN s :
          /\ j <= At(a) /\ At(a) <= k /\ s[j].part = "open" /\ Closes(s[k])
          /\ \A m \in j .. k - 1 : ~ Closes(s[m])
    BY <1>6, <2>1 DEF InThink
  <2>3. j \in Nat /\ k \in Nat /\ j < k
    <3>1. j # k
      BY <2>2 DEF Closes
    <3>2. QED
      BY <1>2, <1>4, <2>2, <3>1
  <2>4. \A m \in j .. k - 1 : s[m].part # "close"
    BY <2>2 DEF Closes
  <2>5. s[k].part # "sig"
    BY <2>2, <2>3, <2>4, OpenTillClose
  <2>6. s[k].part = "close"
    BY <2>2, <2>5 DEF Closes
  <2>7. PICK x \in DOMAIN w : At(x) = j
    BY <1>1, <1>3, <2>2
  <2>8. PICK y \in DOMAIN w : At(y) = k
    BY <1>1, <1>3, <2>6
  <2>9. x <= a /\ a <= y /\ x < y
    <3>1. x <= a /\ a <= y
      BY <1>5, <2>2, <2>7, <2>8
    <3>2. x # y
      BY <2>3, <2>7, <2>8
    <3>3. QED
      BY <1>4, <3>1, <3>2
  <2>10. w[x].part = "open" /\ Closes(w[y])
    BY <1>1, <2>2, <2>7, <2>8
  <2>11. ASSUME NEW z \in x .. y - 1
         PROVE  ~ Closes(w[z])
    <3>1. z \in DOMAIN w /\ x <= z /\ z < y
      BY <1>1, <1>4, <2>11
    <3>2. At(z) \in j .. k - 1
      <4>1. j <= At(z)
        BY <1>5, <2>7, <3>1
      <4>2. At(z) < k
        BY <1>1, <2>8, <3>1
      <4>3. At(z) \in Nat
        BY <1>4, <3>1
      <4>4. QED
        BY <2>3, <4>1, <4>2, <4>3
    <3>3. QED
      BY <1>1, <2>2, <3>1, <3>2
  <2>12. QED
    BY <2>9, <2>10, <2>11 DEF InThink
<1>7. ASSUME a \in InThink(w) PROVE At(a) \in InThink(s)
  <2>1. \A x \in DOMAIN w : w[x].part # "sig"
    BY <1>1, <1>3
  <2>2. PICK x \in DOMAIN w, y \in DOMAIN w :
          /\ x <= a /\ a <= y /\ w[x].part = "open" /\ Closes(w[y])
          /\ \A z \in x .. y - 1 : ~ Closes(w[z])
    BY <1>7, <2>1 DEF InThink
  <2> DEFINE j == At(x)
             k == At(y)
  <2>3. j \in DOMAIN s /\ k \in DOMAIN s /\ j \in Nat /\ k \in Nat
    BY <1>4
  <2>4. j <= At(a) /\ At(a) <= k
    BY <1>5, <2>2
  <2>5. s[j].part = "open" /\ Closes(s[k])
    BY <1>1, <2>2
  <2>6. j < k
    <3>1. x # y
      BY <2>2 DEF Closes
    <3>2. x < y
      BY <1>4, <2>2, <3>1
    <3>3. QED
      BY <1>1, <3>2
  <2> HIDE DEF j, k
  <2>7. ASSUME NEW m \in j .. k - 1, s[m].part = "close"
        PROVE  FALSE
    <3>1. m \in DOMAIN s
      BY <1>2, <2>3, <2>7
    <3>2. PICK z \in DOMAIN w : At(z) = m
      BY <1>1, <1>3, <2>7, <3>1
    <3>3. x <= z /\ z < y
      <4>1. j <= At(z) /\ ~ (k <= At(z))
        BY <2>3, <2>7, <3>2
      <4>2. x <= z /\ ~ (y <= z)
        BY <1>5, <4>1 DEF j, k
      <4>3. QED
        BY <1>4, <4>2
    <3>4. z \in x .. y - 1
      BY <1>4, <3>3
    <3>5. w[z].part = "close"
      BY <1>1, <2>7, <3>2
    <3>6. QED
      BY <2>2, <3>4, <3>5 DEF Closes
  <2>8. \A m \in j .. k - 1 : ~ Closes(s[m])
    <3>1. \A m \in j .. k - 1 : s[m].part # "close"
      BY <2>7
    <3>2. QED
      BY <2>3, <2>5, <2>6, <3>1, OpenTillClose
  <2>9. At(a) \in DOMAIN s
    BY <1>4
  <2>10. QED
    BY <2>3, <2>4, <2>5, <2>8, <2>9 DEF InThink
<1>8. QED
  BY <1>6, <1>7 DEF At

(* What is left of a text without its thoughts, but for line ends. *)
LEMMA WordsOutside ==
  ASSUME NEW S, NEW s \in Seq(S)
  PROVE  Worded(WithoutThink(s)) = Sift(s, {i \in DOMAIN s \ InThink(s) : ~ EndsLine(s[i])})
<1> DEFINE I == DOMAIN s \ InThink(s)
           T == {i \in I : ~ EndsLine(s[i])}
           u == WithoutThink(s)
           J == {a \in DOMAIN u : ~ EndsLine(u[a])}
<1>1. u = Sift(s, I)
  BY DEF WithoutThink
<1>2. I \subseteq DOMAIN s /\ T \in SUBSET I
  OBVIOUS
<1>3. Worded(u) = Sift(u, J)
  BY DEF Worded
<1>4. \A i \in I : i \in T <=> ~ EndsLine(s[i])
  OBVIOUS
<1>5. \A a : a \in J <=> a \in DOMAIN u /\ ~ EndsLine(u[a])
  OBVIOUS
<1> HIDE DEF I, T, u, J
<1>6. I \in SUBSET (1 .. Len(s))
  BY <1>2, LenProperties
<1>7. /\ DOMAIN u = 1 .. Cardinality(I)
      /\ \A a \in DOMAIN u : Nth(I, a) \in I /\ u[a] = s[Nth(I, a)]
  BY <1>1, <1>2, SiftedFrom
<1>8. J = {a \in 1 .. Cardinality(I) : Nth(I, a) \in T}
  <2>1. \A a : a \in J <=> a \in 1 .. Cardinality(I) /\ Nth(I, a) \in T
    BY <1>4, <1>5, <1>7
  <2>2. QED
    BY <2>1
<1>9. Sift(u, J) = Sift(s, T)
  BY <1>1, <1>2, <1>6, <1>8, SiftTwice
<1>10. QED
  BY <1>3, <1>9 DEF T, I, u

(* If no mark is hidden, taking the thoughts out of a text and taking them *)
(* out of what the upstream wrote of it comes to the same.                 *)
LEMMA MarksLeaveNoTrace ==
  ASSUME NEW S, NEW s \in Seq(S), Hidden(s) = {}
  PROVE  Worded(WithoutThink(s)) = Worded(WithoutThink(Wrote(s)))
<1> DEFINE w == Wrote(s)
           O == Written(s)
           A == {i \in DOMAIN s \ InThink(s) : ~ EndsLine(s[i])}
           B == {a \in DOMAIN w \ InThink(w) : ~ EndsLine(w[a])}
<1>1. /\ w \in Seq(S) /\ DOMAIN w = 1 .. Cardinality(O)
      /\ O \in SUBSET (1 .. Len(s)) /\ Len(s) \in Nat
      /\ \A a \in DOMAIN w : Nth(O, a) \in O /\ w[a] = s[Nth(O, a)]
      /\ \A i \in O : \E a \in DOMAIN w : Nth(O, a) = i
  BY WrittenFacts
<1>2. w = Sift(s, O)
  BY DEF Wrote
<1>3. Worded(WithoutThink(w)) = Sift(w, B)
  <2> HIDE DEF w
  <2>1. QED
    BY <1>1, WordsOutside
<1>4. Worded(WithoutThink(s)) = Sift(s, A)
  BY WordsOutside
<1>5. \A a \in DOMAIN w : Nth(O, a) \in InThink(s) <=> a \in InThink(w)
  BY MarksHideNothing
<1>6. A \in SUBSET O
  <2> SUFFICES ASSUME NEW i \in DOMAIN s, i \notin InThink(s), ~ EndsLine(s[i])
               PROVE  i \in O
    OBVIOUS
  <2>1. s[i].part # "sig"
    BY DEF InThink
  <2>2. s[i].part # "br"
    BY DEF EndsLine
  <2>3. QED
    BY <2>1, <2>2 DEF Written
<1>7. \A i \in O : i \in DOMAIN s
  BY DEF Written
<1>8. \A i : i \in A <=> i \in DOMAIN s /\ i \notin InThink(s) /\ ~ EndsLine(s[i])
  OBVIOUS
<1>9. \A a : a \in B <=> a \in DOMAIN w /\ a \notin InThink(w) /\ ~ EndsLine(w[a])
  OBVIOUS
<1> HIDE DEF w, O, A, B
<1>10. B = {a \in 1 .. Cardinality(O) : Nth(O, a) \in A}
  <2>1. \A a : a \in B <=> a \in 1 .. Cardinality(O) /\ Nth(O, a) \in A
    BY <1>1, <1>5, <1>7, <1>8, <1>9
  <2>2. QED
    BY <2>1
<1>11. Sift(w, B) = Sift(s, A)
  BY <1>1, <1>2, <1>6, <1>10, SiftTwice
<1>12. QED
  BY <1>3, <1>4, <1>11 DEF w

(* What TextComesBack asks of what is sent, t, for the content s, of which *)
(* the upstream wrote w.                                                   *)
ComesBack(t, s, w) ==
  /\ \A i \in DOMAIN t : t[i].part # "sig"
  /\ /\ Hidden(s) = {}
     /\ \A i \in DOMAIN w : w[i].part # "plain"
     => Worded(t) = Worded(WithoutThink(w))

(* A text comes back cleaned. *)
LEMMA CleanedComesBack ==
  ASSUME NEW S, NEW s \in Seq(S)
  PROVE  ComesBack(Cleaned(s), s, Wrote(s))
<1> DEFINE w == Wrote(s)
           u == WithoutThink(s)
<1>1. \A i \in DOMAIN Cleaned(s) : Cleaned(s)[i].part # "sig"
  BY NoMarkIsLeft
<1>2. ASSUME Hidden(s) = {}, \A i \in DOMAIN w : w[i].part # "plain"
      PROVE  Worded(Cleaned(s)) = Worded(WithoutThink(w))
  <2>1. /\ \A a \in DOMAIN w : w[a] = s[Nth(Written(s), a)]
        /\ \A i \in Written(s) : \E a \in DOMAIN w : Nth(Written(s), a) = i
    BY WrittenFacts
  <2>2. \A i \in Written(s) : s[i].part # "plain"
    BY <1>2, <2>1
  <2>3. \A i \in DOMAIN s : s[i].part # "plain"
    BY <2>2 DEF Written
  <2>4. \A i \in DOMAIN u : u[i].part # "plain"
    <3> DEFINE I == DOMAIN s \ InThink(s)
    <3>1. u = Sift(s, I) /\ I \subseteq DOMAIN s
      BY DEF WithoutThink
    <3> HIDE DEF I, u
    <3>2. \A a \in DOMAIN u : \E i \in I : u[a] = s[i]
      BY <3>1, SiftedFrom
    <3>3. QED
      BY <2>3, <3>1, <3>2
  <2>5. u \in Seq(S)
    BY NoMarkIsLeft
  <2>6. Worded(u) = Worded(WithoutThink(w))
    BY <1>2, MarksLeaveNoTrace
  <2> HIDE DEF u, w
  <2>7. WithoutPlain(u) = u
    BY <2>4, <2>5, NoPlainLine
  <2>8. Cleaned(s) = WithoutLastNl(u)
    BY <2>7 DEF Cleaned, u
  <2>9. Worded(WithoutLastNl(u)) = Worded(u)
    BY <2>5, LastNlFacts
  <2>10. QED
    BY <2>6, <2>8, <2>9
<1>3. QED
  BY <1>1, <1>2 DEF ComesBack

----------------------------------------------------------------------------
(* The cache *)

(* No two signatures share the key of a message, nor does a call. *)
LEMMA KeyFacts ==
  /\ \A m, n : MessageKey(m) = MessageKey(n) => m = n
  /\ \A n, id : CallKey(id) # MessageKey(n)
  BY DEF MessageKey, CallKey

AnyKey == {CallKey(id) : id \in CallIds} \cup {MessageKey(n) : n \in Nat}
Source == [key : AnyKey, prov : Providers, at : 0 .. MaxNow]

(* The sources o of the signatures issued by the time t. *)
SourcesOK(o, t) ==
  /\ o \in Seq(Source)
  /\ \A n \in 1 .. Len(o) :
       /\ o[n].at <= t
       /\ o[n].key \in {CallKey(id) : id \in CallIds} \cup {MessageKey(n)}
  /\ \A m, n \in 1 .. Len(o) : m <= n => o[m].at <= o[n].at

(* The cache w of provider g has for each key the last signature g got.    *)
CacheOK(o, g, w) ==
  /\ \A k \in DOMAIN w :
       LET n == w[k].stamp IN
       /\ n \in 1 .. Len(o) /\ w[k].value = n
       /\ o[n].key = k /\ o[n].prov = g /\ w[k].expires_at = o[n].at + Ttl
  /\ \A n \in 1 .. Len(o) : o[n].prov = g => o[n].key \in DOMAIN w /\ n <= w[o[n].key].stamp

(* Signatures are only added. *)
Extends(o, p) == Len(o) <= Len(p) /\ \A n \in 1 .. Len(o) : p[n] = o[n]

(* The keys put in the cache of g after the signature n, up to so many.    *)
Since(o, n, g, issued) ==
  {o[m].key : m \in {m \in n + 1 .. issued : o[m].prov = g}} \ {o[n].key}

(* The reasons of Missing but for the last. *)
Gone(o, n, g, at, issued) ==
  \/ o[n].prov # g
  \/ at - o[n].at >= Ttl
  \/ MaxEntries > 0 /\ Cardinality(Since(o, n, g, issued)) >= MaxEntries

(* A source, and what is known of it. *)
LEMMA SourceFacts ==
  ASSUME NEW o, NEW t, SourcesOK(o, t), NEW n \in 1 .. Len(o)
  PROVE  /\ Len(o) \in Nat /\ n \in Nat
         /\ o[n] \in Source /\ o[n].at \in 0 .. MaxNow /\ o[n].at \in Nat /\ o[n].prov \in Providers
         /\ \A m \in Nat : o[n].key = MessageKey(m) => m = n
<1>1. o \in Seq(Source)
  BY DEF SourcesOK
<1>2. Len(o) \in Nat /\ o[n] \in Source
  BY <1>1, LenProperties, ElementOfSeq
<1>3. MaxNow \in Nat
  BY SignatureAssumption
<1>4. o[n].at \in 0 .. MaxNow /\ o[n].prov \in Providers
  BY <1>2 DEF Source
<1>5. \A m \in Nat : o[n].key = MessageKey(m) => m = n
  BY KeyFacts DEF SourcesOK
<1>6. QED
  BY <1>2, <1>3, <1>4, <1>5

(* There are finitely many keys, so those put in later can be counted.     *)
LEMMA FiniteKeys ==
  ASSUME NEW o, NEW J, NEW n \in Nat, J \subseteq 1 .. n
  PROVE  IsFiniteSet({o[m].key : m \in J})
<1>1. IsFiniteSet(1 .. n)
  BY FS_Interval
<1>2. IsFiniteSet(J)
  BY <1>1, FS_Subset
<1> DEFINE K == {o[m].key : m \in J}
           f == [m \in J |-> o[m].key]
<1>3. f \in Surjection(J, K)
  BY DEF Surjection
<1> HIDE DEF K, f
<1>4. IsFiniteSet(K)
  BY <1>2, <1>3, FS_Surjection
<1>5. QED
  BY <1>4 DEF K

(* Later there are as many keys, or more. *)
LEMMA SinceFacts ==
  ASSUME NEW o, NEW g, NEW n \in Nat, NEW i \in Nat, NEW j \in Nat, i <= j
  PROVE  /\ IsFiniteSet(Since(o, n, g, j))
         /\ Cardinality(Since(o, n, g, i)) <= Cardinality(Since(o, n, g, j))
         /\ Cardinality(Since(o, n, g, i)) \in Nat
         /\ Cardinality(Since(o, n, g, j)) \in Nat
<1> DEFINE Later(x) == {m \in n + 1 .. x : o[m].prov = g}
           Keyed(x) == {o[m].key : m \in Later(x)}
<1>1. Later(j) \subseteq 1 .. j /\ Later(i) \subseteq Later(j)
  OBVIOUS
<1>2. Keyed(i) \subseteq Keyed(j)
  BY <1>1
<1>3. IsFiniteSet(Keyed(j))
  <2>1. PICK J : J = Later(j)
    OBVIOUS
  <2>2. J \subseteq 1 .. j
    BY <1>1, <2>1
  <2>3. IsFiniteSet({o[m].key : m \in J})
    BY <2>2, FiniteKeys
  <2>4. QED
    BY <2>1, <2>3
<1>4. Since(o, n, g, i) = Keyed(i) \ {o[n].key} /\ Since(o, n, g, j) = Keyed(j) \ {o[n].key}
  BY DEF Since
<1> HIDE DEF Keyed
<1>5. /\ Since(o, n, g, i) \subseteq Since(o, n, g, j)
      /\ Since(o, n, g, j) \subseteq Keyed(j)
  BY <1>2, <1>4
<1>6. IsFiniteSet(Since(o, n, g, j))
  BY <1>3, <1>5, FS_Subset
<1>7. IsFiniteSet(Since(o, n, g, i))
  BY <1>5, <1>6, FS_Subset
<1>8. QED
  BY <1>5, <1>6, <1>7, FS_Subset, FS_CardinalityType

(* A key that was put in by g, and how it stands in the cache. *)
LEMMA EntryFacts ==
  ASSUME NEW o, NEW t, NEW g, NEW w, SourcesOK(o, t), CacheOK(o, g, w),
         NEW n \in 1 .. Len(o), o[n].prov = g
  PROVE  /\ o[n].key \in DOMAIN w
         /\ w[o[n].key].stamp \in 1 .. Len(o) /\ n <= w[o[n].key].stamp
         /\ w[o[n].key].value = w[o[n].key].stamp
         /\ o[n].at + Ttl <= w[o[n].key].expires_at /\ w[o[n].key].expires_at \in Nat
         /\ o[n].key = MessageKey(n) =>
              /\ w[o[n].key].stamp = n
              /\ w[o[n].key].expires_at = o[n].at + Ttl
<1> DEFINE k == o[n].key
           m == w[k].stamp
<1>1. k \in DOMAIN w /\ n <= m
  BY DEF CacheOK
<1>2. /\ m \in 1 .. Len(o) /\ w[k].value = m
      /\ o[m].key = k /\ o[m].prov = g /\ w[k].expires_at = o[m].at + Ttl
  BY <1>1 DEF CacheOK
<1>3. o[n].at \in Nat /\ n \in Nat
  BY SourceFacts
<1> HIDE DEF m
<1>4. o[m].at \in Nat /\ \A p \in Nat : o[m].key = MessageKey(p) => p = m
  BY <1>2, SourceFacts
<1>5. o[n].at <= o[m].at
  BY <1>1, <1>2 DEF SourcesOK
<1>6. Ttl \in Nat
  BY SignatureAssumption
<1>7. o[n].at + Ttl <= w[k].expires_at /\ w[k].expires_at \in Nat
  BY <1>2, <1>3, <1>4, <1>5, <1>6
<1>8. k = MessageKey(n) => m = n
  BY <1>2, <1>3, <1>4
<1>9. QED
  BY <1>1, <1>2, <1>7, <1>8 DEF m

(* What is found under a key was put there by g. *)
LEMMA FoundFacts ==
  ASSUME NEW o, NEW t, NEW g, NEW w, SourcesOK(o, t), CacheOK(o, g, w), NEW k, Alive(w, k, t)
  PROVE  /\ Lookup(w, k, t) \in 1 .. Len(o) /\ Lookup(w, k, t) # None
         /\ o[Lookup(w, k, t)].key = k /\ o[Lookup(w, k, t)].prov = g
<1>1. k \in DOMAIN w /\ Lookup(w, k, t) = w[k].value
  BY DEF Alive, Lookup
<1>2. w[k].value \in 1 .. Len(o) /\ o[w[k].value].key = k /\ o[w[k].value].prov = g
  BY <1>1 DEF CacheOK
<1>3. w[k].value # None
  BY <1>2, SignatureAssumption
<1>4. QED
  BY <1>1, <1>2, <1>3

(* The keys put in after an entry. *)
LEMMA NewerFacts ==
  ASSUME NEW o, NEW t, NEW g, NEW w, SourcesOK(o, t), CacheOK(o, g, w),
         NEW n \in 1 .. Len(o), o[n].prov = g
  PROVE  /\ IsFiniteSet(NewerIn(w, o[n].key))
         /\ NewerIn(w, o[n].key) \subseteq Since(o, n, g, Len(o))
<1> DEFINE k == o[n].key
           Later == {m \in n + 1 .. Len(o) : o[m].prov = g}
<1>1. k \in DOMAIN w /\ w[k].stamp \in 1 .. Len(o) /\ n <= w[k].stamp
  BY EntryFacts
<1>2. Len(o) \in Nat /\ n \in Nat
  BY SourceFacts
<1>3. ASSUME NEW j \in NewerIn(w, k)
      PROVE  j # k /\ w[j].stamp \in Later /\ o[w[j].stamp].key = j
  <2>1. j \in DOMAIN w /\ w[j].stamp > w[k].stamp
    BY DEF NewerIn
  <2>2. w[j].stamp \in 1 .. Len(o) /\ o[w[j].stamp].key = j /\ o[w[j].stamp].prov = g
    BY <2>1 DEF CacheOK
  <2>3. QED
    BY <1>1, <1>2, <2>1, <2>2
<1>4. Later \subseteq 1 .. Len(o)
  BY <1>2
<1> HIDE DEF Later
<1>5. NewerIn(w, k) \subseteq {o[m].key : m \in Later} \ {k}
  BY <1>3
<1>6. IsFiniteSet({o[m].key : m \in Later})
  BY <1>2, <1>4, FiniteKeys
<1>7. IsFiniteSet(NewerIn(w, k))
  BY <1>5, <1>6, FS_Subset
<1>8. NewerIn(w, k) \subseteq Since(o, n, g, Len(o))
  BY <1>5 DEF Since, Later
<1>9. QED
  BY <1>7, <1>8

(* A signature that is not found is missing for a reason. *)
LEMMA NotFoundIsGone ==
  ASSUME NEW o, NEW t \in Nat, NEW g, NEW w, SourcesOK(o, t), CacheOK(o, g, w),
         NEW n \in 1 .. Len(o), ~ Alive(w, o[n].key, t)
  PROVE  Gone(o, n, g, t, Len(o))
<1> DEFINE k == o[n].key
<1> SUFFICES ASSUME o[n].prov = g PROVE Gone(o, n, g, t, Len(o))
  BY DEF Gone
<1>1. k \in DOMAIN w /\ o[n].at + Ttl <= w[k].expires_at /\ w[k].expires_at \in Nat
  BY EntryFacts
<1>2. o[n].at \in Nat /\ Len(o) \in Nat /\ n \in Nat
  BY SourceFacts
<1>3. Ttl \in Nat /\ MaxEntries \in Nat
  BY SignatureAssumption
<1>4. CASE ~ (t < w[k].expires_at)
  <2>1. t - o[n].at >= Ttl
    BY <1>1, <1>2, <1>3, <1>4
  <2>2. QED
    BY <2>1 DEF Gone
<1>5. CASE MaxEntries > 0 /\ ~ (Cardinality(NewerIn(w, k)) < MaxEntries)
  <2>1. NewerIn(w, k) \subseteq Since(o, n, g, Len(o))
    BY NewerFacts
  <2>2. IsFiniteSet(Since(o, n, g, Len(o)))
    BY <1>2, SinceFacts
  <2>3. /\ Cardinality(NewerIn(w, k)) <= Cardinality(Since(o, n, g, Len(o)))
        /\ Cardinality(NewerIn(w, k)) \in Nat /\ Cardinality(Since(o, n, g, Len(o))) \in Nat
    BY <2>1, <2>2, FS_Subset, FS_CardinalityType
  <2>4. Cardinality(Since(o, n, g, Len(o))) >= MaxEntries
    BY <1>3, <1>5, <2>3
  <2>5. QED
    BY <1>5, <2>4 DEF Gone
<1>6. QED
  BY <1>1, <1>4, <1>5 DEF Alive

(* At the time t provider g went from the sources o to p, and its cache is *)
(* w now: the others' caches are as right as they were.                    *)
Grown(o, p, t, g, w) ==
  /\ SourcesOK(p, t) /\ Extends(o, p) /\ Len(p) \in Nat
  /\ CacheOK(p, g, w)
  /\ \A h, v : h # g /\ CacheOK(o, h, v) => CacheOK(p, h, v)

(* p is o and a signature that g is given for k at the time t. *)
Issuing(o, t, g, w, k, p) ==
  /\ t \in 0 .. MaxNow /\ g \in Providers /\ SourcesOK(o, t) /\ CacheOK(o, g, w)
  /\ k \in {CallKey(id) : id \in CallIds} \cup {MessageKey(Len(o) + 1)}
  /\ p = Append(o, [key |-> k, prov |-> g, at |-> t])

(* It is the last one, and in the cache of g. *)
Issued(o, t, g, w, k, p) ==
  /\ Grown(o, p, t, g, Write(w, k, Len(o) + 1, t, Len(o) + 1))
  /\ Len(p) = Len(o) + 1 /\ p[Len(p)].key = k /\ p[Len(p)].prov = g

(* A signature is issued. *)
LEMMA IssueFacts ==
  ASSUME NEW o, NEW t, NEW g, NEW w, NEW k, NEW p, Issuing(o, t, g, w, k, p)
  PROVE  Issued(o, t, g, w, k, p)
<1> SUFFICES ASSUME t \in 0 .. MaxNow, g \in Providers, SourcesOK(o, t), CacheOK(o, g, w),
                    k \in {CallKey(id) : id \in CallIds} \cup {MessageKey(Len(o) + 1)},
                    p = Append(o, [key |-> k, prov |-> g, at |-> t])
             PROVE  Issued(o, t, g, w, k, p)
  BY DEF Issuing
<1> DEFINE N == Len(o) + 1
           new == [key |-> k, prov |-> g, at |-> t]
<1>1. o \in Seq(Source) /\ Len(o) \in Nat /\ N \in Nat
  BY LenProperties DEF SourcesOK
<1>2. new \in Source
  <2>1. k \in AnyKey
    BY <1>1 DEF AnyKey
  <2>2. QED
    BY <2>1 DEF Source
<1>3. new.key = k /\ new.prov = g /\ new.at = t
  OBVIOUS
<1> HIDE DEF new
<1>4. /\ p \in Seq(Source) /\ Len(p) = N /\ p[N] = new
      /\ \A n \in 1 .. Len(o) : p[n] = o[n]
  BY <1>1, <1>2 DEF new
<1>5. \A n \in 1 .. N : n \in 1 .. Len(o) \/ n = N
  BY <1>1
<1>6. MaxNow \in Nat /\ t \in Nat
  BY SignatureAssumption
<1>7. \A n \in 1 .. Len(o) : o[n].at <= t /\ o[n].at \in Nat
  BY SourceFacts DEF SourcesOK
<1>8. Extends(o, p)
  BY <1>1, <1>4 DEF Extends
<1>9. SourcesOK(p, t)
  <2>1. ASSUME NEW n \in 1 .. N
        PROVE  p[n].at <= t /\ p[n].key \in {CallKey(id) : id \in CallIds} \cup {MessageKey(n)}
    BY <1>3, <1>4, <1>5, <1>6 DEF SourcesOK
  <2>2. ASSUME NEW m \in 1 .. N, NEW n \in 1 .. N, m <= n PROVE p[m].at <= p[n].at
    <3>1. CASE n = N
      BY <1>3, <1>4, <2>1, <3>1
    <3>2. CASE n # N
      <4>1. n \in 1 .. Len(o) /\ m \in 1 .. Len(o)
        BY <1>1, <1>5, <2>2, <3>2
      <4>2. QED
        BY <1>4, <2>2, <4>1 DEF SourcesOK
    <3>3. QED
      BY <3>1, <3>2
  <2> HIDE DEF N
  <2>3. QED
    BY <1>4, <2>1, <2>2 DEF SourcesOK
<1>10. CacheOK(p, g, Write(w, k, N, t, N))
  <2> DEFINE v == Write(w, k, N, t, N)
  <2>1. /\ DOMAIN v = DOMAIN w \cup {k}
        /\ v[k].value = N /\ v[k].expires_at = t + Ttl /\ v[k].stamp = N
        /\ \A j \in DOMAIN w : j # k => v[j] = w[j]
    BY DEF Write
  <2> HIDE DEF v
  <2>2. ASSUME NEW j \in DOMAIN v
        PROVE  /\ v[j].stamp \in 1 .. N /\ v[j].value = v[j].stamp
               /\ p[v[j].stamp].key = j /\ p[v[j].stamp].prov = g
               /\ v[j].expires_at = p[v[j].stamp].at + Ttl
    <3>1. CASE j = k
      BY <1>1, <1>3, <1>4, <2>1, <3>1
    <3>2. CASE j # k
      <4>1. j \in DOMAIN w /\ v[j] = w[j]
        BY <2>1, <2>2, <3>2
      <4>2. w[j].stamp \in 1 .. Len(o) /\ w[j].value = w[j].stamp
            /\ o[w[j].stamp].key = j /\ o[w[j].stamp].prov = g
            /\ w[j].expires_at = o[w[j].stamp].at + Ttl
        BY <4>1 DEF CacheOK
      <4>3. w[j].stamp \in 1 .. N
        BY <1>1, <4>2
      <4>4. QED
        BY <1>4, <4>1, <4>2, <4>3
    <3>3. QED
      BY <3>1, <3>2
  <2>3. ASSUME NEW n \in 1 .. N, p[n].prov = g
        PROVE  p[n].key \in DOMAIN v /\ n <= v[p[n].key].stamp
    <3>1. CASE n = N
      BY <1>1, <1>3, <1>4, <2>1, <3>1
    <3>2. CASE n # N
      <4>1. n \in 1 .. Len(o) /\ p[n] = o[n]
        BY <1>4, <1>5, <3>2
      <4>2. o[n].key \in DOMAIN w /\ n <= w[o[n].key].stamp
        BY <2>3, <4>1 DEF CacheOK
      <4>3. CASE o[n].key = k
        BY <1>1, <2>1, <4>1, <4>3
      <4>4. CASE o[n].key # k
        BY <2>1, <4>1, <4>2, <4>4
      <4>5. QED
        BY <4>3, <4>4
    <3>3. QED
      BY <3>1, <3>2
  <2>4. QED
    BY <1>4, <2>2, <2>3 DEF CacheOK, v
<1>11. ASSUME NEW h, NEW v, h # g, CacheOK(o, h, v) PROVE CacheOK(p, h, v)
  <2>1. ASSUME NEW j \in DOMAIN v
        PROVE  /\ v[j].stamp \in 1 .. Len(p) /\ v[j].value = v[j].stamp
               /\ p[v[j].stamp].key = j /\ p[v[j].stamp].prov = h
               /\ v[j].expires_at = p[v[j].stamp].at + Ttl
    <3>1. v[j].stamp \in 1 .. Len(o) /\ v[j].value = v[j].stamp
          /\ o[v[j].stamp].key = j /\ o[v[j].stamp].prov = h
          /\ v[j].expires_at = o[v[j].stamp].at + Ttl
      BY <1>11, <2>1 DEF CacheOK
    <3>2. QED
      BY <1>1, <1>4, <3>1
  <2>2. ASSUME NEW n \in 1 .. Len(p), p[n].prov = h
        PROVE  p[n].key \in DOMAIN v /\ n <= v[p[n].key].stamp
    <3>1. n \in 1 .. Len(o) /\ p[n] = o[n]
      BY <1>3, <1>4, <1>5, <1>11, <2>2
    <3>2. QED
      BY <1>11, <2>2, <3>1 DEF CacheOK
  <2>3. QED
    BY <2>1, <2>2 DEF CacheOK
<1>12. p[Len(p)].key = k /\ p[Len(p)].prov = g
  BY <1>3, <1>4
<1>13. Grown(o, p, t, g, Write(w, k, N, t, N))
  <2> HIDE DEF N
  <2>1. QED
    BY <1>1, <1>4, <1>8, <1>9, <1>10, <1>11 DEF Grown
<1>14. QED
  BY <1>4, <1>12, <1>13 DEF Issued

----------------------------------------------------------------------------
(* Replies *)

(* The parts of a text that holds at most the marks of n signatures. *)
PartsUpTo(n) ==
  WrittenParts \cup {Text("br")}
  \cup [part : {"sig"}, key : {MessageKey(m) : m \in 1 .. n}]

ReplyUpTo(n) ==
  [content : Seq(PartsUpTo(n)), wrote : Seq(WrittenParts), calls : Seq(CallIds),
   callSigs : Seq(1 .. n), messageSigs : Seq(1 .. n), deltas : 0 .. MaxDeltas]

SentUpTo(n) ==
  [message : (1 .. n) \cup {None}, calls : Seq((1 .. n) \cup {None}),
   content : Seq(PartsUpTo(n)), at : 0 .. MaxNow, issued : 0 .. n]

(* The places of the marks. *)
Sigs(s) == {i \in DOMAIN s : s[i].part = "sig"}

(* The content s of a reply whose own signatures are ms and of which the   *)
(* upstream wrote w: it has a mark for each of ms, in their order, and no  *)
(* others.                                                                 *)
ContentOK(s, w, ms) ==
  /\ \A i \in Sigs(s) : \E j \in 1 .. Len(ms) : s[i].key = MessageKey(ms[j])
  /\ \A j \in 1 .. Len(ms) : \E i \in Sigs(s) : s[i].key = MessageKey(ms[j])
  /\ \A h, i \in Sigs(s) : \A x, y \in Nat :
       h < i /\ s[h].key = MessageKey(x) /\ s[i].key = MessageKey(y) => x < y
  /\ Wrote(s) = w

(* A reply r: whose its signatures are, and how they are marked. *)
Signed(o, r) ==
  /\ r \in ReplyUpTo(Len(o))
  /\ Len(r.callSigs) = Len(r.calls)
  /\ \A j \in 1 .. Len(r.calls) : o[r.callSigs[j]].key = CallKey(r.calls[j])
  /\ \A j \in 1 .. Len(r.messageSigs) :
       o[r.messageSigs[j]].key = MessageKey(r.messageSigs[j])
  /\ ContentOK(r.content, r.wrote, r.messageSigs)

(* What the parts are. *)
LEMMA PartFacts ==
  /\ \A p \in WrittenParts : p.part \notin {"sig", "br"}
  /\ Text("br").part = "br"
  /\ \A n : Block(n).part = "sig" /\ Block(n).key = MessageKey(n)
<1>1. \A x : Text(x).part = x
  BY DEF Text
<1>2. QED
  BY <1>1 DEF WrittenParts, Block

(* What was written of two texts joined. *)
LEMMA WroteJoined ==
  ASSUME NEW S, NEW s \in Seq(S), NEW u \in Seq(S)
  PROVE  Wrote(s \o u) = Wrote(s) \o Wrote(u)
<1> DEFINE c == s \o u
           m == Len(s)
           I == Written(s)
           J == Written(u)
<1>1. Joins(S, s, u, c)
  BY Joined
<1> HIDE DEF c
<1>2. /\ m \in Nat /\ Len(u) \in Nat /\ DOMAIN c = 1 .. m + Len(u)
      /\ \A i \in 1 .. m : c[i] = s[i]
      /\ \A i \in m + 1 .. m + Len(u) : c[i] = u[i - m]
      /\ \A i \in 1 .. Len(u) : c[m + i] = u[i]
  BY <1>1, Zenon DEF Joins
<1>3. DOMAIN s = 1 .. m /\ DOMAIN u = 1 .. Len(u)
  BY LenProperties
<1>4. /\ \A i : i \in I <=> i \in 1 .. m /\ s[i].part \notin {"sig", "br"}
      /\ \A i : i \in J <=> i \in 1 .. Len(u) /\ u[i].part \notin {"sig", "br"}
      /\ \A i : i \in Written(c) <=> i \in 1 .. m + Len(u) /\ c[i].part \notin {"sig", "br"}
  BY <1>2, <1>3 DEF Written
<1>5. I \in SUBSET (1 .. m) /\ J \in SUBSET (1 .. Len(u))
  BY <1>4
<1> HIDE DEF I, J, m
<1>6. Written(c) = Beyond(m, I, J)
  <2>1. ASSUME NEW i \in Written(c) PROVE i \in Beyond(m, I, J)
    <3>1. i \in 1 .. m + Len(u) /\ c[i].part \notin {"sig", "br"}
      BY <1>4, <2>1
    <3>2. CASE i \in 1 .. m
      BY <1>2, <1>4, <3>1, <3>2 DEF Beyond
    <3>3. CASE i \notin 1 .. m
      <4>1. i \in m + 1 .. m + Len(u) /\ i - m \in 1 .. Len(u) /\ i = m + (i - m)
        BY <1>2, <3>1, <3>3
      <4>2. i - m \in J
        BY <1>2, <1>4, <3>1, <4>1
      <4>3. QED
        BY <4>1, <4>2 DEF Beyond
    <3>4. QED
      BY <3>2, <3>3
  <2>2. ASSUME NEW i \in Beyond(m, I, J) PROVE i \in Written(c)
    <3>1. CASE i \in I
      <4>1. i \in 1 .. m /\ i \in 1 .. m + Len(u)
        BY <1>2, <1>4, <3>1
      <4>2. QED
        BY <1>2, <1>4, <3>1, <4>1
    <3>2. CASE i \in {m + j : j \in J}
      <4>1. PICK j \in J : i = m + j
        BY <3>2
      <4>2. j \in 1 .. Len(u) /\ u[j].part \notin {"sig", "br"}
        BY <1>4
      <4>3. i \in 1 .. m + Len(u) /\ c[i] = u[j]
        BY <1>2, <4>1, <4>2
      <4>4. QED
        BY <1>4, <4>2, <4>3
    <3>3. QED
      BY <2>2, <3>1, <3>2 DEF Beyond
  <2>3. QED
    BY <2>1, <2>2
<1>7. SiftsJoin(s, u, I, J)
  BY <1>5, SiftJoined DEF m
<1>8. QED
  BY <1>6, <1>7 DEF SiftsJoin, Wrote, c, m, I, J

(* A piece without a mark is added. *)
LEMMA NoMarkAdded ==
  ASSUME NEW S, NEW s \in Seq(S), NEW z \in Seq(S), Sigs(z) = {},
         NEW w, NEW ms, ContentOK(s, w, ms), NEW c, c = s \o z
  PROVE  ContentOK(c, w \o Wrote(z), ms)
<1>1. Joins(S, s, z, c)
  BY Joined
<1>2. /\ Len(s) \in Nat /\ Len(z) \in Nat /\ DOMAIN c = 1 .. Len(s) + Len(z)
      /\ \A i \in 1 .. Len(s) : c[i] = s[i]
      /\ \A i \in Len(s) + 1 .. Len(s) + Len(z) : c[i] = z[i - Len(s)]
  BY <1>1, Zenon DEF Joins
<1>3. DOMAIN s = 1 .. Len(s) /\ DOMAIN z = 1 .. Len(z)
  BY LenProperties
<1>4. ASSUME NEW i \in Sigs(c)
      PROVE  i \in Sigs(s)
  <2>1. i \in 1 .. Len(s) + Len(z) /\ c[i].part = "sig"
    BY <1>2 DEF Sigs
  <2>2. CASE i \in 1 .. Len(s)
    BY <1>2, <1>3, <2>1, <2>2 DEF Sigs
  <2>3. CASE i \notin 1 .. Len(s)
    <3>1. i \in Len(s) + 1 .. Len(s) + Len(z) /\ i - Len(s) \in DOMAIN z
      BY <1>2, <1>3, <2>1, <2>3
    <3>2. i - Len(s) \in Sigs(z)
      BY <1>2, <2>1, <3>1 DEF Sigs
    <3>3. QED
      BY <3>2
  <2>4. QED
    BY <2>2, <2>3
<1>5. ASSUME NEW i \in Sigs(s)
      PROVE  i \in Sigs(c) /\ c[i] = s[i]
  <2>1. i \in 1 .. Len(s) /\ i \in 1 .. Len(s) + Len(z) /\ s[i].part = "sig"
    BY <1>2, <1>3 DEF Sigs
  <2>2. QED
    BY <1>2, <2>1 DEF Sigs
<1>6. Sigs(c) = Sigs(s)
  BY <1>4, <1>5
<1>7. Wrote(c) = w \o Wrote(z)
  BY WroteJoined DEF ContentOK
<1>8. /\ \A i \in Sigs(c) : \E j \in 1 .. Len(ms) : c[i].key = MessageKey(ms[j])
      /\ \A j \in 1 .. Len(ms) : \E i \in Sigs(c) : c[i].key = MessageKey(ms[j])
  <2>1. ASSUME NEW i \in Sigs(c) PROVE \E j \in 1 .. Len(ms) : c[i].key = MessageKey(ms[j])
    <3>1. i \in Sigs(s) /\ c[i] = s[i]
      BY <1>5, <1>6
    <3>2. QED
      BY <3>1 DEF ContentOK
  <2>2. ASSUME NEW j \in 1 .. Len(ms) PROVE \E i \in Sigs(c) : c[i].key = MessageKey(ms[j])
    <3>1. PICK i \in Sigs(s) : s[i].key = MessageKey(ms[j])
      BY DEF ContentOK
    <3>2. QED
      BY <1>5, <3>1
  <2>3. QED
    BY <2>1, <2>2
<1>9. ASSUME NEW h \in Sigs(c), NEW i \in Sigs(c), NEW x \in Nat, NEW y \in Nat,
             h < i, c[h].key = MessageKey(x), c[i].key = MessageKey(y)
      PROVE  x < y
  <2>1. h \in Sigs(s) /\ i \in Sigs(s)
    BY <1>6
  <2>2. s[h].key = MessageKey(x) /\ s[i].key = MessageKey(y)
    BY <1>5, <1>9, <2>1
  <2>3. QED
    BY <1>9, <2>1, <2>2 DEF ContentOK
<1>10. QED
  BY <1>7, <1>8, <1>9 DEF ContentOK

(* Nothing is written where nothing is. *)
LEMMA NothingWritten ==
  ASSUME NEW S, NEW s \in Seq(S), Written(s) = {}
  PROVE  Wrote(s) = << >>
<1> DEFINE u == Sift(s, {})
<1>1. Cardinality({}) = 0
  BY FS_EmptySet
<1>2. u \in Seq(S) /\ DOMAIN u = 1 .. 0
  BY <1>1, SiftedFrom
<1>3. Wrote(s) = u
  BY DEF Wrote
<1> HIDE DEF u
<1>4. u = << >>
  BY <1>2
<1>5. QED
  BY <1>3, <1>4

(* What the upstream writes has no mark. *)
LEMMA WrittenIsWritten ==
  ASSUME NEW d \in Seq(WrittenParts)
  PROVE  Sigs(d) = {} /\ Wrote(d) = d
<1>1. \A i \in DOMAIN d : d[i] \in WrittenParts
  BY LenProperties, ElementOfSeq
<1>2. \A i \in DOMAIN d : d[i].part \notin {"sig", "br"}
  BY <1>1, PartFacts
<1>3. Written(d) = DOMAIN d
  BY <1>2 DEF Written
<1>4. QED
  BY <1>2, <1>3, SiftAll DEF Sigs, Wrote

(* A mark is added, of a signature that is the newest. *)
LEMMA MarkAdded ==
  ASSUME NEW S, NEW s \in Seq(S), NEW n \in Nat, Block(n) \in S,
         NEW w, w \in Seq(WrittenParts), NEW ms \in Seq(Nat),
         \A j \in 1 .. Len(ms) : ms[j] < n,
         ContentOK(s, w, ms), NEW c, c = s \o <<Block(n)>>
  PROVE  ContentOK(c, w, Append(ms, n))
<1> DEFINE z == <<Block(n)>>
           l == Len(s) + 1
           ns == Append(ms, n)
<1>1. z \in Seq(S) /\ Len(z) = 1 /\ z[1] = Block(n) /\ DOMAIN z = 1 .. 1
  OBVIOUS
<1>2. c = s \o z
  OBVIOUS
<1>3. Block(n).part = "sig" /\ Block(n).key = MessageKey(n)
  BY PartFacts
<1>4. Wrote(z) = << >>
  <2> HIDE DEF z
  <2>1. Written(z) = {}
    BY <1>1, <1>3 DEF Written
  <2>2. QED
    BY <1>1, <2>1, NothingWritten
<1> HIDE DEF z
<1>5. Joins(S, s, z, c)
  BY <1>1, <1>2, Joined
<1>6. /\ Len(s) \in Nat /\ DOMAIN c = 1 .. Len(s) + 1
      /\ \A i \in 1 .. Len(s) : c[i] = s[i]
      /\ c[l] = Block(n)
  <2>1. /\ Len(s) \in Nat /\ DOMAIN c = 1 .. Len(s) + Len(z)
        /\ \A i \in 1 .. Len(s) : c[i] = s[i]
        /\ \A i \in 1 .. Len(z) : c[Len(s) + i] = z[i]
    BY <1>5, Zenon DEF Joins
  <2>2. 1 \in 1 .. Len(z)
    BY <1>1
  <2>3. QED
    BY <1>1, <2>1, <2>2
<1>7. DOMAIN s = 1 .. Len(s)
  BY LenProperties
<1>8. /\ Len(ms) \in Nat /\ Len(ns) = Len(ms) + 1 /\ ns[Len(ms) + 1] = n
      /\ \A j \in 1 .. Len(ms) : ns[j] = ms[j] /\ ms[j] \in Nat
  BY AppendProperties, LenProperties, ElementOfSeq
<1> HIDE DEF ns, l
<1>9. /\ l \in Sigs(c) /\ c[l].key = MessageKey(n)
      /\ \A i \in Sigs(s) : i \in Sigs(c) /\ c[i] = s[i] /\ i < l /\ i \in Nat
      /\ \A i \in Sigs(c) : i = l \/ i \in Sigs(s)
  <2>1. l \in 1 .. Len(s) + 1 /\ l \in Nat /\ l = Len(s) + 1
    BY <1>6 DEF l
  <2>2. l \in Sigs(c) /\ c[l].key = MessageKey(n)
    BY <1>3, <1>6, <2>1 DEF Sigs
  <2>3. ASSUME NEW i \in Sigs(s)
        PROVE  i \in Sigs(c) /\ c[i] = s[i] /\ i < l /\ i \in Nat
    <3>1. i \in 1 .. Len(s) /\ i \in 1 .. Len(s) + 1 /\ s[i].part = "sig"
      BY <1>6, <1>7 DEF Sigs
    <3>2. QED
      BY <1>6, <2>1, <3>1 DEF Sigs
  <2>4. ASSUME NEW i \in Sigs(c)
        PROVE  i = l \/ i \in Sigs(s)
    <3>1. i \in 1 .. Len(s) + 1 /\ c[i].part = "sig"
      BY <1>6 DEF Sigs
    <3>2. i = l \/ i \in 1 .. Len(s)
      BY <1>6, <2>1, <3>1
    <3>3. QED
      BY <1>6, <1>7, <3>1, <3>2 DEF Sigs
  <2>5. QED
    BY <2>2, <2>3, <2>4
<1>10. \A j : j \in 1 .. Len(ns) <=> j \in 1 .. Len(ms) \/ j = Len(ms) + 1
  BY <1>8
<1>11. ASSUME NEW i \in Sigs(c)
       PROVE  \E j \in 1 .. Len(ns) : c[i].key = MessageKey(ns[j])
  <2>1. CASE i = l
    BY <1>8, <1>9, <1>10, <2>1
  <2>2. CASE i \in Sigs(s)
    <3>1. PICK j \in 1 .. Len(ms) : s[i].key = MessageKey(ms[j])
      BY <2>2 DEF ContentOK
    <3>2. QED
      BY <1>8, <1>9, <1>10, <2>2, <3>1
  <2>3. QED
    BY <1>9, <2>1, <2>2
<1>12. ASSUME NEW j \in 1 .. Len(ns)
       PROVE  \E i \in Sigs(c) : c[i].key = MessageKey(ns[j])
  <2>1. CASE j = Len(ms) + 1
    BY <1>8, <1>9, <2>1
  <2>2. CASE j \in 1 .. Len(ms)
    <3>1. PICK i \in Sigs(s) : s[i].key = MessageKey(ms[j])
      BY <2>2 DEF ContentOK
    <3>2. QED
      BY <1>8, <1>9, <2>2, <3>1
  <2>3. QED
    BY <1>10, <2>1, <2>2
<1>13. ASSUME NEW h \in Sigs(c), NEW i \in Sigs(c), NEW x \in Nat, NEW y \in Nat,
              h < i, c[h].key = MessageKey(x), c[i].key = MessageKey(y)
       PROVE  x < y
  <2>1. h \in Sigs(s)
    <3>1. ASSUME h = l PROVE FALSE
      <4>1. i = l \/ (i < l /\ i \in Nat)
        BY <1>9
      <4>2. QED
        BY <1>6, <1>13, <3>1, <4>1 DEF l
    <3>2. QED
      BY <1>9, <3>1
  <2>2. CASE i \in Sigs(s)
    <3>1. s[h].key = MessageKey(x) /\ s[i].key = MessageKey(y)
      BY <1>9, <1>13, <2>1, <2>2
    <3>2. QED
      BY <1>13, <2>1, <2>2, <3>1 DEF ContentOK
  <2>3. CASE i = l
    <3>1. MessageKey(y) = MessageKey(n)
      BY <1>9, <1>13, <2>3
    <3>2. y = n
      BY <3>1, KeyFacts
    <3>3. s[h].key = MessageKey(x)
      BY <1>9, <1>13, <2>1
    <3>4. PICK j \in 1 .. Len(ms) : s[h].key = MessageKey(ms[j])
      BY <2>1 DEF ContentOK
    <3>5. MessageKey(x) = MessageKey(ms[j])
      BY <3>3, <3>4
    <3>6. x = ms[j]
      BY <3>5, KeyFacts
    <3>7. QED
      BY <3>2, <3>6
  <2>4. QED
    BY <1>9, <2>2, <2>3
<1>14. Wrote(c) = w
  <2>1. Wrote(c) = Wrote(s) \o Wrote(z)
    BY <1>1, <1>2, WroteJoined
  <2>2. Wrote(s) = w
    BY DEF ContentOK
  <2>3. w \o << >> = w
    BY ConcatEmptySeq
  <2>4. QED
    BY <1>4, <2>1, <2>2, <2>3
<1>15. QED
  BY <1>11, <1>12, <1>13, <1>14 DEF ContentOK, ns

(* Four sequences joined from the right or from the left. *)
Regroups(s, d, l, b) == s \o (d \o (l \o b)) = ((s \o d) \o l) \o b

LEMMA Regrouped ==
  ASSUME NEW S, NEW s \in Seq(S), NEW d \in Seq(S), NEW l \in Seq(S), NEW b \in Seq(S)
  PROVE  Regroups(s, d, l, b)
<1>1. PICK t : t = l \o b
  OBVIOUS
<1>2. PICK u : u = s \o d
  OBVIOUS
<1>3. t \in Seq(S) /\ u \in Seq(S)
  BY <1>1, <1>2, ConcatProperties
<1>4. s \o (d \o t) = (s \o d) \o t
  BY <1>3
<1>5. u \o (l \o b) = (u \o l) \o b
  BY <1>3
<1>6. QED
  BY <1>1, <1>2, <1>4, <1>5 DEF Regroups

(* A text is added and marked. *)
LEMMA MarkedAdded ==
  ASSUME NEW n \in Nat, NEW s \in Seq(PartsUpTo(n)), n \in 1 .. n,
         NEW w \in Seq(WrittenParts), NEW ms \in Seq(Nat), \A j \in 1 .. Len(ms) : ms[j] < n,
         ContentOK(s, w, ms), NEW d \in Seq(WrittenParts), NEW c, c = s \o Marked(d, n)
  PROVE  c \in Seq(PartsUpTo(n)) /\ ContentOK(c, w \o d, Append(ms, n))
<1> DEFINE S == PartsUpTo(n)
           b == <<Block(n)>>
           l == <<Text("br")>>
<1>1. /\ Block(n) \in S /\ Text("br") \in S /\ b \in Seq(S) /\ l \in Seq(S)
      /\ d \in Seq(S) /\ s \in Seq(S)
  <2>1. Text("br") \in S
    BY DEF PartsUpTo
  <2>2. Block(n) \in S
    <3>1. MessageKey(n) \in {MessageKey(m) : m \in 1 .. n}
      OBVIOUS
    <3>2. Block(n) \in [part : {"sig"}, key : {MessageKey(m) : m \in 1 .. n}]
      BY <3>1 DEF Block
    <3>3. QED
      BY <3>2 DEF PartsUpTo
  <2>3. WrittenParts \subseteq S
    BY DEF PartsUpTo
  <2> HIDE DEF S
  <2>4. d \in Seq(S)
    BY <2>3
  <2>5. b \in Seq(S) /\ l \in Seq(S)
    BY <2>1, <2>2
  <2>6. QED
    BY <2>1, <2>2, <2>4, <2>5 DEF S
<1>2. Sigs(d) = {} /\ Wrote(d) = d
  BY WrittenIsWritten
<1>3. Sigs(l) = {} /\ Wrote(l) = << >>
  <2>1. DOMAIN l = {1} /\ l[1].part = "br"
    BY PartFacts
  <2>2. Written(l) = {} /\ Sigs(l) = {}
    BY <2>1 DEF Written, Sigs
  <2> HIDE DEF l
  <2>3. Wrote(l) = << >>
    <3>1. l \in Seq(S)
      BY <1>1
    <3>2. QED
      BY <2>2, <3>1, NothingWritten
  <2>4. QED
    BY <2>2, <2>3
<1>4. w \o d \in Seq(WrittenParts) /\ (w \o d) \o << >> = w \o d
  BY ConcatProperties, ConcatEmptySeq
<1>5. ContentOK(s \o d, w \o d, ms) /\ s \o d \in Seq(S)
  <2>1. s \o d \in Seq(S)
    BY <1>1, ConcatProperties
  <2> HIDE DEF S
  <2>2. ContentOK(s \o d, w \o Wrote(d), ms)
    BY <1>1, <1>2, NoMarkAdded
  <2>3. QED
    BY <1>2, <2>1, <2>2
<1>6. CASE d = << >>
  <2>1. Marked(d, n) = b
    BY <1>6 DEF Marked
  <2>2. s \o d = s
    BY <1>6, ConcatEmptySeq
  <2>3. c = (s \o d) \o b /\ c \in Seq(S)
    <3>1. s \o b \in Seq(S)
      BY <1>1, ConcatProperties
    <3>2. QED
      BY <2>1, <2>2, <3>1
  <2> HIDE DEF S
  <2>4. ContentOK(c, w \o d, Append(ms, n))
    BY <1>1, <1>4, <1>5, <2>3, MarkAdded
  <2>5. QED
    BY <2>3, <2>4 DEF S
<1>7. CASE d # << >>
  <2> DEFINE e == s \o d
  <2>1. Marked(d, n) = d \o (l \o b)
    BY <1>7 DEF Marked
  <2>2. c = (e \o l) \o b
    <3>1. c = s \o Marked(d, n)
      OBVIOUS
    <3>2. s \in Seq(S) /\ d \in Seq(S) /\ l \in Seq(S) /\ b \in Seq(S)
      BY <1>1
    <3> HIDE DEF S, l, b
    <3>3. Regroups(s, d, l, b)
      BY <3>2, Regrouped
    <3>4. QED
      BY <2>1, <3>1, <3>3 DEF Regroups
  <2>3. e \o l \in Seq(S) /\ c \in Seq(S)
    <3>1. e \o l \in Seq(S)
      BY <1>1, <1>5, ConcatProperties
    <3>2. (e \o l) \o b \in Seq(S)
      BY <1>1, <3>1, ConcatProperties
    <3>3. QED
      BY <2>2, <3>1, <3>2
  <2> HIDE DEF S, l
  <2>4. ContentOK(e, w \o d, ms) /\ e \in Seq(S)
    BY <1>5
  <2> HIDE DEF e, b
  <2>5. ContentOK(e \o l, (w \o d) \o Wrote(l), ms)
    BY <1>1, <1>3, <2>4, NoMarkAdded
  <2>6. (w \o d) \o Wrote(l) = w \o d
    BY <1>3, <1>4
  <2>7. ContentOK(e \o l, w \o d, ms)
    BY <2>5, <2>6
  <2>8. ContentOK(c, w \o d, Append(ms, n))
    BY <1>1, <1>4, <2>2, <2>3, <2>7, MarkAdded DEF b
  <2>9. QED
    BY <2>3, <2>8 DEF S
<1>8. QED
  BY <1>6, <1>7

(* A reply, and what is known of it. *)
LEMMA SignedFacts ==
  ASSUME NEW o, NEW r, Signed(o, r)
  PROVE  /\ r.content \in Seq(PartsUpTo(Len(o))) /\ DOMAIN r.content = 1 .. Len(r.content)
         /\ Len(r.content) \in Nat
         /\ r.wrote \in Seq(WrittenParts)
         /\ r.calls \in Seq(CallIds) /\ Len(r.calls) \in Nat /\ DOMAIN r.calls = 1 .. Len(r.calls)
         /\ r.callSigs \in Seq(1 .. Len(o)) /\ Len(r.callSigs) = Len(r.calls)
         /\ \A j \in 1 .. Len(r.calls) : r.callSigs[j] \in 1 .. Len(o)
         /\ r.messageSigs \in Seq(1 .. Len(o)) /\ Len(r.messageSigs) \in Nat
         /\ DOMAIN r.messageSigs = 1 .. Len(r.messageSigs)
         /\ \A j \in 1 .. Len(r.messageSigs) : r.messageSigs[j] \in 1 .. Len(o)
         /\ r.deltas \in 0 .. MaxDeltas
<1> DEFINE n == Len(o)
<1>1. r \in ReplyUpTo(n) /\ Len(r.callSigs) = Len(r.calls)
  BY DEF Signed
<1>2. /\ r.content \in Seq(PartsUpTo(n)) /\ r.wrote \in Seq(WrittenParts)
      /\ r.calls \in Seq(CallIds) /\ r.callSigs \in Seq(1 .. n)
      /\ r.messageSigs \in Seq(1 .. n) /\ r.deltas \in 0 .. MaxDeltas
  BY <1>1 DEF ReplyUpTo
<1> HIDE DEF n
<1>3. /\ DOMAIN r.content = 1 .. Len(r.content) /\ Len(r.content) \in Nat
      /\ DOMAIN r.calls = 1 .. Len(r.calls) /\ Len(r.calls) \in Nat
      /\ DOMAIN r.messageSigs = 1 .. Len(r.messageSigs) /\ Len(r.messageSigs) \in Nat
  BY <1>2, LenProperties
<1>4. \A j \in 1 .. Len(r.calls) : r.callSigs[j] \in 1 .. n
  BY <1>1, <1>2, ElementOfSeq
<1>5. \A j \in 1 .. Len(r.messageSigs) : r.messageSigs[j] \in 1 .. n
  BY <1>2, ElementOfSeq
<1>6. QED
  BY <1>1, <1>2, <1>3, <1>4, <1>5 DEF n

(* The signatures of a reply itself. *)
Own(r) ==
  {r.callSigs[j] : j \in 1 .. Len(r.calls)}
  \cup {r.messageSigs[j] : j \in 1 .. Len(r.messageSigs)}

LEMMA OwnFacts ==
  ASSUME NEW o, NEW r, Signed(o, r)
  PROVE  Own(r) \subseteq 1 .. Len(o)
<1>1. /\ \A j \in 1 .. Len(r.calls) : r.callSigs[j] \in 1 .. Len(o)
      /\ \A j \in 1 .. Len(r.messageSigs) : r.messageSigs[j] \in 1 .. Len(o)
  BY SignedFacts
<1>2. QED
  BY <1>1 DEF Own

----------------------------------------------------------------------------
(* What is looked up *)

(* What provider g finds under the key k of a reply whose own signatures   *)
(* are own: v was put there by g; of own, none is later, and all are gone  *)
(* if there is none.                                                       *)
Looked(o, g, own, k, v, at, issued) ==
  /\ v # None => v \in 1 .. Len(o) /\ o[v].key = k /\ o[v].prov = g
  /\ \A n \in own : o[n].key = k =>
       /\ v = None => Gone(o, n, g, at, issued)
       /\ v # None /\ o[n].prov = g => n <= v

(* A get. *)
LEMMA LookedUp ==
  ASSUME NEW o, NEW t \in Nat, NEW g, NEW w, SourcesOK(o, t), CacheOK(o, g, w),
         NEW own, own \subseteq 1 .. Len(o), NEW k, NEW v, v = Lookup(w, k, t)
  PROVE  v \in (1 .. Len(o)) \cup {None} /\ Looked(o, g, own, k, v, t, Len(o))
<1>1. CASE Alive(w, k, t)
  <2>1. v \in 1 .. Len(o) /\ v # None /\ o[v].key = k /\ o[v].prov = g
    BY <1>1, FoundFacts
  <2>2. ASSUME NEW n \in own, o[n].key = k, o[n].prov = g PROVE n <= v
    <3>1. n \in 1 .. Len(o)
      OBVIOUS
    <3>2. n <= w[o[n].key].stamp /\ w[o[n].key].value = w[o[n].key].stamp
      BY <2>2, <3>1, EntryFacts
    <3>3. v = w[k].value
      BY <1>1 DEF Lookup
    <3>4. QED
      BY <2>2, <3>2, <3>3
  <2>3. QED
    BY <2>1, <2>2 DEF Looked
<1>2. CASE ~ Alive(w, k, t)
  <2>1. v = None
    BY <1>2 DEF Lookup
  <2>2. ASSUME NEW n \in own, o[n].key = k PROVE Gone(o, n, g, t, Len(o))
    <3>1. n \in 1 .. Len(o) /\ ~ Alive(w, o[n].key, t)
      BY <1>2, <2>2
    <3>2. QED
      BY <3>1, NotFoundIsGone
  <2>3. QED
    BY <2>1, <2>2 DEF Looked
<1>3. QED
  BY <1>1, <1>2

(* What is gone stays so. *)
LEMMA StillGone ==
  ASSUME NEW o, NEW p, Extends(o, p), Len(o) \in Nat, NEW n \in 1 .. Len(o),
         o[n].at \in Nat, NEW g, NEW at \in Nat, NEW t \in Nat, at <= t,
         NEW i \in Nat, NEW j \in Nat, i <= j, i <= Len(o), Gone(o, n, g, at, i)
  PROVE  Gone(p, n, g, t, j)
<1>1. p[n] = o[n] /\ \A m \in n + 1 .. i : p[m] = o[m]
  BY DEF Extends
<1>2. {m \in n + 1 .. i : p[m].prov = g} = {m \in n + 1 .. i : o[m].prov = g}
  BY <1>1
<1>3. {p[m].key : m \in {m \in n + 1 .. i : p[m].prov = g}}
        = {o[m].key : m \in {m \in n + 1 .. i : o[m].prov = g}}
  BY <1>1, <1>2
<1>4. Since(p, n, g, i) = Since(o, n, g, i)
  BY <1>1, <1>3 DEF Since
<1>5. /\ Cardinality(Since(p, n, g, i)) <= Cardinality(Since(p, n, g, j))
      /\ Cardinality(Since(p, n, g, i)) \in Nat /\ Cardinality(Since(p, n, g, j)) \in Nat
  <2>1. n \in Nat
    OBVIOUS
  <2>2. QED
    BY <2>1, SinceFacts
<1>6. MaxEntries \in Nat /\ Ttl \in Nat
  BY SignatureAssumption
<1>7. CASE o[n].prov # g
  BY <1>1, <1>7 DEF Gone
<1>8. CASE at - o[n].at >= Ttl
  <2>1. t - p[n].at >= Ttl
    BY <1>1, <1>6, <1>8
  <2>2. QED
    BY <2>1 DEF Gone
<1>9. CASE MaxEntries > 0 /\ Cardinality(Since(o, n, g, i)) >= MaxEntries
  <2>1. Cardinality(Since(p, n, g, j)) >= MaxEntries
    BY <1>4, <1>5, <1>6, <1>9
  <2>2. QED
    BY <1>9, <2>1 DEF Gone
<1>10. QED
  BY <1>7, <1>8, <1>9 DEF Gone

(* What was found stays right. *)
LEMMA StillLooked ==
  ASSUME NEW o, NEW s, SourcesOK(o, s), NEW p, Extends(o, p), Len(o) \in Nat,
         NEW g, NEW own, own \subseteq 1 .. Len(o), NEW k, NEW v,
         NEW at \in Nat, NEW t \in Nat, at <= t,
         NEW i \in Nat, NEW j \in Nat, i <= j, i <= Len(o), Looked(o, g, own, k, v, at, i)
  PROVE  Looked(p, g, own, k, v, t, j)
<1>1. Len(o) <= Len(p) /\ \A n \in 1 .. Len(o) : p[n] = o[n]
  BY DEF Extends
<1>2. ASSUME v # None
      PROVE  v \in 1 .. Len(p) /\ p[v].key = k /\ p[v].prov = g
  <2>1. v \in 1 .. Len(o) /\ o[v].key = k /\ o[v].prov = g
    BY <1>2 DEF Looked
  <2>2. QED
    BY <1>1, <2>1 DEF Extends
<1>3. ASSUME NEW n \in own, p[n].key = k
      PROVE  /\ v = None => Gone(p, n, g, t, j)
             /\ v # None /\ p[n].prov = g => n <= v
  <2>1. n \in 1 .. Len(o) /\ p[n] = o[n]
    BY <1>1
  <2>2. o[n].at \in Nat
    BY <2>1, SourceFacts
  <2>3. /\ v = None => Gone(o, n, g, at, i)
        /\ v # None /\ o[n].prov = g => n <= v
    BY <1>3, <2>1 DEF Looked
  <2>4. v = None => Gone(p, n, g, t, j)
    BY <2>1, <2>2, <2>3, StillGone
  <2>5. QED
    BY <2>1, <2>3, <2>4
<1>4. QED
  BY <1>2, <1>3 DEF Looked

(* What was found of a reply so far. *)
FoundOK(o, g, f, r, at) ==
  \A i \in 1 .. Len(f) :
    /\ i \in 1 .. Len(Keys(r))
    /\ Looked(o, g, Own(r), Keys(r)[i], f[i], at, Len(o))

LEMMA StillFound ==
  ASSUME NEW o, NEW s, SourcesOK(o, s), NEW p, Extends(o, p), Len(o) \in Nat, Len(p) \in Nat,
         NEW g, NEW r, Signed(o, r), NEW at \in Nat, NEW t \in Nat, at <= t,
         NEW f, FoundOK(o, g, f, r, at)
  PROVE  FoundOK(p, g, f, r, t)
<1>1. Own(r) \subseteq 1 .. Len(o)
  BY OwnFacts
<1>2. Len(o) <= Len(p) /\ Len(o) <= Len(o)
  BY DEF Extends
<1>3. ASSUME NEW i \in 1 .. Len(f)
      PROVE  Looked(p, g, Own(r), Keys(r)[i], f[i], t, Len(p))
  <2>1. Looked(o, g, Own(r), Keys(r)[i], f[i], at, Len(o))
    BY DEF FoundOK
  <2>2. QED
    BY <1>1, <1>2, <2>1, StillLooked
<1>4. QED
  BY <1>3 DEF FoundOK

(* The keys of a reply r, whose marks that are not hidden are at M: those  *)
(* of the marks, then those of the calls.                                  *)
Keyed(r, M, keys) ==
  /\ Len(Marks(r.content)) = Cardinality(M) /\ Cardinality(M) \in Nat
  /\ Len(keys) = Cardinality(M) + Len(r.calls) /\ DOMAIN keys = 1 .. Len(keys)
  /\ \A i \in 1 .. Cardinality(M) :
       Nth(M, i) \in M /\ keys[i] = r.content[Nth(M, i)].key
  /\ \A j \in 1 .. Len(r.calls) : keys[Cardinality(M) + j] = CallKey(r.calls[j])
  /\ \A x \in M : \E i \in 1 .. Cardinality(M) : Nth(M, i) = x
  /\ \A a, b \in 1 .. Cardinality(M) : a < b => Nth(M, a) < Nth(M, b)

LEMMA KeysFacts ==
  ASSUME NEW S, NEW r, r.content \in Seq(S), r.calls \in Seq(CallIds)
  PROVE  Keyed(r, Sigs(r.content) \ Hidden(r.content), Keys(r))
<1> DEFINE s == r.content
           M == Sigs(s) \ Hidden(s)
           m == Cardinality(M)
           k == Marks(s)
           l == Len(r.calls)
           ks == [i \in DOMAIN Marks(s) |-> Marks(s)[i].key]
           cs == [j \in DOMAIN r.calls |-> CallKey(r.calls[j])]
           K == {ks[i] : i \in DOMAIN Marks(s)} \cup {cs[j] : j \in DOMAIN r.calls}
<1>1. M \subseteq DOMAIN s /\ Marks(s) = Sift(s, M)
  BY DEF Sigs, Marks
<1> HIDE DEF M
<1>2. M \in SUBSET (1 .. Len(s)) /\ Len(s) \in Nat
  BY <1>1, LenProperties
<1>3. /\ DOMAIN k = 1 .. m /\ m \in Nat /\ k \in Seq(S)
      /\ \A i \in 1 .. m : Nth(M, i) \in M /\ k[i] = s[Nth(M, i)]
  <2> HIDE DEF k, s
  <2>1. k = Sift(s, M) /\ s \in Seq(S)
    BY <1>1 DEF k, s
  <2>2. QED
    BY <1>1, <2>1, SiftedFrom
<1>4. /\ \A x \in M : \E i \in 1 .. m : Nth(M, i) = x
      /\ \A a, b \in 1 .. m : a < b => Nth(M, a) < Nth(M, b)
  <2> HIDE DEF s
  <2>1. QED
    BY <1>2, NthCounts
<1>5. Len(Marks(s)) = m
  BY <1>3, LenProperties
<1>6. l \in Nat /\ DOMAIN r.calls = 1 .. l
  BY LenProperties
<1>7. ks \in [1 .. m -> K] /\ cs \in [1 .. l -> K]
  BY <1>3, <1>6
<1>8. /\ \A i \in 1 .. m : ks[i] = s[Nth(M, i)].key
      /\ \A j \in 1 .. l : cs[j] = CallKey(r.calls[j])
  BY <1>3, <1>6
<1>9. Keys(r) = ks \o cs
  BY DEF Keys
<1> HIDE DEF s, m, l, ks, cs, K
<1>10. ks \in Seq(K) /\ Len(ks) = m /\ cs \in Seq(K) /\ Len(cs) = l
  BY <1>3, <1>6, <1>7
<1>11. Joins(K, ks, cs, Keys(r))
  BY <1>9, <1>10, Joined
<1>12. /\ Len(Keys(r)) = m + l /\ DOMAIN Keys(r) = 1 .. m + l
       /\ \A i \in 1 .. m : Keys(r)[i] = ks[i]
       /\ \A j \in 1 .. l : Keys(r)[m + j] = cs[j]
  BY <1>10, <1>11, Zenon DEF Joins
<1>13. /\ \A i \in 1 .. m : Nth(M, i) \in M /\ Keys(r)[i] = s[Nth(M, i)].key
       /\ \A j \in 1 .. l : Keys(r)[m + j] = CallKey(r.calls[j])
  BY <1>3, <1>8, <1>12
<1>14. QED
  BY <1>3, <1>4, <1>5, <1>12, <1>13 DEF Keyed, M, s, m, l

(* The greatest of finitely many places. *)
LEMMA MaxFacts ==
  ASSUME NEW n \in Nat, NEW F \in SUBSET (1 .. n), F # {}
  PROVE  Max(F) \in F /\ \A z \in F : z <= Max(F)
<1> DEFINE G == {n - x : x \in F}
<1>1. \A x \in F : x \in Nat /\ n - x \in Nat
  OBVIOUS
<1>2. \A x \in F : n - x \in G
  BY Zenon
<1>3. \A y \in G : \E x \in F : y = n - x
  BY Zenon
<1> HIDE DEF G
<1>4. G \in SUBSET Nat /\ G # {}
  <2>1. \A y \in G : y \in Nat
    BY <1>1, <1>3, Zenon
  <2>2. QED
    BY <1>2, <2>1, Zenon
<1>5. PICK y \in G : \A z \in G : y <= z
  BY <1>4, LeastOf
<1>6. PICK x \in F : y = n - x
  BY <1>3, Zenon
<1>7. \A z \in F : n - x <= n - z
  BY <1>2, <1>5, <1>6, Zenon
<1>8. \A z \in F : x >= z
  BY <1>1, <1>7
<1>9. Max(F) \in F /\ \A z \in F : Max(F) >= z
  BY <1>8 DEF Max
<1>10. QED
  BY <1>1, <1>9

(* What is found last. *)
LEMMA LastFoundFacts ==
  ASSUME NEW n \in Nat, NEW f
  PROVE  /\ LastFound(f, n) # None =>
              \E b \in 1 .. n : /\ f[b] = LastFound(f, n)
                               /\ \A x \in 1 .. n : f[x] # None => x <= b
         /\ LastFound(f, n) = None => \A b \in 1 .. n : f[b] = None
<1> DEFINE F == {i \in 1 .. n : f[i] # None}
<1>1. LastFound(f, n) = IF F = {} THEN None ELSE f[Max(F)]
  BY DEF LastFound
<1>2. CASE F = {}
  BY <1>1, <1>2
<1>3. CASE F # {}
  <2>1. Max(F) \in F /\ \A x \in F : x <= Max(F)
    BY <1>3, MaxFacts
  <2>2. LastFound(f, n) = f[Max(F)] /\ f[Max(F)] # None /\ Max(F) \in 1 .. n
    BY <1>1, <1>3, <2>1
  <2>3. \A x \in 1 .. n : f[x] # None => x <= Max(F)
    BY <2>1
  <2>4. QED
    BY <2>2, <2>3
<1>4. QED
  BY <1>2, <1>3

(* The mark of the signature n is hidden. *)
HiddenMark(s, n) == \E i \in Hidden(s) : s[i].key = MessageKey(n)

(* What message a is to be of a reply r: one of its own signatures or      *)
(* none; those after it are gone or hidden.                                *)
LastOwn(o, g, r, a, at, issued) ==
  /\ a # None => \E j \in 1 .. Len(r.messageSigs) : a = r.messageSigs[j]
  /\ \A j \in 1 .. Len(r.messageSigs) :
       a = None \/ a < r.messageSigs[j] =>
         Gone(o, r.messageSigs[j], g, at, issued) \/ HiddenMark(r.content, r.messageSigs[j])

LEMMA LastFoundIsOwn ==
  ASSUME NEW o, NEW t, SourcesOK(o, t), NEW g, NEW r, Signed(o, r), NEW at,
         NEW f, Len(f) = Len(Keys(r)), FoundOK(o, g, f, r, at)
  PROVE  LastOwn(o, g, r, LastFound(f, Len(Marks(r.content))), at, Len(o))
<1> DEFINE s == r.content
           ms == r.messageSigs
           M == Sigs(s) \ Hidden(s)
           m == Cardinality(M)
           a == LastFound(f, m)
<1>1. /\ \A j \in 1 .. Len(ms) : ms[j] \in 1 .. Len(o)
      /\ s \in Seq(PartsUpTo(Len(o))) /\ r.calls \in Seq(CallIds) /\ Len(r.calls) \in Nat
      /\ DOMAIN s = 1 .. Len(s) /\ Len(s) \in Nat
  BY SignedFacts
<1>2. Keyed(r, M, Keys(r))
  BY <1>1, KeysFacts
<1>3. M \subseteq Sigs(s) /\ \A i \in Sigs(s) : i \in M \/ i \in Hidden(s)
  OBVIOUS
<1>4. Sigs(s) \subseteq Nat
  BY <1>1 DEF Sigs
<1> HIDE DEF M
<1>5. /\ m \in Nat /\ Len(Marks(s)) = m /\ Len(Keys(r)) = m + Len(r.calls)
      /\ \A i \in 1 .. m : Nth(M, i) \in M /\ Keys(r)[i] = s[Nth(M, i)].key
      /\ \A x \in M : \E i \in 1 .. m : Nth(M, i) = x
      /\ \A x, y \in 1 .. m : x < y => Nth(M, x) < Nth(M, y)
  BY <1>2 DEF Keyed
<1> HIDE DEF m, a, s, ms
<1>6. \A i \in 1 .. m : i \in 1 .. Len(f)
  BY <1>1, <1>5
<1>7. /\ \A i \in Sigs(s) : \E j \in 1 .. Len(ms) : s[i].key = MessageKey(ms[j])
      /\ \A j \in 1 .. Len(ms) : \E i \in Sigs(s) : s[i].key = MessageKey(ms[j])
      /\ \A h, i \in Sigs(s) : \A x, y \in Nat :
           h < i /\ s[h].key = MessageKey(x) /\ s[i].key = MessageKey(y) => x < y
  BY DEF Signed, ContentOK, s, ms
<1>8. ASSUME NEW i \in 1 .. m, f[i] # None
      PROVE  /\ f[i] \in Nat /\ s[Nth(M, i)].key = MessageKey(f[i])
             /\ \E j \in 1 .. Len(ms) : f[i] = ms[j]
  <2>1. PICK j \in 1 .. Len(ms) : s[Nth(M, i)].key = MessageKey(ms[j])
    BY <1>3, <1>5, <1>7
  <2>2. f[i] \in 1 .. Len(o) /\ o[f[i]].key = s[Nth(M, i)].key
    BY <1>5, <1>6, <1>8 DEF FoundOK, Looked
  <2>3. ms[j] \in Nat
    BY <1>1 DEF ms
  <2>4. ms[j] = f[i]
    BY <2>1, <2>2, <2>3, SourceFacts
  <2>5. QED
    BY <2>1, <2>2, <2>4
<1>9. /\ a # None => \E b \in 1 .. m : f[b] = a /\ \A x \in 1 .. m : f[x] # None => x <= b
      /\ a = None => \A b \in 1 .. m : f[b] = None
  BY <1>5, LastFoundFacts DEF a
<1>10. a # None => \E j \in 1 .. Len(ms) : a = ms[j]
  BY <1>8, <1>9
<1>11. ASSUME NEW j \in 1 .. Len(ms), a = None \/ a < ms[j]
       PROVE  Gone(o, ms[j], g, at, Len(o)) \/ HiddenMark(s, ms[j])
  <2> DEFINE n == ms[j]
  <2>1. n \in 1 .. Len(o) /\ n \in Nat /\ n \in Own(r) /\ o[n].key = MessageKey(n)
    BY <1>1 DEF Own, Signed, ms
  <2>2. PICK p \in Sigs(s) : s[p].key = MessageKey(n)
    BY <1>7
  <2> HIDE DEF n
  <2>3. CASE p \in Hidden(s)
    BY <2>2, <2>3 DEF HiddenMark, n
  <2>4. CASE p \in M
    <3>1. PICK x \in 1 .. m : Nth(M, x) = p
      BY <1>5, <2>4
    <3>2. Looked(o, g, Own(r), MessageKey(n), f[x], at, Len(o))
      BY <1>5, <1>6, <2>2, <3>1 DEF FoundOK
    <3>3. CASE f[x] = None
      BY <2>1, <3>2, <3>3 DEF Looked, n
    <3>4. CASE f[x] # None
      <4>1. f[x] = n
        <5>1. MessageKey(f[x]) = MessageKey(n)
          BY <1>8, <2>2, <3>1, <3>4
        <5>2. QED
          BY <5>1, KeyFacts
      <4>2. a # None
        BY <1>9, <3>4
      <4>3. PICK b \in 1 .. m : f[b] = a /\ \A y \in 1 .. m : f[y] # None => y <= b
        BY <1>9, <4>2
      <4>4. a \in Nat /\ a < n /\ s[Nth(M, b)].key = MessageKey(a)
        BY <1>8, <1>11, <4>2, <4>3 DEF n
      <4>5. CASE b = x
        BY <2>1, <4>1, <4>3, <4>4, <4>5
      <4>6. CASE x < b
        <5>1. p < Nth(M, b) /\ Nth(M, b) \in Sigs(s)
          BY <1>3, <1>5, <3>1, <4>6
        <5>2. n < a
          BY <1>7, <2>1, <2>2, <4>4, <5>1
        <5>3. QED
          BY <2>1, <4>4, <5>2
      <4>7. x <= b /\ x \in Nat /\ b \in Nat
        BY <1>5, <3>4, <4>3
      <4>8. QED
        BY <4>5, <4>6, <4>7
    <3>5. QED
      BY <3>3, <3>4
  <2>5. QED
    BY <1>3, <2>2, <2>3, <2>4
<1>12. QED
  BY <1>5, <1>10, <1>11 DEF LastOwn, a, s, ms

(* What provider g was sent, s, goes with the reply r. *)
Echoed(o, g, s, r) ==
  /\ s \in SentUpTo(Len(o))
  /\ LastOwn(o, g, r, s.message, s.at, s.issued)
  /\ Len(s.calls) = Len(r.calls)
  /\ \A j \in 1 .. Len(r.calls) :
       Looked(o, g, Own(r), CallKey(r.calls[j]), s.calls[j], s.at, s.issued)
  /\ ComesBack(s.content, r.content, r.wrote)

(* Restored gives back what goes with the reply. *)
LEMMA RestoredFacts ==
  ASSUME now \in 0 .. MaxNow, SourcesOK(origin, now), NEW g, NEW r, Signed(origin, r),
         NEW f \in Seq((1 .. Len(origin)) \cup {None}), Len(f) = Len(Keys(r)),
         FoundOK(origin, g, f, r, now)
  PROVE  Echoed(origin, g, Restored(r, f), r)
<1> DEFINE s == Restored(r, f)
           n == Len(origin)
           m == Len(Marks(r.content))
           M == Sigs(r.content) \ Hidden(r.content)
           l == Len(r.calls)
           found == [j \in DOMAIN r.calls |-> f[m + j]]
           S == (1 .. n) \cup {None}
<1>1. /\ s.message = LastFound(f, m) /\ s.calls = found
      /\ s.content = Cleaned(r.content) /\ s.at = now /\ s.issued = n
      /\ s = [message |-> LastFound(f, m), calls |-> found,
              content |-> Cleaned(r.content), at |-> now, issued |-> n]
  BY DEF Restored
<1> HIDE DEF s
<1>2. now \in Nat /\ n \in Nat
  BY SignatureAssumption, LenProperties DEF SourcesOK
<1>3. /\ r.content \in Seq(PartsUpTo(n))
      /\ r.calls \in Seq(CallIds) /\ l \in Nat /\ DOMAIN r.calls = 1 .. l
      /\ \A j \in 1 .. Len(r.messageSigs) : r.messageSigs[j] \in 1 .. n
  BY SignedFacts
<1>4. Keyed(r, M, Keys(r))
  BY <1>3, KeysFacts
<1> HIDE DEF M
<1>5. m \in Nat /\ Len(f) = m + l /\ \A j \in 1 .. l : Keys(r)[m + j] = CallKey(r.calls[j])
  BY <1>4 DEF Keyed
<1>6. LastOwn(origin, g, r, LastFound(f, m), now, n)
  BY LastFoundIsOwn
<1> HIDE DEF n, m, S
<1>7. ASSUME NEW j \in 1 .. l
      PROVE  /\ found[j] \in S
             /\ Looked(origin, g, Own(r), CallKey(r.calls[j]), found[j], now, n)
  <2>1. found[j] = f[m + j] /\ m + j \in 1 .. Len(f)
    BY <1>3, <1>5
  <2>2. f \in Seq(S)
    BY DEF S, n
  <2>3. f[m + j] \in S
    BY <2>1, <2>2, ElementOfSeq
  <2>4. Looked(origin, g, Own(r), CallKey(r.calls[j]), f[m + j], now, n)
    BY <1>5, <2>1 DEF FoundOK, n
  <2> HIDE DEF found
  <2>5. QED
    BY <2>1, <2>3, <2>4
<1>8. found \in Seq(S) /\ Len(found) = l
  <2>1. found \in [1 .. l -> S]
    BY <1>3, <1>7
  <2> HIDE DEF found, l
  <2>2. found \in Seq(S)
    BY <1>3, <2>1
  <2>3. QED
    BY <1>3, <2>1, <2>2, LenProperties
<1> HIDE DEF found, l
<1>9. /\ Cleaned(r.content) \in Seq(PartsUpTo(n))
      /\ ComesBack(Cleaned(r.content), r.content, r.wrote)
  <2>1. Wrote(r.content) = r.wrote
    BY DEF Signed, ContentOK
  <2>2. Cleaned(r.content) \in Seq(PartsUpTo(n))
    BY <1>3, NoMarkIsLeft
  <2>3. ComesBack(Cleaned(r.content), r.content, Wrote(r.content))
    BY <1>3, CleanedComesBack
  <2>4. QED
    BY <2>1, <2>2, <2>3
<1>10. LastFound(f, m) \in S
  <2>1. LastFound(f, m) # None =>
          \E j \in 1 .. Len(r.messageSigs) : LastFound(f, m) = r.messageSigs[j]
    BY <1>6 DEF LastOwn
  <2>2. QED
    BY <1>3, <2>1 DEF S
<1>11. s \in SentUpTo(n)
  <2>1. n \in 0 .. n
    BY <1>2
  <2>2. QED
    BY <1>1, <1>8, <1>9, <1>10, <2>1 DEF SentUpTo, S
<1>12. Echoed(origin, g, s, r)
  BY <1>1, <1>6, <1>7, <1>8, <1>9, <1>11, Zenon DEF Echoed, n, l
<1>13. QED
  BY <1>12 DEF s

(* More signatures allow more parts, replies and requests. *)
LEMMA UpToGrows ==
  ASSUME NEW n \in Nat, NEW m \in Nat, n <= m
  PROVE  /\ 1 .. n \subseteq 1 .. m
         /\ PartsUpTo(n) \subseteq PartsUpTo(m)
         /\ ReplyUpTo(n) \subseteq ReplyUpTo(m)
         /\ SentUpTo(n) \subseteq SentUpTo(m)
<1>1. 1 .. n \subseteq 1 .. m /\ 0 .. n \subseteq 0 .. m
  OBVIOUS
<1>2. PartsUpTo(n) \subseteq PartsUpTo(m)
  <2>1. {MessageKey(k) : k \in 1 .. n} \subseteq {MessageKey(k) : k \in 1 .. m}
    BY <1>1
  <2>2. QED
    BY <2>1 DEF PartsUpTo
<1>3. /\ Seq(PartsUpTo(n)) \subseteq Seq(PartsUpTo(m))
      /\ Seq(1 .. n) \subseteq Seq(1 .. m)
      /\ Seq((1 .. n) \cup {None}) \subseteq Seq((1 .. m) \cup {None})
  BY <1>1, <1>2
<1>4. ReplyUpTo(n) \subseteq ReplyUpTo(m)
  BY <1>3 DEF ReplyUpTo
<1>5. SentUpTo(n) \subseteq SentUpTo(m)
  BY <1>1, <1>3 DEF SentUpTo
<1>6. QED
  BY <1>1, <1>2, <1>4, <1>5

(* A reply stays signed. *)
LEMMA StillSigned ==
  ASSUME NEW o, NEW t, SourcesOK(o, t), NEW p, Extends(o, p), Len(p) \in Nat,
         NEW r, Signed(o, r)
  PROVE  Signed(p, r)
<1>1. Len(o) \in Nat /\ Len(o) <= Len(p)
  BY LenProperties DEF SourcesOK, Extends
<1>2. /\ \A j \in 1 .. Len(r.calls) : r.callSigs[j] \in 1 .. Len(o)
      /\ \A j \in 1 .. Len(r.messageSigs) : r.messageSigs[j] \in 1 .. Len(o)
  BY SignedFacts
<1>3. r \in ReplyUpTo(Len(p))
  BY <1>1, UpToGrows DEF Signed
<1>4. \A n \in 1 .. Len(o) : p[n] = o[n]
  BY DEF Extends
<1>5. /\ \A j \in 1 .. Len(r.calls) : p[r.callSigs[j]].key = CallKey(r.calls[j])
      /\ \A j \in 1 .. Len(r.messageSigs) :
           p[r.messageSigs[j]].key = MessageKey(r.messageSigs[j])
  BY <1>2, <1>4 DEF Signed
<1>6. QED
  BY <1>3, <1>5 DEF Signed

(* What was sent is still right when signatures are added.                 *)
LEMMA StillEchoed ==
  ASSUME NEW o, NEW t, SourcesOK(o, t), NEW p, Extends(o, p), Len(p) \in Nat,
         NEW g, NEW r, Signed(o, r), NEW s, Echoed(o, g, s, r)
  PROVE  Echoed(p, g, s, r)
<1>1. Len(o) \in Nat /\ Len(o) <= Len(p) /\ MaxNow \in Nat
  BY LenProperties, SignatureAssumption DEF SourcesOK, Extends
<1>2. s \in SentUpTo(Len(p))
  BY <1>1, UpToGrows DEF Echoed
<1>3. s.issued \in 0 .. Len(o) /\ s.at \in 0 .. MaxNow
  BY DEF Echoed, SentUpTo
<1>4. s.issued \in Nat /\ s.issued <= Len(o) /\ s.at \in Nat /\ s.at <= s.at
      /\ s.issued <= s.issued
  BY <1>1, <1>3
<1>5. Own(r) \subseteq 1 .. Len(o)
  BY OwnFacts
<1>6. ASSUME NEW j \in 1 .. Len(r.calls)
      PROVE  Looked(p, g, Own(r), CallKey(r.calls[j]), s.calls[j], s.at, s.issued)
  <2>1. Looked(o, g, Own(r), CallKey(r.calls[j]), s.calls[j], s.at, s.issued)
    BY DEF Echoed
  <2>2. QED
    BY <1>1, <1>4, <1>5, <2>1, StillLooked
<1>7. LastOwn(p, g, r, s.message, s.at, s.issued)
  <2>1. LastOwn(o, g, r, s.message, s.at, s.issued)
    BY DEF Echoed
  <2>2. ASSUME NEW j \in 1 .. Len(r.messageSigs),
               Gone(o, r.messageSigs[j], g, s.at, s.issued)
        PROVE  Gone(p, r.messageSigs[j], g, s.at, s.issued)
    <3>1. r.messageSigs[j] \in 1 .. Len(o)
      BY SignedFacts
    <3>2. o[r.messageSigs[j]].at \in Nat
      BY <3>1, SourceFacts
    <3>3. QED
      BY <1>1, <1>4, <2>2, <3>1, <3>2, StillGone
  <2>3. QED
    BY <2>1, <2>2 DEF LastOwn
<1>8. QED
  BY <1>2, <1>6, <1>7 DEF Echoed

----------------------------------------------------------------------------
(* What comes of a reply *)

(* A tool call with its signature, the last one issued. *)
LEMMA CallAdded ==
  ASSUME NEW o, NEW t, SourcesOK(o, t), NEW p, Extends(o, p), Len(p) = Len(o) + 1,
         NEW r, Signed(o, r), r.deltas < MaxDeltas,
         NEW id \in CallIds, p[Len(p)].key = CallKey(id),
         NEW q, q = [content |-> r.content, wrote |-> r.wrote, calls |-> Append(r.calls, id),
                     callSigs |-> Append(r.callSigs, Len(p)),
                     messageSigs |-> r.messageSigs, deltas |-> r.deltas + 1]
  PROVE  Signed(p, q) /\ q \in ReplyUpTo(Len(p))
<1> DEFINE n == Len(p)
<1>1. Len(o) \in Nat /\ n \in Nat /\ n = Len(o) + 1 /\ n \in 1 .. n /\ MaxDeltas \in Nat
  BY LenProperties, SignatureAssumption DEF SourcesOK
<1>2. Signed(p, r)
  BY <1>1, StillSigned
<1>3. /\ r.content \in Seq(PartsUpTo(n)) /\ r.wrote \in Seq(WrittenParts)
      /\ r.calls \in Seq(CallIds) /\ Len(r.calls) \in Nat
      /\ r.callSigs \in Seq(1 .. n) /\ Len(r.callSigs) = Len(r.calls)
      /\ r.messageSigs \in Seq(1 .. n) /\ r.deltas \in 0 .. MaxDeltas
  BY <1>2, SignedFacts
<1> HIDE DEF n
<1>4. /\ q.content = r.content /\ q.wrote = r.wrote /\ q.calls = Append(r.calls, id)
      /\ q.callSigs = Append(r.callSigs, n)
      /\ q.messageSigs = r.messageSigs /\ q.deltas = r.deltas + 1
  BY DEF n
<1>5. /\ q.calls \in Seq(CallIds) /\ Len(q.calls) = Len(r.calls) + 1
      /\ q.calls[Len(r.calls) + 1] = id
      /\ \A j \in 1 .. Len(r.calls) : q.calls[j] = r.calls[j]
  BY <1>3, <1>4, AppendProperties
<1>6. /\ q.callSigs \in Seq(1 .. n) /\ Len(q.callSigs) = Len(r.calls) + 1
      /\ q.callSigs[Len(r.calls) + 1] = n
      /\ \A j \in 1 .. Len(r.calls) : q.callSigs[j] = r.callSigs[j]
  <2>1. PICK N : N = 1 .. n
    OBVIOUS
  <2>2. n \in N /\ r.callSigs \in Seq(N) /\ Len(r.callSigs) = Len(r.calls)
    BY <1>1, <1>3, <2>1
  <2>3. /\ q.callSigs \in Seq(N) /\ Len(q.callSigs) = Len(r.callSigs) + 1
        /\ q.callSigs[Len(r.callSigs) + 1] = n
        /\ \A j \in 1 .. Len(r.callSigs) : q.callSigs[j] = r.callSigs[j]
    BY <1>4, <2>2, AppendProperties
  <2>4. QED
    BY <2>1, <2>2, <2>3
<1>7. \A j \in 1 .. Len(q.calls) : p[q.callSigs[j]].key = CallKey(q.calls[j])
  <2>1. \A j \in 1 .. Len(q.calls) : j \in 1 .. Len(r.calls) \/ j = Len(r.calls) + 1
    BY <1>3, <1>5
  <2>2. QED
    BY <1>2, <1>5, <1>6, <2>1 DEF Signed, n
<1>8. q \in ReplyUpTo(n)
  <2>1. q.deltas \in 0 .. MaxDeltas
    BY <1>1, <1>3, <1>4
  <2>2. q = [content |-> q.content, wrote |-> q.wrote, calls |-> q.calls,
             callSigs |-> q.callSigs, messageSigs |-> q.messageSigs, deltas |-> q.deltas]
    OBVIOUS
  <2>3. QED
    BY <1>3, <1>4, <1>5, <1>6, <2>1, <2>2 DEF ReplyUpTo
<1>9. QED
  BY <1>2, <1>4, <1>5, <1>6, <1>7, <1>8 DEF Signed, n

(* A piece of text that is not signed. *)
LEMMA TextAdded ==
  ASSUME NEW o, NEW r, Signed(o, r), r.deltas < MaxDeltas, NEW d \in Seq(WrittenParts),
         NEW q, q = [content |-> r.content \o d, wrote |-> r.wrote \o d, calls |-> r.calls,
                     callSigs |-> r.callSigs, messageSigs |-> r.messageSigs,
                     deltas |-> r.deltas + 1]
  PROVE  Signed(o, q) /\ q \in ReplyUpTo(Len(o))
<1> DEFINE n == Len(o)
           S == PartsUpTo(n)
<1>1. /\ r.content \in Seq(S) /\ r.wrote \in Seq(WrittenParts)
      /\ r.calls \in Seq(CallIds) /\ r.callSigs \in Seq(1 .. n)
      /\ r.messageSigs \in Seq(1 .. n) /\ r.deltas \in 0 .. MaxDeltas
  BY SignedFacts
<1>2. WrittenParts \subseteq S
  BY DEF PartsUpTo
<1> HIDE DEF n, S
<1>3. d \in Seq(S)
  BY <1>2
<1>4. Sigs(d) = {} /\ Wrote(d) = d
  BY WrittenIsWritten
<1>5. /\ q.content = r.content \o d /\ q.wrote = r.wrote \o d /\ q.calls = r.calls
      /\ q.callSigs = r.callSigs /\ q.messageSigs = r.messageSigs /\ q.deltas = r.deltas + 1
  OBVIOUS
<1>6. ContentOK(q.content, q.wrote, q.messageSigs)
  <2>1. ContentOK(r.content, r.wrote, r.messageSigs)
    BY DEF Signed
  <2>2. ContentOK(q.content, r.wrote \o Wrote(d), r.messageSigs)
    BY <1>1, <1>3, <1>4, <1>5, <2>1, NoMarkAdded
  <2>3. QED
    BY <1>4, <1>5, <2>2
<1>7. q \in ReplyUpTo(n)
  <2>1. q.content \in Seq(S) /\ q.wrote \in Seq(WrittenParts)
    BY <1>1, <1>3, <1>5, ConcatProperties
  <2>2. q.deltas \in 0 .. MaxDeltas
    BY <1>1, <1>5, SignatureAssumption
  <2>3. q = [content |-> q.content, wrote |-> q.wrote, calls |-> q.calls,
             callSigs |-> q.callSigs, messageSigs |-> q.messageSigs, deltas |-> q.deltas]
    OBVIOUS
  <2>4. QED
    BY <1>1, <1>5, <2>1, <2>2, <2>3 DEF ReplyUpTo, S
<1>8. QED
  BY <1>5, <1>6, <1>7 DEF Signed, n

(* A sequence over a set is one over a larger set. *)
LEMMA SeqGrows ==
  ASSUME NEW S, NEW T, S \subseteq T, NEW s \in Seq(S)
  PROVE  s \in Seq(T)
  OBVIOUS

(* A text with a signature, the last one issued. *)
LEMMA SignatureAdded ==
  ASSUME NEW o, NEW t, SourcesOK(o, t), NEW p, Extends(o, p), Len(p) = Len(o) + 1,
         NEW r, Signed(o, r), r.deltas < MaxDeltas,
         p[Len(p)].key = MessageKey(Len(p)), NEW d \in Seq(WrittenParts),
         NEW q, q = [content |-> r.content \o Marked(d, Len(p)), wrote |-> r.wrote \o d,
                     calls |-> r.calls, callSigs |-> r.callSigs,
                     messageSigs |-> Append(r.messageSigs, Len(p)), deltas |-> r.deltas + 1]
  PROVE  Signed(p, q) /\ q \in ReplyUpTo(Len(p))
<1> DEFINE n == Len(p)
           ms == r.messageSigs
<1>1. Len(o) \in Nat /\ n \in Nat /\ n = Len(o) + 1 /\ n \in 1 .. n /\ MaxDeltas \in Nat
  BY LenProperties, SignatureAssumption DEF SourcesOK
<1>2. Signed(p, r)
  BY <1>1, StillSigned
<1>3. /\ r.content \in Seq(PartsUpTo(n)) /\ r.wrote \in Seq(WrittenParts)
      /\ r.calls \in Seq(CallIds) /\ r.callSigs \in Seq(1 .. n)
      /\ ms \in Seq(1 .. n) /\ Len(ms) \in Nat /\ r.deltas \in 0 .. MaxDeltas
  BY <1>2, SignedFacts
<1>4. \A j \in 1 .. Len(ms) : ms[j] \in 1 .. Len(o)
  BY SignedFacts
<1> HIDE DEF n, ms
<1>5. /\ q.content = r.content \o Marked(d, n) /\ q.wrote = r.wrote \o d /\ q.calls = r.calls
      /\ q.callSigs = r.callSigs /\ q.messageSigs = Append(ms, n)
      /\ q.deltas = r.deltas + 1
  BY DEF n, ms
<1>6. q.content \in Seq(PartsUpTo(n)) /\ ContentOK(q.content, q.wrote, q.messageSigs)
  <2>1. ContentOK(r.content, r.wrote, ms)
    BY DEF Signed, ms
  <2>2. ms \in Seq(Nat) /\ \A j \in 1 .. Len(ms) : ms[j] < n
    <3>1. PICK N : N = 1 .. n
      OBVIOUS
    <3>2. N \subseteq Nat /\ ms \in Seq(N)
      BY <1>3, <3>1
    <3>3. ms \in Seq(Nat)
      BY <3>2, SeqGrows
    <3>4. \A j \in 1 .. Len(o) : j < n
      BY <1>1
    <3>5. QED
      BY <1>4, <3>3, <3>4
  <2>3. PICK c : c = r.content \o Marked(d, n)
    OBVIOUS
  <2>4. c \in Seq(PartsUpTo(n)) /\ ContentOK(c, r.wrote \o d, Append(ms, n))
    BY <1>1, <1>3, <2>1, <2>2, <2>3, MarkedAdded, ZenonT(40)
  <2>5. QED
    BY <1>5, <2>3, <2>4
<1>7. /\ q.messageSigs \in Seq(1 .. n) /\ Len(q.messageSigs) = Len(ms) + 1
      /\ q.messageSigs[Len(ms) + 1] = n
      /\ \A j \in 1 .. Len(ms) : q.messageSigs[j] = ms[j]
  <2>1. PICK N : N = 1 .. n
    OBVIOUS
  <2>2. n \in N /\ ms \in Seq(N)
    BY <1>1, <1>3, <2>1
  <2>3. PICK u : u = Append(ms, n)
    OBVIOUS
  <2>4. /\ u \in Seq(N) /\ Len(u) = Len(ms) + 1 /\ u[Len(ms) + 1] = n
        /\ \A j \in 1 .. Len(ms) : u[j] = ms[j]
    BY <2>2, <2>3, AppendProperties
  <2>5. q.messageSigs = u
    BY <1>5, <2>3
  <2>6. QED
    BY <2>1, <2>4, <2>5
<1>8. \A j \in 1 .. Len(q.messageSigs) : p[q.messageSigs[j]].key = MessageKey(q.messageSigs[j])
  <2>1. \A j \in 1 .. Len(q.messageSigs) : j \in 1 .. Len(ms) \/ j = Len(ms) + 1
    BY <1>3, <1>7
  <2>2. \A j \in 1 .. Len(ms) : p[ms[j]].key = MessageKey(ms[j])
    BY <1>2 DEF Signed, ms
  <2>3. p[n].key = MessageKey(n)
    BY DEF n
  <2>4. QED
    BY <1>7, <2>1, <2>2, <2>3
<1>9. q \in ReplyUpTo(n)
  <2>1. q.wrote \in Seq(WrittenParts)
    BY <1>3, <1>5, ConcatProperties
  <2>2. q.deltas \in 0 .. MaxDeltas
    <3>1. r.deltas \in 0 .. MaxDeltas /\ q.deltas = r.deltas + 1
      BY <1>3, <1>5
    <3>2. QED
      BY <3>1, SignatureAssumption
  <2>3. q = [content |-> q.content, wrote |-> q.wrote, calls |-> q.calls,
             callSigs |-> q.callSigs, messageSigs |-> q.messageSigs, deltas |-> q.deltas]
    OBVIOUS
  <2>4. QED
    BY <1>3, <1>5, <1>6, <1>7, <2>1, <2>2, <2>3 DEF ReplyUpTo
<1>10. QED
  BY <1>2, <1>5, <1>6, <1>8, <1>9 DEF Signed, n

----------------------------------------------------------------------------
(* The inductive invariant *)

(* The replies rs of a conversation. *)
RepliesOK(o, rs) ==
  /\ rs \in Seq(ReplyUpTo(Len(o)))
  /\ \A i \in 1 .. Len(rs) : Signed(o, rs[i])

(* A request v, at the time t: what was found of the reply in hand. *)
InjectingOK(o, t, v, rs) ==
  /\ v \in [at : {"injecting"}, prov : Providers, sent : Seq(SentUpTo(Len(o))),
            found : Seq((1 .. Len(o)) \cup {None})]
  /\ Len(v.sent) + 1 \in 1 .. Len(rs) =>
       FoundOK(o, v.prov, v.found, rs[Len(v.sent) + 1], t)

(* What has come of the next reply is signed. *)
AnsweringOK(o, v) ==
  /\ v \in [at : {"answering"}, prov : Providers, sent : Seq(SentUpTo(Len(o))),
            reply : ReplyUpTo(Len(o))]
  /\ Signed(o, v.reply)

(* A request v of a conversation with the replies rs: what is sent goes    *)
(* with them.                                                              *)
WhereOK(o, t, v, rs) ==
  \/ v = Idle
  \/ /\ InjectingOK(o, t, v, rs) \/ AnsweringOK(o, v)
     /\ Len(v.sent) <= Len(rs)
     /\ \A i \in 1 .. Len(v.sent) : Echoed(o, v.prov, v.sent[i], rs[i])

(* The inductive invariant.                                                *)
Inv ==
  /\ now \in 0 .. MaxNow /\ clears \in 0 .. MaxClears
  /\ SourcesOK(origin, now)
  /\ caches = [p \in Providers |-> caches[p]]
  /\ \A p \in Providers : CacheOK(origin, p, caches[p])
  /\ replies = [c \in Convs |-> replies[c]]
  /\ \A c \in Convs : RepliesOK(origin, replies[c])
  /\ where = [c \in Convs |-> where[c]]
  /\ \A c \in Convs : WhereOK(origin, now, where[c], replies[c])

(* Replies and requests are still right when signatures are added. *)
LEMMA RepliesStill ==
  ASSUME NEW o, NEW t, SourcesOK(o, t), NEW p, Extends(o, p), Len(p) \in Nat,
         NEW rs, RepliesOK(o, rs)
  PROVE  RepliesOK(p, rs)
<1>1. Len(o) \in Nat
  BY LenProperties DEF SourcesOK
<1>2. Len(o) <= Len(p)
  BY DEF Extends
<1>3. ReplyUpTo(Len(o)) \subseteq ReplyUpTo(Len(p))
  BY <1>1, <1>2, UpToGrows
<1>4. rs \in Seq(ReplyUpTo(Len(p)))
  BY <1>3, SeqGrows DEF RepliesOK
<1>5. \A i \in 1 .. Len(rs) : Signed(p, rs[i])
  BY StillSigned DEF RepliesOK
<1>6. QED
  BY <1>4, <1>5 DEF RepliesOK

(* A request whose signatures are looked up is still right, also later. *)
LEMMA InjectingStill ==
  ASSUME NEW o, NEW s, SourcesOK(o, s), NEW p, Extends(o, p), Len(p) \in Nat,
         NEW at \in Nat, NEW t \in Nat, at <= t,
         NEW rs, RepliesOK(o, rs), NEW v, InjectingOK(o, at, v, rs)
  PROVE  InjectingOK(p, t, v, rs)
<1> DEFINE SentO == Seq(SentUpTo(Len(o)))
           SentP == Seq(SentUpTo(Len(p)))
           FoundO == Seq((1 .. Len(o)) \cup {None})
           FoundP == Seq((1 .. Len(p)) \cup {None})
<1>1. Len(o) \in Nat /\ Len(o) <= Len(p)
  BY LenProperties DEF SourcesOK, Extends
<1>2. SentUpTo(Len(o)) \subseteq SentUpTo(Len(p)) /\ 1 .. Len(o) \subseteq 1 .. Len(p)
  BY <1>1, UpToGrows
<1>3. SentO \subseteq SentP
  BY <1>2, SeqGrows
<1>4. (1 .. Len(o)) \cup {None} \subseteq (1 .. Len(p)) \cup {None}
  BY <1>2
<1>5. FoundO \subseteq FoundP
  BY <1>4, SeqGrows
<1>6. v \in [at : {"injecting"}, prov : Providers, sent : SentO, found : FoundO]
  BY DEF InjectingOK
<1> HIDE DEF SentO, SentP, FoundO, FoundP
<1>7. v \in [at : {"injecting"}, prov : Providers, sent : SentP, found : FoundP]
  BY <1>3, <1>5, <1>6
<1>8. ASSUME Len(v.sent) + 1 \in 1 .. Len(rs)
      PROVE  FoundOK(p, v.prov, v.found, rs[Len(v.sent) + 1], t)
  <2>1. FoundOK(o, v.prov, v.found, rs[Len(v.sent) + 1], at)
    BY <1>8 DEF InjectingOK
  <2>2. Signed(o, rs[Len(v.sent) + 1])
    BY <1>8 DEF RepliesOK
  <2>3. QED
    BY <1>1, <2>1, <2>2, StillFound
<1>9. QED
  BY <1>7, <1>8 DEF InjectingOK, SentP, FoundP

(* So is one that is answered. *)
LEMMA AnsweringStill ==
  ASSUME NEW o, NEW s, SourcesOK(o, s), NEW p, Extends(o, p), Len(p) \in Nat,
         NEW v, AnsweringOK(o, v)
  PROVE  AnsweringOK(p, v)
<1> DEFINE SentO == Seq(SentUpTo(Len(o)))
           SentP == Seq(SentUpTo(Len(p)))
           RepO == ReplyUpTo(Len(o))
           RepP == ReplyUpTo(Len(p))
<1>1. Len(o) \in Nat /\ Len(o) <= Len(p)
  BY LenProperties DEF SourcesOK, Extends
<1>2. SentUpTo(Len(o)) \subseteq SentUpTo(Len(p)) /\ RepO \subseteq RepP
  BY <1>1, UpToGrows
<1>3. SentO \subseteq SentP
  BY <1>2, SeqGrows
<1>4. /\ v \in [at : {"answering"}, prov : Providers, sent : SentO, reply : RepO]
      /\ Signed(o, v.reply)
  BY DEF AnsweringOK
<1>5. Signed(p, v.reply)
  BY <1>4, StillSigned
<1> HIDE DEF SentO, SentP, RepO, RepP
<1>6. v \in [at : {"answering"}, prov : Providers, sent : SentP, reply : RepP]
  BY <1>2, <1>3, <1>4
<1>7. QED
  BY <1>5, <1>6 DEF AnsweringOK, SentP, RepP

(* What is known of a request that is open. *)
LEMMA OpenIsTyped ==
  ASSUME NEW o, NEW t, NEW rs, NEW v, InjectingOK(o, t, v, rs) \/ AnsweringOK(o, v)
  PROVE  v.prov \in Providers /\ v.sent \in Seq(SentUpTo(Len(o))) /\ Len(v.sent) \in Nat
<1>1. v.prov \in Providers /\ v.sent \in Seq(SentUpTo(Len(o)))
  BY DEF InjectingOK, AnsweringOK
<1>2. QED
  BY <1>1, LenProperties

(* Any request under way is still right. *)
LEMMA WhereStill ==
  ASSUME NEW o, NEW s, SourcesOK(o, s), NEW p, Extends(o, p), Len(p) \in Nat,
         NEW at \in Nat, NEW t \in Nat, at <= t,
         NEW rs, RepliesOK(o, rs), NEW v, WhereOK(o, at, v, rs)
  PROVE  WhereOK(p, t, v, rs)
<1> SUFFICES ASSUME v # Idle
             PROVE  WhereOK(p, t, v, rs)
  BY DEF WhereOK
<1>1. /\ InjectingOK(o, at, v, rs) \/ AnsweringOK(o, v)
      /\ Len(v.sent) <= Len(rs)
      /\ \A i \in 1 .. Len(v.sent) : Echoed(o, v.prov, v.sent[i], rs[i])
  BY DEF WhereOK
<1>2. Len(rs) \in Nat /\ Len(v.sent) \in Nat
  BY <1>1, LenProperties, OpenIsTyped DEF RepliesOK
<1>3. ASSUME NEW i \in 1 .. Len(v.sent)
      PROVE  Echoed(p, v.prov, v.sent[i], rs[i])
  <2>1. i \in 1 .. Len(rs)
    BY <1>1, <1>2
  <2>2. Signed(o, rs[i])
    BY <2>1 DEF RepliesOK
  <2>3. Echoed(o, v.prov, v.sent[i], rs[i])
    BY <1>1
  <2>4. QED
    BY <2>2, <2>3, StillEchoed
<1>4. InjectingOK(p, t, v, rs) \/ AnsweringOK(p, v)
  BY <1>1, InjectingStill, AnsweringStill
<1>5. QED
  BY <1>1, <1>3, <1>4 DEF WhereOK

(* Only the request of one conversation changes. *)
LEMMA WhereStep ==
  ASSUME Inv, NEW c \in Convs, NEW v, WhereOK(origin, now, v, replies[c]),
         where' = [where EXCEPT ![c] = v],
         UNCHANGED <<now, clears, caches, replies, origin>>
  PROVE  Inv'
<1>1. where = [b \in Convs |-> where[b]]
  BY DEF Inv
<1>2. where' = [b \in Convs |-> IF b = c THEN v ELSE where[b]]
  BY <1>1
<1>3. where' = [b \in Convs |-> where'[b]]
  BY <1>2
<1>4. \A b \in Convs : (where'[b] = v /\ b = c) \/ where'[b] = where[b]
  BY <1>2
<1>5. \A b \in Convs : WhereOK(origin, now, where'[b], replies[b])
  BY <1>4, Zenon DEF Inv
<1>6. QED
  BY <1>3, <1>5 DEF Inv

(* At the start nothing has been issued.                                   *)
LEMMA InvInit == Init => Inv
<1> SUFFICES ASSUME Init PROVE Inv
  OBVIOUS
<1>1. MaxNow \in Nat /\ MaxClears \in Nat
  BY SignatureAssumption
<1>2. /\ now = 0 /\ clears = 0 /\ origin = << >>
      /\ caches = [p \in Providers |-> << >>] /\ replies = [c \in Convs |-> << >>]
      /\ where = [c \in Convs |-> Idle]
  BY DEF Init
<1>3. now \in 0 .. MaxNow /\ clears \in 0 .. MaxClears
  BY <1>1, <1>2
<1>4. SourcesOK(origin, now)
  BY <1>2 DEF SourcesOK
<1>5. ASSUME NEW p \in Providers
      PROVE  CacheOK(origin, p, caches[p])
  BY <1>2 DEF CacheOK
<1>6. ASSUME NEW c \in Convs
      PROVE  RepliesOK(origin, replies[c]) /\ WhereOK(origin, now, where[c], replies[c])
  BY <1>2 DEF RepliesOK, WhereOK
<1>7. /\ caches = [p \in Providers |-> caches[p]] /\ replies = [c \in Convs |-> replies[c]]
      /\ where = [c \in Convs |-> where[c]]
  BY <1>2
<1>8. QED
  BY <1>3, <1>4, <1>5, <1>6, <1>7 DEF Inv

(* A request whose next reply has not been looked at. *)
LEMMA NothingFound ==
  ASSUME NEW o, NEW t, NEW g \in Providers, NEW u \in Seq(SentUpTo(Len(o))), NEW rs,
         NEW v, v = [at |-> "injecting", prov |-> g, sent |-> u, found |-> << >>]
  PROVE  InjectingOK(o, t, v, rs)
<1>1. v.found = << >> /\ Len(v.found) = 0
  OBVIOUS
<1>2. \A i : i \notin 1 .. Len(v.found)
  BY <1>1
<1>3. FoundOK(o, v.prov, v.found, rs[Len(v.sent) + 1], t)
  BY <1>2 DEF FoundOK
<1>4. << >> \in Seq((1 .. Len(o)) \cup {None})
  OBVIOUS
<1>5. v \in [at : {"injecting"}, prov : Providers, sent : Seq(SentUpTo(Len(o))),
             found : Seq((1 .. Len(o)) \cup {None})]
  BY <1>4
<1>6. QED
  BY <1>3, <1>5 DEF InjectingOK

(* A request starts, with nothing sent yet. *)
LEMMA RequestStep ==
  ASSUME Inv, NEW c \in Convs, Request(c)
  PROVE  Inv'
<1>1. PICK b \in Backends :
        where' = [where EXCEPT ![c] = [at |-> "injecting", prov |-> <<b, clears>>,
                                       sent |-> << >>, found |-> << >>]]
  BY DEF Request
<1> DEFINE g == <<b, clears>>
           v == [at |-> "injecting", prov |-> g, sent |-> << >>, found |-> << >>]
<1>2. g \in Providers /\ RepliesOK(origin, replies[c])
  BY DEF Inv, Providers
<1>3. Len(replies[c]) \in Nat
  BY <1>2, LenProperties DEF RepliesOK
<1>4. v.sent = << >> /\ Len(v.sent) = 0 /\ << >> \in Seq(SentUpTo(Len(origin)))
  OBVIOUS
<1> HIDE DEF g
<1>5. InjectingOK(origin, now, v, replies[c])
  BY <1>2, <1>4, NothingFound
<1>6. \A i : i \notin 1 .. Len(v.sent)
  BY <1>4
<1>7. WhereOK(origin, now, v, replies[c])
  <2>1. Len(v.sent) <= Len(replies[c])
    BY <1>3, <1>4
  <2> HIDE DEF v
  <2>2. QED
    BY <1>5, <1>6, <2>1 DEF WhereOK
<1>8. where' = [where EXCEPT ![c] = v] /\ UNCHANGED <<now, clears, caches, replies, origin>>
  BY <1>1 DEF Request, g
<1> HIDE DEF v
<1>9. QED
  BY <1>7, <1>8, WhereStep

(* What an open request is. *)
LEMMA OpenFacts ==
  ASSUME Inv, NEW c \in Convs, where[c].at # "idle"
  PROVE  LET v == where[c] IN
         /\ \/ v.at = "injecting" /\ InjectingOK(origin, now, v, replies[c])
            \/ v.at = "answering" /\ AnsweringOK(origin, v)
         /\ v.prov \in Providers /\ CacheOK(origin, v.prov, caches[v.prov])
         /\ v.sent \in Seq(SentUpTo(Len(origin))) /\ Len(v.sent) \in Nat
         /\ Len(replies[c]) \in Nat /\ DOMAIN replies[c] = 1 .. Len(replies[c])
         /\ Len(v.sent) <= Len(replies[c])
         /\ \A i \in 1 .. Len(v.sent) : Echoed(origin, v.prov, v.sent[i], replies[c][i])
<1> DEFINE v == where[c]
<1>1. WhereOK(origin, now, v, replies[c]) /\ RepliesOK(origin, replies[c])
  BY DEF Inv
<1>2. v # Idle
  BY DEF Idle
<1>3. Len(replies[c]) \in Nat /\ DOMAIN replies[c] = 1 .. Len(replies[c])
  BY <1>1, LenProperties DEF RepliesOK
<1>4. \A p \in Providers : CacheOK(origin, p, caches[p])
  BY DEF Inv
<1> HIDE DEF v
<1>5. /\ InjectingOK(origin, now, v, replies[c]) \/ AnsweringOK(origin, v)
      /\ Len(v.sent) <= Len(replies[c])
      /\ \A i \in 1 .. Len(v.sent) : Echoed(origin, v.prov, v.sent[i], replies[c][i])
  BY <1>1, <1>2 DEF WhereOK
<1>6. InjectingOK(origin, now, v, replies[c]) => v.at = "injecting"
  BY DEF InjectingOK
<1>7. AnsweringOK(origin, v) => v.at = "answering"
  BY DEF AnsweringOK
<1>8. v.prov \in Providers /\ v.sent \in Seq(SentUpTo(Len(origin))) /\ Len(v.sent) \in Nat
  BY <1>5, OpenIsTyped
<1>9. QED
  BY <1>3, <1>4, <1>5, <1>6, <1>7, <1>8, Zenon DEF v

(* What an open request that is not answered is made of. *)
LEMMA InjectingFacts ==
  ASSUME NEW o, NEW t, NEW rs, NEW v, InjectingOK(o, t, v, rs)
  PROVE  /\ v = [at |-> "injecting", prov |-> v.prov, sent |-> v.sent, found |-> v.found]
         /\ v.found \in Seq((1 .. Len(o)) \cup {None}) /\ Len(v.found) \in Nat
<1>1. /\ v = [at |-> "injecting", prov |-> v.prov, sent |-> v.sent, found |-> v.found]
      /\ v.found \in Seq((1 .. Len(o)) \cup {None})
  BY DEF InjectingOK
<1>2. QED
  BY <1>1, LenProperties

(* What one that is answered is made of. *)
LEMMA AnsweringFacts ==
  ASSUME NEW o, NEW v, AnsweringOK(o, v)
  PROVE  /\ v = [at |-> "answering", prov |-> v.prov, sent |-> v.sent, reply |-> v.reply]
         /\ v.reply \in ReplyUpTo(Len(o)) /\ Signed(o, v.reply)
  BY DEF AnsweringOK

(* One more signature of the reply in hand is looked up. *)
LEMMA LookUpStep ==
  ASSUME Inv, NEW c \in Convs, LookUp(c)
  PROVE  Inv'
<1> DEFINE v == where[c]
           rs == replies[c]
           g == v.prov
           n == Len(origin)
           r == rs[InHand(c)]
           k == Len(v.found)
           x == Lookup(caches[g], Keys(r)[k + 1], now)
           f == Append(v.found, x)
           w == [at |-> "injecting", prov |-> g, sent |-> v.sent, found |-> f]
<1>1. v.at = "injecting" /\ InHand(c) \in DOMAIN rs /\ k + 1 \in DOMAIN Keys(r)
  BY DEF LookUp
<1>2. where' = [where EXCEPT ![c].found = f]
  BY DEF LookUp
<1>3. UNCHANGED <<now, clears, caches, replies, origin>>
  BY DEF LookUp
<1>4. /\ InjectingOK(origin, now, v, rs)
      /\ g \in Providers /\ CacheOK(origin, g, caches[g])
      /\ v.sent \in Seq(SentUpTo(n)) /\ Len(v.sent) <= Len(rs)
      /\ DOMAIN rs = 1 .. Len(rs)
      /\ \A i \in 1 .. Len(v.sent) : Echoed(origin, g, v.sent[i], rs[i])
  BY <1>1, OpenFacts
<1>5. /\ now \in 0 .. MaxNow /\ SourcesOK(origin, now) /\ RepliesOK(origin, rs)
      /\ where = [b \in Convs |-> where[b]]
  BY DEF Inv
<1>6. now \in Nat /\ n \in Nat
  BY <1>5, SignatureAssumption, LenProperties DEF SourcesOK
<1>7. InHand(c) = Len(v.sent) + 1 /\ InHand(c) \in 1 .. Len(rs)
  BY <1>1, <1>4 DEF InHand
<1>8. Signed(origin, r)
  BY <1>5, <1>7 DEF RepliesOK
<1>9. /\ v = [at |-> "injecting", prov |-> g, sent |-> v.sent, found |-> v.found]
      /\ v.found \in Seq((1 .. n) \cup {None}) /\ k \in Nat
  BY <1>4, InjectingFacts
<1>10. FoundOK(origin, g, v.found, r, now)
  BY <1>4, <1>7 DEF InjectingOK
<1>11. x \in (1 .. n) \cup {None} /\ Looked(origin, g, Own(r), Keys(r)[k + 1], x, now, n)
  <2>1. Own(r) \subseteq 1 .. n
    BY <1>8, OwnFacts
  <2> HIDE DEF r, g, k
  <2>2. QED
    BY <1>4, <1>5, <1>6, <2>1, LookedUp
<1>12. k + 1 \in 1 .. Len(Keys(r))
  <2> DEFINE M == Sigs(r.content) \ Hidden(r.content)
  <2>1. r.content \in Seq(PartsUpTo(n)) /\ r.calls \in Seq(CallIds)
    BY <1>8, SignedFacts
  <2> HIDE DEF r
  <2>2. Keyed(r, M, Keys(r))
    BY <2>1, KeysFacts
  <2> HIDE DEF M
  <2>3. DOMAIN Keys(r) = 1 .. Len(Keys(r))
    BY <2>2 DEF Keyed
  <2>4. QED
    BY <1>1, <2>3 DEF r
<1>13. where' = [where EXCEPT ![c] = w]
  <2>1. [v EXCEPT !.found = f] = w
    <3> HIDE DEF f, v
    <3>1. ASSUME NEW u, NEW e,
                 u = [at |-> "injecting", prov |-> u.prov, sent |-> u.sent, found |-> u.found]
          PROVE  [u EXCEPT !.found = e]
                   = [at |-> "injecting", prov |-> u.prov, sent |-> u.sent, found |-> e]
      BY <3>1
    <3>2. v = [at |-> "injecting", prov |-> v.prov, sent |-> v.sent, found |-> v.found]
      BY <1>9, Zenon DEF g
    <3>3. QED
      BY <3>1, <3>2 DEF g
  <2>2. where' = [where EXCEPT ![c] = [v EXCEPT !.found = f]]
    <3> HIDE DEF f
    <3>1. QED
      BY <1>2, <1>5
  <2>3. QED
    BY <2>1, <2>2
<1> HIDE DEF v, rs, g, n, r, k, x
<1>14. /\ f \in Seq((1 .. n) \cup {None}) /\ Len(f) = k + 1 /\ f[k + 1] = x
       /\ \A i \in 1 .. k : f[i] = v.found[i]
  <2>1. PICK S : S = (1 .. n) \cup {None}
    OBVIOUS
  <2>2. v.found \in Seq(S) /\ x \in S
    BY <1>9, <1>11, <2>1
  <2>3. /\ f \in Seq(S) /\ Len(f) = Len(v.found) + 1 /\ f[Len(v.found) + 1] = x
        /\ \A i \in 1 .. Len(v.found) : f[i] = v.found[i]
    BY <2>2, AppendProperties
  <2>4. QED
    BY <2>1, <2>3 DEF k
<1> HIDE DEF f
<1>15. FoundOK(origin, g, f, r, now)
  <2> SUFFICES ASSUME NEW i \in 1 .. k + 1
               PROVE  /\ i \in 1 .. Len(Keys(r))
                      /\ Looked(origin, g, Own(r), Keys(r)[i], f[i], now, Len(origin))
    BY <1>14 DEF FoundOK
  <2>1. CASE i = k + 1
    BY <1>11, <1>12, <1>14, <2>1 DEF n
  <2>2. CASE i \in 1 .. k
    BY <1>10, <1>14, <2>2 DEF FoundOK, k
  <2>3. QED
    BY <1>9, <2>1, <2>2
<1>16. w.prov = g /\ w.sent = v.sent /\ w.found = f
  OBVIOUS
<1>17. InjectingOK(origin, now, w, rs)
  <2>1. w \in [at : {"injecting"}, prov : Providers, sent : Seq(SentUpTo(n)),
               found : Seq((1 .. n) \cup {None})]
    BY <1>4, <1>14
  <2>2. rs[Len(w.sent) + 1] = r
    BY <1>7, <1>16 DEF r
  <2> HIDE DEF w
  <2>3. QED
    BY <1>15, <1>16, <2>1, <2>2 DEF InjectingOK, n
<1> HIDE DEF w
<1>18. WhereOK(origin, now, w, rs)
  BY <1>4, <1>16, <1>17 DEF WhereOK
<1>19. QED
  BY <1>3, <1>13, <1>18, WhereStep DEF rs

(* The reply in hand is sent. *)
LEMMA InjectStep ==
  ASSUME Inv, NEW c \in Convs, Inject(c)
  PROVE  Inv'
<1> DEFINE v == where[c]
           rs == replies[c]
           g == v.prov
           m == Len(v.sent)
           n == Len(origin)
           r == rs[InHand(c)]
           s == Restored(r, v.found)
           u == Append(v.sent, s)
           w == [at |-> "injecting", prov |-> g, sent |-> u, found |-> << >>]
<1>1. v.at = "injecting" /\ InHand(c) \in DOMAIN rs /\ Len(v.found) = Len(Keys(r))
  BY DEF Inject
<1>2. where' = [where EXCEPT ![c].sent = Append(@, s), ![c].found = << >>]
  BY DEF Inject
<1>3. UNCHANGED <<now, clears, caches, replies, origin>>
  BY DEF Inject
<1>4. /\ InjectingOK(origin, now, v, rs) /\ g \in Providers
      /\ v.sent \in Seq(SentUpTo(n)) /\ m \in Nat /\ Len(rs) \in Nat
      /\ DOMAIN rs = 1 .. Len(rs)
      /\ \A i \in 1 .. m : Echoed(origin, g, v.sent[i], rs[i])
  BY <1>1, OpenFacts
<1>5. /\ now \in 0 .. MaxNow /\ SourcesOK(origin, now) /\ RepliesOK(origin, rs)
      /\ where = [b \in Convs |-> where[b]]
  BY DEF Inv
<1>6. InHand(c) = m + 1 /\ m + 1 \in 1 .. Len(rs) /\ m + 1 <= Len(rs)
  BY <1>1, <1>4 DEF InHand
<1>7. Signed(origin, r)
  BY <1>5, <1>6 DEF RepliesOK
<1>8. /\ v = [at |-> "injecting", prov |-> g, sent |-> v.sent, found |-> v.found]
      /\ v.found \in Seq((1 .. n) \cup {None})
  BY <1>4, InjectingFacts
<1>9. FoundOK(origin, g, v.found, r, now)
  BY <1>4, <1>6 DEF InjectingOK
<1>10. Echoed(origin, g, s, r)
  <2> HIDE DEF r, g
  <2>1. PICK f : f = v.found
    OBVIOUS
  <2>2. /\ f \in Seq((1 .. Len(origin)) \cup {None}) /\ Len(f) = Len(Keys(r))
        /\ FoundOK(origin, g, f, r, now)
    BY <1>1, <1>8, <1>9, <2>1
  <2>3. Echoed(origin, g, Restored(r, f), r)
    BY <1>5, <1>7, <2>2, RestoredFacts
  <2>4. QED
    BY <2>1, <2>3
<1>11. s \in SentUpTo(n)
  <2> HIDE DEF s, v, rs, m
  <2>1. QED
    BY <1>10, Zenon DEF Echoed
<1>12. where' = [where EXCEPT ![c] = w]
  <2>1. [v EXCEPT !.sent = u, !.found = << >>] = w
    <3> HIDE DEF u, v
    <3>1. PICK x : x = [v EXCEPT !.sent = u]
      OBVIOUS
    <3>2. ASSUME NEW y, NEW e, NEW h, NEW i, NEW j,
                 y = [at |-> "injecting", prov |-> h, sent |-> i, found |-> j]
          PROVE  [y EXCEPT !.sent = e]
                   = [at |-> "injecting", prov |-> h, sent |-> e, found |-> j]
      BY <3>2
    <3>3. v = [at |-> "injecting", prov |-> v.prov, sent |-> v.sent, found |-> v.found]
      BY <1>8, Zenon DEF g
    <3>4. x = [at |-> "injecting", prov |-> v.prov, sent |-> u, found |-> v.found]
      BY <3>1, <3>2, <3>3
    <3>5. [v EXCEPT !.sent = u, !.found = << >>] = [x EXCEPT !.found = << >>]
      BY <3>1, Zenon
    <3>6. [x EXCEPT !.found = << >>] = w
      BY <3>4 DEF g
    <3>7. QED
      BY <3>5, <3>6
  <2>2. where' = [where EXCEPT ![c] = [v EXCEPT !.sent = u, !.found = << >>]]
    <3> HIDE DEF s
    <3>1. QED
      BY <1>2, <1>5
  <2>3. QED
    BY <2>1, <2>2
<1> HIDE DEF s, v, rs, m, n, g, r
<1>13. /\ u \in Seq(SentUpTo(n)) /\ Len(u) = m + 1 /\ u[m + 1] = s
       /\ \A i \in 1 .. m : u[i] = v.sent[i]
  BY <1>4, <1>11, AppendProperties DEF m
<1> HIDE DEF u
<1>14. w.prov = g /\ w.sent = u
  OBVIOUS
<1>15. InjectingOK(origin, now, w, rs)
  BY <1>4, <1>13, NothingFound DEF n
<1> HIDE DEF w
<1>16. ASSUME NEW i \in 1 .. m + 1
       PROVE  Echoed(origin, g, u[i], rs[i])
  <2>1. CASE i = m + 1
    BY <1>6, <1>10, <1>13, <2>1 DEF r
  <2>2. CASE i \in 1 .. m
    BY <1>4, <1>13, <2>2
  <2>3. QED
    BY <1>4, <2>1, <2>2
<1>17. WhereOK(origin, now, w, rs)
  BY <1>6, <1>13, <1>14, <1>15, <1>16 DEF WhereOK
<1>18. QED
  BY <1>3, <1>12, <1>17, WhereStep DEF rs

(* A reply of which nothing has come is signed: it holds nothing.          *)
LEMMA NothingSigned ==
  ASSUME NEW o
  PROVE  NoReply \in ReplyUpTo(Len(o)) /\ Signed(o, NoReply)
<1>1. /\ NoReply.content = << >> /\ NoReply.wrote = << >> /\ NoReply.calls = << >>
      /\ NoReply.callSigs = << >> /\ NoReply.messageSigs = << >> /\ NoReply.deltas = 0
  BY DEF NoReply
<1>2. MaxDeltas \in Nat
  BY SignatureAssumption
<1>3. NoReply \in ReplyUpTo(Len(o))
  BY <1>2 DEF NoReply, ReplyUpTo
<1>4. << >> \in Seq(WrittenParts)
  OBVIOUS
<1>5. Sigs(<< >>) = {} /\ Wrote(<< >>) = << >>
  BY <1>4, WrittenIsWritten
<1>6. ContentOK(NoReply.content, NoReply.wrote, NoReply.messageSigs)
  BY <1>1, <1>5 DEF ContentOK
<1>7. QED
  BY <1>1, <1>3, <1>6 DEF Signed

(* A request that is answered by the reply q so far. *)
LEMMA IsAnswering ==
  ASSUME NEW o, NEW g \in Providers, NEW u \in Seq(SentUpTo(Len(o))), NEW q,
         q \in ReplyUpTo(Len(o)), Signed(o, q),
         NEW v, v = [at |-> "answering", prov |-> g, sent |-> u, reply |-> q]
  PROVE  AnsweringOK(o, v)
  BY DEF AnsweringOK

(* All is sent, the upstream answers. *)
LEMMA SendStep ==
  ASSUME Inv, NEW c \in Convs, Send(c)
  PROVE  Inv'
<1> DEFINE v == where[c]
           rs == replies[c]
           w == [at |-> "answering", prov |-> v.prov, sent |-> v.sent, reply |-> NoReply]
<1>1. /\ v.at = "injecting" /\ where' = [where EXCEPT ![c] = w]
      /\ UNCHANGED <<now, clears, caches, replies, origin>>
  BY DEF Send, Inv
<1>2. /\ v.prov \in Providers /\ v.sent \in Seq(SentUpTo(Len(origin))) /\ Len(v.sent) <= Len(rs)
      /\ \A i \in 1 .. Len(v.sent) : Echoed(origin, v.prov, v.sent[i], rs[i])
  BY <1>1, OpenFacts
<1> HIDE DEF v, rs
<1>3. w.prov = v.prov /\ w.sent = v.sent
  OBVIOUS
<1>4. AnsweringOK(origin, w)
  BY <1>2, NothingSigned, IsAnswering
<1> HIDE DEF w
<1>5. WhereOK(origin, now, w, rs)
  BY <1>2, <1>3, <1>4 DEF WhereOK
<1>6. QED
  BY <1>1, <1>5, WhereStep DEF rs

(* A request that ends is no longer there. *)
LEMMA AbandonStep ==
  ASSUME Inv, NEW c \in Convs, Abandon(c)
  PROVE  Inv'
<1>1. WhereOK(origin, now, Idle, replies[c])
  BY DEF WhereOK
<1>2. QED
  BY <1>1, WhereStep DEF Abandon

(* The reply is one of the conversation's. *)
LEMMA FinishStep ==
  ASSUME Inv, NEW c \in Convs, Finish(c)
  PROVE  Inv'
<1> DEFINE r == where[c].reply
           rs == replies[c]
           qs == Append(rs, r)
<1>1. /\ where[c].at = "answering" /\ replies' = [replies EXCEPT ![c] = qs]
      /\ where' = [where EXCEPT ![c] = Idle]
      /\ UNCHANGED <<now, clears, caches, origin>>
  BY DEF Finish, Inv
<1>2. r \in ReplyUpTo(Len(origin)) /\ Signed(origin, r)
  <2>1. AnsweringOK(origin, where[c])
    BY <1>1, OpenFacts
  <2>2. QED
    BY <2>1, AnsweringFacts
<1>3. RepliesOK(origin, rs)
  BY DEF Inv
<1> HIDE DEF r, rs
<1>4. rs \in Seq(ReplyUpTo(Len(origin))) /\ Len(rs) \in Nat
  BY <1>3, LenProperties DEF RepliesOK
<1>5. /\ qs \in Seq(ReplyUpTo(Len(origin))) /\ Len(qs) = Len(rs) + 1 /\ qs[Len(rs) + 1] = r
      /\ \A i \in 1 .. Len(rs) : qs[i] = rs[i]
  BY <1>2, <1>4, AppendProperties
<1> HIDE DEF qs
<1>6. ASSUME NEW i \in 1 .. Len(qs)
      PROVE  Signed(origin, qs[i])
  <2>1. i \in 1 .. Len(rs) \/ i = Len(rs) + 1
    BY <1>4, <1>5
  <2>2. QED
    BY <1>2, <1>3, <1>5, <2>1 DEF RepliesOK
<1>7. RepliesOK(origin, qs)
  BY <1>5, <1>6 DEF RepliesOK
<1>8. WhereOK(origin, now, Idle, qs)
  BY DEF WhereOK
<1>9. /\ replies = [b \in Convs |-> replies[b]] /\ where = [b \in Convs |-> where[b]]
      /\ \A b \in Convs :
           RepliesOK(origin, replies[b]) /\ WhereOK(origin, now, where[b], replies[b])
  BY DEF Inv
<1>10. /\ replies' = [b \in Convs |-> IF b = c THEN qs ELSE replies[b]]
       /\ where' = [b \in Convs |-> IF b = c THEN Idle ELSE where[b]]
  BY <1>1, <1>9
<1>11. /\ replies' = [b \in Convs |-> replies'[b]] /\ where' = [b \in Convs |-> where'[b]]
       /\ \A b \in Convs : \/ b = c /\ replies'[b] = qs /\ where'[b] = Idle
                           \/ replies'[b] = replies[b] /\ where'[b] = where[b]
  BY <1>10
<1>12. \A b \in Convs :
         RepliesOK(origin, replies'[b]) /\ WhereOK(origin, now, where'[b], replies'[b])
  <2> SUFFICES ASSUME NEW b \in Convs
               PROVE  RepliesOK(origin, replies'[b])
                      /\ WhereOK(origin, now, where'[b], replies'[b])
    OBVIOUS
  <2>1. CASE replies'[b] = qs /\ where'[b] = Idle
    BY <1>7, <1>8, <2>1
  <2>2. CASE replies'[b] = replies[b] /\ where'[b] = where[b]
    BY <1>9, <2>2
  <2>3. QED
    BY <1>11, <2>1, <2>2
<1>13. QED
  BY <1>1, <1>11, <1>12, Zenon DEF Inv

(* The pool is cleared. *)
LEMMA ClearStep ==
  ASSUME Inv, Clear
  PROVE  Inv'
<1>1. clears \in 0 .. MaxClears /\ clears < MaxClears /\ clears' = clears + 1
  BY DEF Inv, Clear
<1>2. clears' \in 0 .. MaxClears
  BY <1>1, SignatureAssumption
<1>3. UNCHANGED <<now, caches, replies, where, origin>>
  BY DEF Clear
<1>4. QED
  BY <1>2, <1>3 DEF Inv

(* Time passes: what was fresh may expire, no signature changes.           *)
LEMMA TickStep ==
  ASSUME Inv, Tick
  PROVE  Inv'
<1>1. now \in 0 .. MaxNow /\ now < MaxNow /\ now' = now + 1
  BY DEF Inv, Tick
<1>2. MaxNow \in Nat
  BY SignatureAssumption
<1>3. now' \in 0 .. MaxNow /\ now <= now' /\ now \in Nat /\ now' \in Nat
  BY <1>1, <1>2
<1>4. UNCHANGED <<clears, caches, replies, where, origin>>
  BY DEF Tick
<1>5. SourcesOK(origin, now) /\ Len(origin) \in Nat
  BY LenProperties DEF Inv, SourcesOK
<1>6. \A n \in 1 .. Len(origin) : origin[n].at \in Nat
  BY <1>5, SourceFacts
<1>7. \A n \in 1 .. Len(origin) : origin[n].at <= now'
  BY <1>3, <1>5, <1>6 DEF SourcesOK
<1>8. SourcesOK(origin, now')
  BY <1>5, <1>7 DEF SourcesOK
<1>9. Extends(origin, origin)
  BY <1>5 DEF Extends
<1>10. ASSUME NEW c \in Convs
       PROVE  WhereOK(origin, now', where[c], replies[c])
  <2>1. RepliesOK(origin, replies[c]) /\ WhereOK(origin, now, where[c], replies[c])
    BY DEF Inv
  <2>2. PICK t : t = now'
    OBVIOUS
  <2>3. t \in Nat /\ now <= t
    BY <1>3, <2>2
  <2>4. WhereOK(origin, t, where[c], replies[c])
    BY <1>3, <1>5, <1>9, <2>1, <2>3, WhereStill
  <2>5. QED
    BY <2>2, <2>4
<1>11. QED
  BY <1>3, <1>4, <1>8, <1>10 DEF Inv

----------------------------------------------------------------------------
(* What the upstream answers *)

(* A signature is issued by provider g while a request of c is under way:  *)
(* all is right still, for it and for all others.                          *)
LEMMA IssueStep ==
  ASSUME Inv, NEW c \in Convs, NEW g \in Providers, NEW w, NEW v,
         Grown(origin, origin', now, g, w), caches' = [caches EXCEPT ![g] = w],
         where' = [where EXCEPT ![c] = v], WhereOK(origin', now, v, replies[c]),
         UNCHANGED <<now, clears, replies>>
  PROVE  Inv'
<1> DEFINE p == origin'
<1>1. SourcesOK(origin, now) /\ now \in 0 .. MaxNow /\ clears \in 0 .. MaxClears
  BY DEF Inv
<1>2. SourcesOK(p, now) /\ Extends(origin, p) /\ Len(p) \in Nat
  BY Zenon DEF Grown
<1>3. now \in Nat /\ now <= now
  BY <1>1, SignatureAssumption
<1>4. caches' = [h \in Providers |-> IF h = g THEN w ELSE caches[h]]
  BY DEF Inv
<1>5. caches' = [h \in Providers |-> caches'[h]]
      /\ \A h \in Providers : IF h = g THEN caches'[h] = w ELSE caches'[h] = caches[h]
  BY <1>4
<1>6. ASSUME NEW h \in Providers
      PROVE  CacheOK(p, h, caches'[h])
  <2>1. CASE h = g
    BY <1>5, <2>1 DEF Grown
  <2>2. CASE h # g
    <3>1. caches'[h] = caches[h] /\ CacheOK(origin, h, caches[h])
      BY <1>5, <2>2 DEF Inv
    <3>2. \A u : CacheOK(origin, h, u) => CacheOK(p, h, u)
      BY <2>2, Zenon DEF Grown
    <3>3. QED
      BY <3>1, <3>2
  <2>3. QED
    BY <2>1, <2>2
<1>7. where' = [b \in Convs |-> IF b = c THEN v ELSE where[b]]
  BY DEF Inv
<1>8. where' = [b \in Convs |-> where'[b]]
      /\ \A b \in Convs : (where'[b] = v /\ b = c) \/ where'[b] = where[b]
  BY <1>7
<1>9. \A b \in Convs :
        RepliesOK(origin, replies[b]) /\ WhereOK(origin, now, where[b], replies[b])
  BY DEF Inv
<1>10. ASSUME NEW b \in Convs
       PROVE  RepliesOK(p, replies[b]) /\ WhereOK(p, now, where'[b], replies[b])
  <2>1. RepliesOK(p, replies[b])
    BY <1>1, <1>2, <1>9, RepliesStill
  <2>2. WhereOK(p, now, where[b], replies[b])
    BY <1>1, <1>2, <1>3, <1>9, WhereStill
  <2>3. QED
    BY <1>8, <2>1, <2>2
<1>11. now' = now /\ clears' = clears /\ replies' = replies
  OBVIOUS
<1>12. replies = [b \in Convs |-> replies[b]]
  BY DEF Inv
<1>13. QED
  BY <1>1, <1>2, <1>5, <1>6, <1>8, <1>10, <1>11, <1>12 DEF Inv

(* What a request that is answered is like. *)
LEMMA ReceivingFacts ==
  ASSUME Inv, NEW c \in Convs, Receiving(c)
  PROVE  LET v == where[c]  r == v.reply IN
         /\ AnsweringOK(origin, v) /\ v # Idle /\ Signed(origin, r) /\ r.deltas < MaxDeltas
         /\ v = [at |-> "answering", prov |-> v.prov, sent |-> v.sent, reply |-> r]
         /\ r = [content |-> r.content, wrote |-> r.wrote, calls |-> r.calls,
                 callSigs |-> r.callSigs, messageSigs |-> r.messageSigs, deltas |-> r.deltas]
         /\ v.prov \in Providers /\ CacheOK(origin, v.prov, caches[v.prov])
         /\ where = [b \in Convs |-> where[b]]
         /\ SourcesOK(origin, now) /\ now \in 0 .. MaxNow /\ now \in Nat
         /\ RepliesOK(origin, replies[c]) /\ WhereOK(origin, now, v, replies[c])
<1> DEFINE v == where[c]
           r == v.reply
<1>1. v.at = "answering" /\ r.deltas < MaxDeltas /\ v # Idle
  BY DEF Receiving, Idle
<1>2. AnsweringOK(origin, v) /\ v.prov \in Providers /\ CacheOK(origin, v.prov, caches[v.prov])
  BY <1>1, OpenFacts
<1>3. /\ where = [b \in Convs |-> where[b]]
      /\ SourcesOK(origin, now) /\ now \in 0 .. MaxNow
      /\ RepliesOK(origin, replies[c]) /\ WhereOK(origin, now, v, replies[c])
  BY DEF Inv
<1>4. now \in Nat
  BY <1>3, SignatureAssumption
<1> HIDE DEF v
<1>5. /\ v = [at |-> "answering", prov |-> v.prov, sent |-> v.sent, reply |-> r]
      /\ r \in ReplyUpTo(Len(origin)) /\ Signed(origin, r)
  BY <1>2, AnsweringFacts
<1> HIDE DEF r
<1>6. r = [content |-> r.content, wrote |-> r.wrote, calls |-> r.calls,
           callSigs |-> r.callSigs, messageSigs |-> r.messageSigs, deltas |-> r.deltas]
  BY <1>5 DEF ReplyUpTo
<1>7. QED
  BY <1>1, <1>2, <1>3, <1>4, <1>5, <1>6, Zenon DEF v, r

(* More of a reply: what is sent still goes with the replies. *)
LEMMA StillAnswering ==
  ASSUME NEW o, NEW s, SourcesOK(o, s), NEW p, Extends(o, p), Len(p) \in Nat,
         NEW t \in Nat, NEW rs, RepliesOK(o, rs), NEW v, WhereOK(o, t, v, rs), v # Idle,
         NEW q, Signed(p, q), q \in ReplyUpTo(Len(p)),
         NEW z, z = [at |-> "answering", prov |-> v.prov, sent |-> v.sent, reply |-> q]
  PROVE  WhereOK(p, t, z, rs)
<1>1. t <= t
  OBVIOUS
<1>2. WhereOK(p, t, v, rs)
  BY <1>1, WhereStill
<1>3. /\ InjectingOK(p, t, v, rs) \/ AnsweringOK(p, v)
      /\ Len(v.sent) <= Len(rs)
      /\ \A i \in 1 .. Len(v.sent) : Echoed(p, v.prov, v.sent[i], rs[i])
  BY <1>2 DEF WhereOK
<1>4. v.prov \in Providers /\ v.sent \in Seq(SentUpTo(Len(p)))
  BY <1>3, OpenIsTyped
<1>5. AnsweringOK(p, z) /\ z.prov = v.prov /\ z.sent = v.sent
  BY <1>4, IsAnswering
<1>6. QED
  BY <1>3, <1>5 DEF WhereOK

(* A signature is put for a reply, which becomes q with it. *)
LEMMA PutStep ==
  ASSUME Inv, NEW c \in Convs, Receiving(c),
         NEW key \in {CallKey(id) : id \in CallIds} \cup {MessageKey(Len(origin) + 1)},
         Put(c, key), UNCHANGED <<now, clears, replies>>,
         NEW q, Signed(origin', q), q \in ReplyUpTo(Len(origin')),
         where' = [where EXCEPT ![c] = [at |-> "answering", prov |-> where[c].prov,
                                        sent |-> where[c].sent, reply |-> q]]
  PROVE  Inv'
<1> DEFINE v == where[c]
           g == v.prov
           N == Len(origin) + 1
           z == [at |-> "answering", prov |-> g, sent |-> v.sent, reply |-> q]
           w == Write(caches[g], key, N, now, N)
<1>1. /\ v # Idle /\ g \in Providers /\ CacheOK(origin, g, caches[g])
      /\ SourcesOK(origin, now) /\ now \in 0 .. MaxNow /\ now \in Nat
      /\ RepliesOK(origin, replies[c]) /\ WhereOK(origin, now, v, replies[c])
  BY ReceivingFacts
<1>2. /\ caches' = [caches EXCEPT ![g] = w]
      /\ origin' = Append(origin, [key |-> key, prov |-> g, at |-> now])
  BY DEF Put
<1>3. PICK o : o = origin'
  OBVIOUS
<1> HIDE DEF v, g
<1>4. Issuing(origin, now, g, caches[g], key, o)
  BY <1>1, <1>2, <1>3 DEF Issuing
<1>5. Issued(origin, now, g, caches[g], key, o)
  BY <1>4, IssueFacts
<1>6. Grown(origin, o, now, g, w)
  BY <1>5 DEF Issued
<1> HIDE DEF w
<1>7. Extends(origin, o) /\ Len(o) \in Nat
  BY <1>6, Zenon DEF Grown
<1>8. Signed(o, q) /\ q \in ReplyUpTo(Len(o))
  BY <1>3
<1>9. WhereOK(o, now, z, replies[c])
  BY <1>1, <1>7, <1>8, StillAnswering DEF g
<1>10. where' = [where EXCEPT ![c] = z]
  BY DEF v, g
<1> HIDE DEF z
<1>11. Grown(origin, origin', now, g, w) /\ WhereOK(origin', now, z, replies[c])
  BY <1>3, <1>6, <1>9
<1>12. QED
  BY <1>1, <1>2, <1>10, <1>11, IssueStep

(* The signature that is put. *)
LEMMA PutFacts ==
  ASSUME Inv, NEW c \in Convs, Receiving(c),
         NEW key \in {CallKey(id) : id \in CallIds} \cup {MessageKey(Len(origin) + 1)},
         Put(c, key)
  PROVE  /\ Extends(origin, origin') /\ Len(origin') = Len(origin) + 1
         /\ origin'[Len(origin')].key = key /\ SourcesOK(origin, now)
<1> DEFINE g == where[c].prov
<1>1. /\ g \in Providers /\ CacheOK(origin, g, caches[g])
      /\ SourcesOK(origin, now) /\ now \in 0 .. MaxNow
  BY ReceivingFacts
<1>2. origin' = Append(origin, [key |-> key, prov |-> g, at |-> now])
  BY DEF Put
<1>3. PICK o : o = origin'
  OBVIOUS
<1> HIDE DEF g
<1>4. Issuing(origin, now, g, caches[g], key, o)
  BY <1>1, <1>2, <1>3 DEF Issuing
<1>5. Issued(origin, now, g, caches[g], key, o)
  BY <1>4, IssueFacts
<1>6. Extends(origin, o) /\ Len(o) = Len(origin) + 1 /\ o[Len(o)].key = key
  BY <1>5 DEF Issued, Grown
<1>7. QED
  BY <1>1, <1>3, <1>6

(* Some fields of a reply are replaced. *)
WithCall(r, i, j, k) ==
  [r EXCEPT !.calls = i, !.callSigs = j, !.deltas = k]
WithText(r, i, j, k) ==
  [r EXCEPT !.content = i, !.wrote = j, !.deltas = k]
WithSigned(r, i, j, l, k) ==
  [r EXCEPT !.content = i, !.wrote = j, !.messageSigs = l, !.deltas = k]

LEMMA CallFields ==
  ASSUME NEW r, NEW i, NEW j, NEW k,
         r = [content |-> r.content, wrote |-> r.wrote, calls |-> r.calls,
              callSigs |-> r.callSigs, messageSigs |-> r.messageSigs, deltas |-> r.deltas]
  PROVE  WithCall(r, i, j, k)
           = [content |-> r.content, wrote |-> r.wrote, calls |-> i,
              callSigs |-> j, messageSigs |-> r.messageSigs, deltas |-> k]
<1>1. PICK x : x = [r EXCEPT !.calls = i]
  OBVIOUS
<1>2. PICK y : y = [x EXCEPT !.callSigs = j]
  OBVIOUS
<1>3. x = [content |-> r.content, wrote |-> r.wrote, calls |-> i,
            callSigs |-> r.callSigs, messageSigs |-> r.messageSigs, deltas |-> r.deltas]
  BY <1>1
<1>4. y = [content |-> r.content, wrote |-> r.wrote, calls |-> i,
            callSigs |-> j, messageSigs |-> r.messageSigs, deltas |-> r.deltas]
  BY <1>2, <1>3
<1>5. WithCall(r, i, j, k) = [y EXCEPT !.deltas = k]
  BY <1>1, <1>2, Zenon DEF WithCall
<1>6. QED
  BY <1>4, <1>5

LEMMA TextFields ==
  ASSUME NEW r, NEW i, NEW j, NEW k,
         r = [content |-> r.content, wrote |-> r.wrote, calls |-> r.calls,
              callSigs |-> r.callSigs, messageSigs |-> r.messageSigs, deltas |-> r.deltas]
  PROVE  WithText(r, i, j, k)
           = [content |-> i, wrote |-> j, calls |-> r.calls,
              callSigs |-> r.callSigs, messageSigs |-> r.messageSigs, deltas |-> k]
<1>1. PICK x : x = [r EXCEPT !.content = i]
  OBVIOUS
<1>2. PICK y : y = [x EXCEPT !.wrote = j]
  OBVIOUS
<1>3. x = [content |-> i, wrote |-> r.wrote, calls |-> r.calls,
            callSigs |-> r.callSigs, messageSigs |-> r.messageSigs, deltas |-> r.deltas]
  BY <1>1
<1>4. y = [content |-> i, wrote |-> j, calls |-> r.calls,
            callSigs |-> r.callSigs, messageSigs |-> r.messageSigs, deltas |-> r.deltas]
  BY <1>2, <1>3
<1>5. WithText(r, i, j, k) = [y EXCEPT !.deltas = k]
  BY <1>1, <1>2, Zenon DEF WithText
<1>6. QED
  BY <1>4, <1>5

LEMMA SignedFields ==
  ASSUME NEW r, NEW i, NEW j, NEW l, NEW k,
         r = [content |-> r.content, wrote |-> r.wrote, calls |-> r.calls,
              callSigs |-> r.callSigs, messageSigs |-> r.messageSigs, deltas |-> r.deltas]
  PROVE  WithSigned(r, i, j, l, k)
           = [content |-> i, wrote |-> j, calls |-> r.calls,
              callSigs |-> r.callSigs, messageSigs |-> l, deltas |-> k]
<1>1. PICK x : x = [r EXCEPT !.content = i]
  OBVIOUS
<1>2. PICK y : y = [x EXCEPT !.wrote = j]
  OBVIOUS
<1>3. PICK z : z = [y EXCEPT !.messageSigs = l]
  OBVIOUS
<1>4. x = [content |-> i, wrote |-> r.wrote, calls |-> r.calls,
            callSigs |-> r.callSigs, messageSigs |-> r.messageSigs, deltas |-> r.deltas]
  BY <1>1
<1>5. y = [content |-> i, wrote |-> j, calls |-> r.calls,
            callSigs |-> r.callSigs, messageSigs |-> r.messageSigs, deltas |-> r.deltas]
  BY <1>2, <1>4
<1>6. z = [content |-> i, wrote |-> j, calls |-> r.calls,
            callSigs |-> r.callSigs, messageSigs |-> l, deltas |-> r.deltas]
  BY <1>3, <1>5
<1>7. WithSigned(r, i, j, l, k) = [z EXCEPT !.deltas = k]
  BY <1>1, <1>2, <1>3, Zenon DEF WithSigned
<1>8. QED
  BY <1>6, <1>7

(* The reply of a request is replaced. *)
LEMMA ReplyField ==
  ASSUME NEW v, NEW g, NEW u, NEW r, NEW q,
         v = [at |-> "answering", prov |-> g, sent |-> u, reply |-> r]
  PROVE  [v EXCEPT !.reply = q]
           = [at |-> "answering", prov |-> g, sent |-> u, reply |-> q]
  OBVIOUS

(* A tool call and its signature come. *)
LEMMA ToolCallStep ==
  ASSUME Inv, NEW c \in Convs, NEW id \in CallIds, ToolCall(c, id)
  PROVE  Inv'
<1> DEFINE v == where[c]
           r == v.reply
           n == Len(origin)
           q == [content |-> r.content, wrote |-> r.wrote, calls |-> Append(r.calls, id),
                 callSigs |-> Append(r.callSigs, n + 1),
                 messageSigs |-> r.messageSigs, deltas |-> r.deltas + 1]
           z == [at |-> "answering", prov |-> v.prov, sent |-> v.sent, reply |-> q]
           e == WithCall(r, Append(r.calls, id), Append(r.callSigs, n + 1), r.deltas + 1)
<1>1. Receiving(c) /\ Put(c, CallKey(id)) /\ UNCHANGED <<now, clears, replies>>
  BY DEF ToolCall
<1>2. /\ Signed(origin, r) /\ r.deltas < MaxDeltas
      /\ v = [at |-> "answering", prov |-> v.prov, sent |-> v.sent, reply |-> r]
      /\ r = [content |-> r.content, wrote |-> r.wrote, calls |-> r.calls,
              callSigs |-> r.callSigs, messageSigs |-> r.messageSigs, deltas |-> r.deltas]
      /\ where = [b \in Convs |-> where[b]]
  BY <1>1, ReceivingFacts
<1>3. where' = [where EXCEPT ![c] = [v EXCEPT !.reply = e]]
  <2>1. where' = [where EXCEPT ![c].reply = e]
    BY Zenon DEF ToolCall, WithCall
  <2> HIDE DEF e
  <2>2. QED
    BY <1>2, <2>1
<1>4. e = q
  <2>1. PICK i : i = Append(r.calls, id)
    OBVIOUS
  <2>2. PICK j : j = Append(r.callSigs, n + 1)
    OBVIOUS
  <2>3. PICK k : k = r.deltas + 1
    OBVIOUS
  <2>4. WithCall(r, i, j, k)
         = [content |-> r.content, wrote |-> r.wrote, calls |-> i,
               callSigs |-> j, messageSigs |-> r.messageSigs, deltas |-> k]
    <3> HIDE DEF r
    <3>1. QED
      BY <1>2, CallFields
  <2>5. QED
    BY <2>1, <2>2, <2>3, <2>4, Zenon
<1> HIDE DEF e
<1>5. [v EXCEPT !.reply = q] = z
  <2> HIDE DEF v, q
  <2>1. QED
    BY <1>2, ReplyField
<1>6. where' = [where EXCEPT ![c] = z]
  <2> HIDE DEF q, z, v
  <2>1. QED
    BY <1>3, <1>4, <1>5
<1>7. CallKey(id) \in {CallKey(i) : i \in CallIds} \cup {MessageKey(Len(origin) + 1)}
  OBVIOUS
<1>8. PICK o : o = origin'
  OBVIOUS
<1>9. /\ Extends(origin, o) /\ Len(o) = n + 1 /\ o[Len(o)].key = CallKey(id)
      /\ SourcesOK(origin, now)
  BY <1>1, <1>7, <1>8, PutFacts
<1>10. Signed(o, q) /\ q \in ReplyUpTo(Len(o))
  <2>1. q = [content |-> r.content, wrote |-> r.wrote, calls |-> Append(r.calls, id),
             callSigs |-> Append(r.callSigs, Len(o)),
             messageSigs |-> r.messageSigs, deltas |-> r.deltas + 1]
    BY <1>9
  <2> HIDE DEF q, r
  <2>2. QED
    BY <1>2, <1>9, <2>1, CallAdded DEF n
<1> HIDE DEF q
<1>11. Signed(origin', q) /\ q \in ReplyUpTo(Len(origin'))
  BY <1>8, <1>10
<1>12. QED
  BY <1>1, <1>6, <1>7, <1>11, PutStep

(* A text and its signature come. *)
LEMMA SignedMessageStep ==
  ASSUME Inv, NEW c \in Convs, NEW d \in Contents, SignedMessage(c, d)
  PROVE  Inv'
<1> DEFINE v == where[c]
           r == v.reply
           n == Len(origin)
           q == [content |-> r.content \o Marked(d, n + 1), wrote |-> r.wrote \o d,
                 calls |-> r.calls, callSigs |-> r.callSigs,
                 messageSigs |-> Append(r.messageSigs, n + 1), deltas |-> r.deltas + 1]
           z == [at |-> "answering", prov |-> v.prov, sent |-> v.sent, reply |-> q]
           e == WithSigned(r, r.content \o Marked(d, n + 1), r.wrote \o d,
                           Append(r.messageSigs, n + 1), r.deltas + 1)
<1>1. Receiving(c) /\ Put(c, MessageKey(n + 1)) /\ UNCHANGED <<now, clears, replies>>
  BY DEF SignedMessage
<1>2. /\ Signed(origin, r) /\ r.deltas < MaxDeltas
      /\ v = [at |-> "answering", prov |-> v.prov, sent |-> v.sent, reply |-> r]
      /\ r = [content |-> r.content, wrote |-> r.wrote, calls |-> r.calls,
              callSigs |-> r.callSigs, messageSigs |-> r.messageSigs, deltas |-> r.deltas]
      /\ where = [b \in Convs |-> where[b]]
  BY <1>1, ReceivingFacts
<1>3. where' = [where EXCEPT ![c] = [v EXCEPT !.reply = e]]
  <2>1. where' = [where EXCEPT ![c].reply = e]
    BY Zenon DEF SignedMessage, WithSigned
  <2> HIDE DEF e
  <2>2. QED
    BY <1>2, <2>1
<1>4. e = q
  <2>1. PICK i : i = r.content \o Marked(d, n + 1)
    OBVIOUS
  <2>2. PICK j : j = r.wrote \o d
    OBVIOUS
  <2>3. PICK l : l = Append(r.messageSigs, n + 1)
    OBVIOUS
  <2>4. PICK k : k = r.deltas + 1
    OBVIOUS
  <2>5. WithSigned(r, i, j, l, k)
         = [content |-> i, wrote |-> j, calls |-> r.calls,
               callSigs |-> r.callSigs, messageSigs |-> l, deltas |-> k]
    <3> HIDE DEF r
    <3>1. QED
      BY <1>2, SignedFields
  <2>6. QED
    BY <2>1, <2>2, <2>3, <2>4, <2>5, Zenon
<1> HIDE DEF e
<1>5. [v EXCEPT !.reply = q] = z
  <2> HIDE DEF v, q
  <2>1. QED
    BY <1>2, ReplyField
<1>6. where' = [where EXCEPT ![c] = z]
  <2> HIDE DEF q, z, v
  <2>1. QED
    BY <1>3, <1>4, <1>5
<1>7. MessageKey(n + 1) \in {CallKey(i) : i \in CallIds} \cup {MessageKey(Len(origin) + 1)}
  OBVIOUS
<1>8. PICK o : o = origin'
  OBVIOUS
<1>9. /\ Extends(origin, o) /\ Len(o) = n + 1 /\ o[Len(o)].key = MessageKey(Len(o))
      /\ SourcesOK(origin, now)
  BY <1>1, <1>7, <1>8, PutFacts
<1>10. Signed(o, q) /\ q \in ReplyUpTo(Len(o))
  <2>1. q = [content |-> r.content \o Marked(d, Len(o)), wrote |-> r.wrote \o d,
             calls |-> r.calls, callSigs |-> r.callSigs,
             messageSigs |-> Append(r.messageSigs, Len(o)), deltas |-> r.deltas + 1]
    BY <1>9
  <2>2. d \in Seq(WrittenParts)
    BY SignatureAssumption
  <2> HIDE DEF q, r
  <2>3. QED
    BY <1>2, <1>9, <2>1, <2>2, SignatureAdded, ZenonT(40) DEF n
<1> HIDE DEF q
<1>11. Signed(origin', q) /\ q \in ReplyUpTo(Len(origin'))
  BY <1>8, <1>10
<1>12. QED
  BY <1>1, <1>6, <1>7, <1>11, PutStep

(* A text without a signature comes. *)
LEMMA MessageStep ==
  ASSUME Inv, NEW c \in Convs, NEW d \in Contents, Message(c, d)
  PROVE  Inv'
<1> DEFINE v == where[c]
           r == v.reply
           n == Len(origin)
           q == [content |-> r.content \o d, wrote |-> r.wrote \o d, calls |-> r.calls,
                 callSigs |-> r.callSigs, messageSigs |-> r.messageSigs,
                 deltas |-> r.deltas + 1]
           z == [at |-> "answering", prov |-> v.prov, sent |-> v.sent, reply |-> q]
           e == WithText(r, r.content \o d, r.wrote \o d, r.deltas + 1)
<1>1. Receiving(c) /\ UNCHANGED <<now, clears, caches, replies, origin>>
  BY DEF Message
<1>2. /\ Signed(origin, r) /\ r.deltas < MaxDeltas /\ v # Idle
      /\ v = [at |-> "answering", prov |-> v.prov, sent |-> v.sent, reply |-> r]
      /\ r = [content |-> r.content, wrote |-> r.wrote, calls |-> r.calls,
              callSigs |-> r.callSigs, messageSigs |-> r.messageSigs, deltas |-> r.deltas]
      /\ where = [b \in Convs |-> where[b]]
      /\ SourcesOK(origin, now) /\ now \in Nat
      /\ RepliesOK(origin, replies[c]) /\ WhereOK(origin, now, v, replies[c])
  BY <1>1, ReceivingFacts
<1>3. where' = [where EXCEPT ![c] = [v EXCEPT !.reply = e]]
  <2>1. where' = [where EXCEPT ![c].reply = e]
    BY Zenon DEF Message, WithText
  <2> HIDE DEF e
  <2>2. QED
    BY <1>2, <2>1
<1>4. e = q
  <2>1. PICK i : i = r.content \o d
    OBVIOUS
  <2>2. PICK j : j = r.wrote \o d
    OBVIOUS
  <2>3. PICK k : k = r.deltas + 1
    OBVIOUS
  <2>4. WithText(r, i, j, k)
         = [content |-> i, wrote |-> j, calls |-> r.calls,
               callSigs |-> r.callSigs, messageSigs |-> r.messageSigs, deltas |-> k]
    <3> HIDE DEF r
    <3>1. QED
      BY <1>2, TextFields
  <2>5. QED
    BY <2>1, <2>2, <2>3, <2>4, Zenon
<1> HIDE DEF e
<1>5. [v EXCEPT !.reply = q] = z
  <2> HIDE DEF v, q
  <2>1. QED
    BY <1>2, ReplyField
<1>6. where' = [where EXCEPT ![c] = z]
  <2> HIDE DEF q, z, v
  <2>1. QED
    BY <1>3, <1>4, <1>5
<1>7. d \in Seq(WrittenParts)
  BY SignatureAssumption
<1>8. Signed(origin, q) /\ q \in ReplyUpTo(n)
  <2>1. PICK p : p = q
    OBVIOUS
  <2> HIDE DEF r
  <2>2. Signed(origin, p) /\ p \in ReplyUpTo(Len(origin))
    BY <1>2, <1>7, <2>1, TextAdded
  <2>3. QED
    BY <2>1, <2>2
<1> HIDE DEF q, v
<1>9. n \in Nat /\ Extends(origin, origin)
  BY <1>2, LenProperties DEF SourcesOK, Extends
<1>10. WhereOK(origin, now, z, replies[c])
  BY <1>2, <1>8, <1>9, StillAnswering
<1> HIDE DEF z
<1>11. QED
  BY <1>1, <1>6, <1>10, WhereStep

----------------------------------------------------------------------------
(* The theorems *)

(* Every step keeps the invariant. *)
LEMMA InvNext == Inv /\ [Next]_vars => Inv'
<1> SUFFICES ASSUME Inv, [Next]_vars
             PROVE  Inv'
  OBVIOUS
<1>1. CASE UNCHANGED vars
  BY <1>1 DEF vars, Inv
<1>2. CASE Clear
  BY <1>2, ClearStep
<1>3. CASE Tick
  BY <1>3, TickStep
<1>4. ASSUME NEW c \in Convs, Request(c) PROVE Inv'
  BY <1>4, RequestStep
<1>5. ASSUME NEW c \in Convs, LookUp(c) PROVE Inv'
  BY <1>5, LookUpStep
<1>6. ASSUME NEW c \in Convs, Inject(c) PROVE Inv'
  BY <1>6, InjectStep
<1>7. ASSUME NEW c \in Convs, Send(c) PROVE Inv'
  BY <1>7, SendStep
<1>8. ASSUME NEW c \in Convs, NEW id \in CallIds, ToolCall(c, id) PROVE Inv'
  BY <1>8, ToolCallStep
<1>9. ASSUME NEW c \in Convs, NEW d \in Contents, SignedMessage(c, d) PROVE Inv'
  BY <1>9, SignedMessageStep
<1>10. ASSUME NEW c \in Convs, NEW d \in Contents, Message(c, d) PROVE Inv'
  BY <1>10, MessageStep
<1>11. ASSUME NEW c \in Convs, Finish(c) PROVE Inv'
  BY <1>11, FinishStep
<1>12. ASSUME NEW c \in Convs, Abandon(c) PROVE Inv'
  BY <1>12, AbandonStep
<1>13. QED
  BY <1>1, <1>2, <1>3, <1>4, <1>5, <1>6, <1>7, <1>8, <1>9, <1>10, <1>11, <1>12 DEF Next

(* The inductive invariant: the cache of a provider has for each key the   *)
(* last signature that provider got under it, every reply is marked by its *)
(* signatures, what was found so far for the reply in hand was right when  *)
(* it was looked up, and what was sent for a reply goes with it.           *)
THEOREM InvHolds == Spec => []Inv
<1>1. QED
  BY InvInit, InvNext, PTL DEF Spec

(* What the upstream has been sent goes with the replies of the client.    *)
LEMMA EchoFacts ==
  ASSUME Inv, NEW c \in Convs, NEW e \in Echoes(c)
  PROVE  Echoed(origin, e.prov, e.sent, e.reply) /\ Signed(origin, e.reply)
<1>1. /\ where[c].at # "idle"
      /\ \E i \in DOMAIN where[c].sent :
           e = [sent |-> where[c].sent[i], reply |-> replies[c][i], prov |-> where[c].prov]
  BY DEF Echoes
<1>2. PICK i \in DOMAIN where[c].sent :
        e.sent = where[c].sent[i] /\ e.reply = replies[c][i] /\ e.prov = where[c].prov
  BY <1>1
<1>3. /\ where[c].sent \in Seq(SentUpTo(Len(origin))) /\ Len(where[c].sent) \in Nat
      /\ Len(replies[c]) \in Nat /\ Len(where[c].sent) <= Len(replies[c])
      /\ \A j \in 1 .. Len(where[c].sent) :
           Echoed(origin, where[c].prov, where[c].sent[j], replies[c][j])
  BY <1>1, OpenFacts
<1>4. i \in 1 .. Len(where[c].sent)
  BY <1>3, LenProperties
<1>5. i \in 1 .. Len(replies[c])
  BY <1>3, <1>4
<1>6. Signed(origin, replies[c][i])
  BY <1>5 DEF Inv, RepliesOK
<1>7. QED
  BY <1>2, <1>3, <1>4, <1>6

(* The sets of TypeOK. *)
LEMMA SameSets ==
  /\ Parts = PartsUpTo(Len(origin))
  /\ Reply = ReplyUpTo(Len(origin))
  /\ Sent = SentUpTo(Len(origin))
<1>1. Parts = PartsUpTo(Len(origin))
  BY DEF Parts, PartsUpTo, MessageKeys, Signatures
<1>2. Reply = ReplyUpTo(Len(origin))
  BY <1>1 DEF Reply, ReplyUpTo, Signatures
<1>3. Sent = SentUpTo(Len(origin))
  BY <1>1 DEF Sent, SentUpTo, Signatures
<1>4. QED
  BY <1>1, <1>2, <1>3

(* Type correctness: the caches hold signatures that were issued, under    *)
(* keys that were issued, and replies refer to no others.                  *)
THEOREM TypeCorrect == Spec => []TypeOK
<1> DEFINE n == Len(origin)
<1>1. ASSUME Inv
      PROVE  TypeOK
  <2>1. SourcesOK(origin, now) /\ now \in 0 .. MaxNow /\ clears \in 0 .. MaxClears
    BY <1>1 DEF Inv
  <2>2. ASSUME NEW g \in Providers, NEW k \in DOMAIN caches[g]
        PROVE  /\ k \in MessageKeys \cup {CallKey(id) : id \in CallIds}
               /\ caches[g][k].value \in Signatures
    <3> DEFINE m == caches[g][k].stamp
    <3>1. CacheOK(origin, g, caches[g])
      BY <1>1 DEF Inv
    <3>2. m \in 1 .. n /\ caches[g][k].value = m /\ origin[m].key = k
      BY <2>2, <3>1 DEF CacheOK
    <3> HIDE DEF m
    <3>3. k \in {CallKey(id) : id \in CallIds} \cup {MessageKey(m)}
      BY <2>1, <3>2 DEF SourcesOK
    <3>4. QED
      BY <3>2, <3>3 DEF MessageKeys, Signatures
  <2>3. replies \in [Convs -> Seq(Reply)]
    <3>1. /\ replies = [c \in Convs |-> replies[c]]
          /\ \A c \in Convs : RepliesOK(origin, replies[c])
      BY <1>1 DEF Inv
    <3>2. \A c \in Convs : replies[c] \in Seq(ReplyUpTo(n))
      BY <3>1 DEF RepliesOK
    <3>3. replies \in [Convs -> Seq(ReplyUpTo(n))]
      BY <3>1, <3>2
    <3>4. QED
      BY <3>3, SameSets
  <2>4. ASSUME NEW c \in Convs
        PROVE  \/ where[c] = Idle
               \/ where[c] \in [at : {"injecting"}, prov : Providers, sent : Seq(Sent),
                                found : Seq(Signatures \cup {None})]
               \/ where[c] \in [at : {"answering"}, prov : Providers, sent : Seq(Sent),
                                reply : Reply]
    <3>1. WhereOK(origin, now, where[c], replies[c])
      BY <1>1 DEF Inv
    <3>2. \/ where[c] = Idle
          \/ InjectingOK(origin, now, where[c], replies[c])
          \/ AnsweringOK(origin, where[c])
      BY <3>1 DEF WhereOK
    <3>3. InjectingOK(origin, now, where[c], replies[c]) =>
            where[c] \in [at : {"injecting"}, prov : Providers, sent : Seq(Sent),
                          found : Seq(Signatures \cup {None})]
      BY SameSets DEF InjectingOK, Signatures
    <3>4. AnsweringOK(origin, where[c]) =>
            where[c] \in [at : {"answering"}, prov : Providers, sent : Seq(Sent),
                          reply : Reply]
      BY SameSets DEF AnsweringOK
    <3>5. QED
      BY <3>2, <3>3, <3>4
  <2>5. ASSUME NEW m \in Signatures
        PROVE  origin[m].prov \in Providers /\ origin[m].at \in 0 .. now
    <3>1. m \in 1 .. n
      BY DEF Signatures
    <3>2. origin[m].prov \in Providers /\ origin[m].at \in Nat
      BY <2>1, <3>1, SourceFacts
    <3>3. origin[m].at <= now
      BY <2>1, <3>1 DEF SourcesOK
    <3>4. MaxNow \in Nat
      BY SignatureAssumption
    <3>5. QED
      BY <2>1, <3>2, <3>3, <3>4
  <2>6. QED
    BY <2>1, <2>2, <2>3, <2>4, <2>5 DEF TypeOK
<1>2. QED
  BY <1>1, InvHolds, PTL

(* A message that goes upstream again carries one of its own signatures or *)
(* none, a tool call one that the provider got under its id, none older    *)
(* than its own: whatever the other conversations do with the caches       *)
(* between two lookups, and to whichever backend the request goes.         *)
THEOREM SignaturesStayApart == Spec => []OwnSignatureOrNone
<1>1. ASSUME Inv
      PROVE  OwnSignatureOrNone
  <2> SUFFICES ASSUME NEW c \in Convs, NEW e \in Echoes(c)
               PROVE  /\ e.sent.message # None =>
                           \E i \in DOMAIN e.reply.messageSigs :
                             e.sent.message = e.reply.messageSigs[i]
                      /\ \A j \in DOMAIN e.reply.calls : e.sent.calls[j] # None =>
                           /\ origin[e.sent.calls[j]].key = CallKey(e.reply.calls[j])
                           /\ origin[e.sent.calls[j]].prov = e.prov
                           /\ origin[e.reply.callSigs[j]].prov = e.prov =>
                                e.sent.calls[j] >= e.reply.callSigs[j]
    BY DEF OwnSignatureOrNone
  <2>1. /\ Echoed(origin, e.prov, e.sent, e.reply)
        /\ Signed(origin, e.reply)
    BY <1>1, EchoFacts
  <2>2. /\ DOMAIN e.reply.calls = 1 .. Len(e.reply.calls)
        /\ DOMAIN e.reply.messageSigs = 1 .. Len(e.reply.messageSigs)
        /\ \A j \in 1 .. Len(e.reply.calls) : e.reply.callSigs[j] \in 1 .. Len(origin)
    BY <2>1, SignedFacts
  <2>3. e.sent.message # None =>
          \E i \in DOMAIN e.reply.messageSigs : e.sent.message = e.reply.messageSigs[i]
    BY <2>1, <2>2 DEF Echoed, LastOwn
  <2>4. ASSUME NEW j \in DOMAIN e.reply.calls, e.sent.calls[j] # None
        PROVE  /\ origin[e.sent.calls[j]].key = CallKey(e.reply.calls[j])
               /\ origin[e.sent.calls[j]].prov = e.prov
               /\ origin[e.reply.callSigs[j]].prov = e.prov =>
                    e.sent.calls[j] >= e.reply.callSigs[j]
    <3> DEFINE v == e.sent.calls[j]
               m == e.reply.callSigs[j]
    <3>1. Looked(origin, e.prov, Own(e.reply), CallKey(e.reply.calls[j]), v,
                 e.sent.at, e.sent.issued)
      BY <2>1, <2>2 DEF Echoed
    <3>2. m \in Own(e.reply) /\ m \in 1 .. Len(origin)
      BY <2>2 DEF Own
    <3>3. origin[m].key = CallKey(e.reply.calls[j])
      BY <2>1, <2>2 DEF Signed
    <3> HIDE DEF v, m
    <3>4. v # None
      BY <2>4 DEF v
    <3>5. /\ v \in 1 .. Len(origin) /\ origin[v].key = CallKey(e.reply.calls[j])
          /\ origin[v].prov = e.prov
          /\ origin[m].prov = e.prov => m <= v
      BY <3>1, <3>2, <3>3, <3>4 DEF Looked
    <3>6. m \in Int /\ v \in Int
      BY <3>2, <3>5
    <3>7. origin[m].prov = e.prov => v >= m
      BY <3>5, <3>6
    <3>8. QED
      BY <3>5, <3>7 DEF v, m
  <2>5. QED
    BY <2>3, <2>4
<1>2. QED
  BY <1>1, InvHolds, PTL

(* A signature that is missing was issued by another backend's provider or *)
(* one from before a clear, or its time was over, or MaxEntries others     *)
(* were put after it, or its mark closes a block of thoughts: for no other *)
(* reason, whatever comes between the lookups of a message.                *)
THEOREM MissingForAReason == Spec => []LostForAReason
<1>1. ASSUME Inv
      PROVE  LostForAReason
  <2> SUFFICES ASSUME NEW c \in Convs, NEW e \in Echoes(c)
               PROVE  /\ \A i \in DOMAIN e.reply.messageSigs :
                           e.sent.message = None \/ e.sent.message < e.reply.messageSigs[i] =>
                             Missing(e.reply.messageSigs[i], e)
                      /\ \A j \in DOMAIN e.reply.calls :
                           e.sent.calls[j] = None => Missing(e.reply.callSigs[j], e)
    BY DEF LostForAReason
  <2>1. /\ Echoed(origin, e.prov, e.sent, e.reply)
        /\ Signed(origin, e.reply)
    BY <1>1, EchoFacts
  <2>2. /\ DOMAIN e.reply.calls = 1 .. Len(e.reply.calls)
        /\ DOMAIN e.reply.messageSigs = 1 .. Len(e.reply.messageSigs)
    BY <2>1, SignedFacts
  <2>3. /\ \A n : Gone(origin, n, e.prov, e.sent.at, e.sent.issued) => Missing(n, e)
        /\ \A n : HiddenMark(e.reply.content, n) => Missing(n, e)
    BY Zenon DEF Gone, Since, HiddenMark, Missing
  <2>4. ASSUME NEW i \in DOMAIN e.reply.messageSigs,
               e.sent.message = None \/ e.sent.message < e.reply.messageSigs[i]
        PROVE  Missing(e.reply.messageSigs[i], e)
    <3>1. \/ Gone(origin, e.reply.messageSigs[i], e.prov, e.sent.at, e.sent.issued)
          \/ HiddenMark(e.reply.content, e.reply.messageSigs[i])
      BY <2>1, <2>2, <2>4 DEF Echoed, LastOwn
    <3>2. QED
      BY <2>3, <3>1
  <2>5. ASSUME NEW j \in DOMAIN e.reply.calls, e.sent.calls[j] = None
        PROVE  Missing(e.reply.callSigs[j], e)
    <3> DEFINE m == e.reply.callSigs[j]
    <3>1. Looked(origin, e.prov, Own(e.reply), CallKey(e.reply.calls[j]), e.sent.calls[j],
                 e.sent.at, e.sent.issued)
      BY <2>1, <2>2 DEF Echoed
    <3>2. m \in Own(e.reply) /\ origin[m].key = CallKey(e.reply.calls[j])
      BY <2>1, <2>2 DEF Own, Signed
    <3> HIDE DEF m
    <3>3. Gone(origin, m, e.prov, e.sent.at, e.sent.issued)
      BY <2>5, <3>1, <3>2 DEF Looked
    <3>4. QED
      BY <2>3, <3>3 DEF m
  <2>6. QED
    BY <2>4, <2>5
<1>2. QED
  BY <1>1, InvHolds, PTL

(* The text that goes upstream again has no mark, and is what the upstream *)
(* wrote without its blocks of thoughts, unless a mark closes one of them  *)
(* or there is a SIGID: in it.                                             *)
THEOREM TextIsKept == Spec => []TextComesBack
<1>1. ASSUME Inv
      PROVE  TextComesBack
  <2>1. ASSUME NEW c \in Convs, NEW e \in Echoes(c)
        PROVE  ComesBack(e.sent.content, e.reply.content, e.reply.wrote)
    <3>1. Echoed(origin, e.prov, e.sent, e.reply)
      BY <1>1, EchoFacts
    <3>2. QED
      BY <3>1 DEF Echoed
  <2>2. QED
    BY <2>1, Zenon DEF TextComesBack, ComesBack
<1>2. QED
  BY <1>1, InvHolds, PTL
=============================================================================
