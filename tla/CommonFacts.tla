---------------------------- MODULE CommonFacts ----------------------------
(***************************************************************************)
(* Facts that the proofs of several modules use: about natural numbers,    *)
(* and about what is left of a sequence.                                   *)
(***************************************************************************)
EXTENDS Integers, Sift, FiniteSetTheorems, SequenceTheorems, WellFoundedInduction,
        TLAPS

----------------------------------------------------------------------------
(* Natural numbers *)

(* A nonempty set of naturals has a least element. *)
LEMMA LeastOf ==
  ASSUME NEW I \in SUBSET Nat, I # {}
  PROVE  \E i \in I : \A j \in I : i <= j
<1> DEFINE R == OpToRel(<, Nat)
<1>1. IsWellFoundedOn(R, Nat)
  BY NatLessThanWellFounded
<1> HIDE DEF R
<1>2. PICK i \in I : \A j \in I : <<j, i>> \notin R
  BY <1>1, WFMin
<1>3. \A j \in I : ~ (j < i)
  BY <1>2 DEF R, OpToRel
<1>4. QED
  BY <1>3

(* A product is at most another one if its factors are. *)
LEMMA Multiples ==
  ASSUME NEW a \in Nat, NEW p \in Int, NEW q \in Int, p < q
  PROVE  a * p + a <= a * q
<1>1. a * q = a * p + a * (q - p)
  OBVIOUS
<1>2. a * (q - p) = a * (q - p - 1) + a
  OBVIOUS
<1>3. a * (q - p - 1) >= 0
  <2>1. q - p - 1 \in Nat
    OBVIOUS
  <2>2. QED
    BY <2>1
<1>4. QED
  BY <1>1, <1>2, <1>3

(* The remainder is what is left of a multiple. *)
LEMMA Remainder ==
  ASSUME NEW a \in Nat \ {0}, NEW q \in Int, NEW r \in 0 .. a - 1
  PROVE  (a * q + r) % a = r
<1> DEFINE m == a * q + r
           p == m \div a
           s == m % a
<1>1. m \in Int /\ p \in Int /\ s \in 0 .. a - 1 /\ m = a * p + s
  OBVIOUS
<1>2. ~ (p < q)
  <2>1. ASSUME p < q PROVE a * p + a <= a * q
    BY <1>1, <2>1, Multiples
  <2>2. a * p \in Int /\ a * q \in Int
    BY <1>1
  <2>3. QED
    BY <1>1, <2>1, <2>2
<1>3. ~ (q < p)
  <2>1. ASSUME q < p PROVE a * q + a <= a * p
    BY <1>1, <2>1, Multiples
  <2>2. a * p \in Int /\ a * q \in Int
    BY <1>1
  <2>3. QED
    BY <1>1, <2>1, <2>2
<1>4. p = q
  BY <1>1, <1>2, <1>3
<1>5. QED
  BY <1>1, <1>4

(* Counting on by one, in turns of a. *)
LEMMA ModStep ==
  ASSUME NEW n \in Nat, NEW a \in Nat \ {0}
  PROVE  /\ n % a \in 0 .. a - 1
         /\ (n + 1) % a = IF (n % a) + 1 = a THEN 0 ELSE (n % a) + 1
<1> DEFINE q == n \div a
           r == n % a
<1>1. q \in Int /\ r \in 0 .. a - 1 /\ n = a * q + r
  OBVIOUS
<1> HIDE DEF q, r
<1>2. CASE r + 1 = a
  <2>1. n + 1 = a * (q + 1) + 0
    BY <1>1, <1>2
  <2>2. (n + 1) % a = 0
    BY <1>1, <2>1, Remainder
  <2>3. QED
    BY <1>1, <1>2, <2>2 DEF r
<1>3. CASE r + 1 # a
  <2>1. n + 1 = a * q + (r + 1) /\ r + 1 \in 0 .. a - 1
    BY <1>1, <1>3
  <2>2. (n + 1) % a = r + 1
    BY <1>1, <2>1, Remainder
  <2>3. QED
    BY <1>1, <1>3, <2>2 DEF r
<1>4. QED
  BY <1>2, <1>3

----------------------------------------------------------------------------
(* Places of a sequence *)

(* A set that is counted by 1 .. n has n elements. *)
LEMMA Counted ==
  ASSUME NEW n \in Nat, NEW f, NEW S,
         \A a \in 1 .. n : f[a] \in S,
         \A s \in S : \E a \in 1 .. n : f[a] = s,
         \A a, b \in 1 .. n : f[a] = f[b] => a = b
  PROVE  IsFiniteSet(S) /\ Cardinality(S) = n
<1> DEFINE g == [i \in 1 .. n |-> f[i]]
<1>1. g \in Bijection(1 .. n, S)
  BY DEF Bijection, Injection, Surjection, IsInjective
<1>2. ExistsBijection(1 .. n, S)
  BY <1>1 DEF ExistsBijection
<1>3. Cardinality(S) = n
  BY <1>2, FS_CountingElements
<1>4. IsFiniteSet(1 .. n)
  BY FS_Interval
<1>5. QED
  <2>1. g \in Surjection(1 .. n, S)
    BY <1>1 DEF Bijection
  <2> HIDE DEF g
  <2>2. IsFiniteSet(S)
    BY <1>4, <2>1, FS_Surjection
  <2>3. QED
    BY <1>3, <2>2

(* f counts the places of I upwards: f[1] is the first, f[n] the last. *)
CountsUp(f, n, I) ==
  /\ n \in Nat
  /\ \A a \in 1 .. n : f[a] \in I
  /\ \A i \in I : \E a \in 1 .. n : f[a] = i
  /\ \A a, b \in 1 .. n : a < b => f[a] < f[b]

(* A set of places counted upwards by f has f[n] as its n-th. *)
LEMMA CountedUpwards ==
  ASSUME NEW n, NEW f, NEW I \in SUBSET Nat, CountsUp(f, n, I)
  PROVE  /\ IsFiniteSet(I) /\ Cardinality(I) = n
         /\ \A a \in 1 .. n : Nth(I, a) = f[a]
<1> USE DEF CountsUp
<1>1. \A a, b \in 1 .. n : f[a] <= f[b] <=> a <= b
  <2> SUFFICES ASSUME NEW a \in 1 .. n, NEW b \in 1 .. n
               PROVE  f[a] <= f[b] <=> a <= b
    OBVIOUS
  <2>1. f[a] \in Nat /\ f[b] \in Nat
    OBVIOUS
  <2>2. CASE a < b
    BY <2>1, <2>2
  <2>3. CASE a = b
    BY <2>1, <2>3
  <2>4. CASE b < a
    BY <2>1, <2>4
  <2>5. QED
    BY <2>2, <2>3, <2>4
<1>2. \A a, b \in 1 .. n : f[a] = f[b] => a = b
  <2> SUFFICES ASSUME NEW a \in 1 .. n, NEW b \in 1 .. n, f[a] = f[b]
               PROVE  a = b
    OBVIOUS
  <2> DEFINE x == f[a]
             y == f[b]
  <2>1. x \in Nat /\ x = y
    OBVIOUS
  <2>2. f[a] <= f[b] /\ f[b] <= f[a]
    <3> HIDE DEF x, y
    <3>1. x <= y /\ y <= x
      BY <2>1
    <3>2. QED
      BY <3>1 DEF x, y
  <2>3. a <= b /\ b <= a
    BY <1>1, <2>2
  <2>4. QED
    BY <2>3
<1>3. IsFiniteSet(I) /\ Cardinality(I) = n
  BY <1>2, Counted
<1>4. ASSUME NEW a \in 1 .. n PROVE Cardinality({j \in I : j <= f[a]}) = a
  <2> DEFINE T == {j \in I : j <= f[a]}
  <2>1. a \in Nat /\ 1 .. a \subseteq 1 .. n
    OBVIOUS
  <2>2. \A b \in 1 .. a : f[b] \in T
    BY <1>1, <2>1
  <2>3. \A j \in T : \E b \in 1 .. a : f[b] = j
    <3> SUFFICES ASSUME NEW j \in I, j <= f[a] PROVE \E b \in 1 .. a : f[b] = j
      OBVIOUS
    <3>1. PICK b \in 1 .. n : f[b] = j
      OBVIOUS
    <3>2. b <= a
      BY <1>1, <3>1
    <3>3. QED
      BY <3>1, <3>2
  <2>4. \A b, c \in 1 .. a : f[b] = f[c] => b = c
    BY <1>2, <2>1
  <2> HIDE DEF T
  <2>5. Cardinality(T) = a
    BY <2>1, <2>2, <2>3, <2>4, Counted
  <2>6. QED
    BY <2>5 DEF T
<1>5. ASSUME NEW a \in 1 .. n PROVE Nth(I, a) = f[a]
  <2>1. f[a] \in I /\ Cardinality({j \in I : j <= f[a]}) = a
    BY <1>4
  <2>2. ASSUME NEW i \in I, Cardinality({j \in I : j <= i}) = a PROVE i = f[a]
    <3>1. PICK b \in 1 .. n : f[b] = i
      OBVIOUS
    <3>2. b = a
      BY <1>4, <2>2, <3>1
    <3>3. QED
      BY <3>1, <3>2
  <2>3. QED
    BY <2>1, <2>2 DEF Nth
<1>6. QED
  BY <1>3, <1>5

(* Any finite set of numbers can be counted upwards: by Nth. *)
LEMMA NthOfFinite ==
  ASSUME NEW I \in SUBSET Nat, IsFiniteSet(I)
  PROVE  /\ Cardinality(I) \in Nat
         /\ \A a \in 1 .. Cardinality(I) : Nth(I, a) \in I
         /\ \A i \in I : \E a \in 1 .. Cardinality(I) : Nth(I, a) = i
         /\ \A a, b \in 1 .. Cardinality(I) : a < b => Nth(I, a) < Nth(I, b)
<1> DEFINE n == Cardinality(I)
           Upto(i) == {j \in I : j <= i}
           R(i) == Cardinality(Upto(i))
<1>1. IsFiniteSet(I)
  OBVIOUS
<1>3. n \in Nat
  BY <1>1, FS_CardinalityType
<1>4. \A i \in I : IsFiniteSet(Upto(i)) /\ R(i) \in Nat /\ R(i) <= n
  <2> SUFFICES ASSUME NEW i \in I PROVE IsFiniteSet(Upto(i)) /\ R(i) \in Nat /\ R(i) <= n
    OBVIOUS
  <2>1. Upto(i) \in SUBSET I
    OBVIOUS
  <2> HIDE DEF Upto
  <2>2. IsFiniteSet(Upto(i)) /\ Cardinality(Upto(i)) <= Cardinality(I)
    BY <1>1, <2>1, FS_Subset
  <2>3. QED
    BY <2>2, FS_CardinalityType
<1>5. \A i, j \in I : i < j => R(i) < R(j)
  <2> SUFFICES ASSUME NEW i \in I, NEW j \in I, i < j PROVE R(i) < R(j)
    OBVIOUS
  <2>1. Upto(i) \in SUBSET Upto(j) /\ j \in Upto(j) /\ j \notin Upto(i)
    <3>1. i \in Nat /\ j \in Nat /\ I \subseteq Nat
      OBVIOUS
    <3>2. \A p \in I : p <= i => p <= j
      BY <3>1
    <3>3. j \in Upto(j) /\ j \notin Upto(i)
      BY <3>1
    <3>4. QED
      BY <3>2, <3>3
  <2>2. IsFiniteSet(Upto(j)) /\ R(i) \in Nat /\ R(j) \in Nat
    BY <1>4
  <2> HIDE DEF Upto
  <2>3. /\ Cardinality(Upto(i)) <= Cardinality(Upto(j))
        /\ Cardinality(Upto(j)) = Cardinality(Upto(i)) => Upto(j) = Upto(i)
    BY <2>1, <2>2, FS_Subset
  <2>4. Cardinality(Upto(j)) # Cardinality(Upto(i))
    BY <2>1, <2>3
  <2>5. QED
    BY <2>2, <2>3, <2>4
<1>6. \A i \in I : R(i) \in 1 .. n
  <2> SUFFICES ASSUME NEW i \in I PROVE R(i) \in 1 .. n
    OBVIOUS
  <2>1. i \in Upto(i)
    OBVIOUS
  <2>2. IsFiniteSet(Upto(i)) /\ R(i) \in Nat /\ R(i) <= n
    BY <1>4
  <2> HIDE DEF Upto
  <2>3. Cardinality(Upto(i)) # 0
    BY <2>1, <2>2, FS_EmptySet
  <2>4. QED
    BY <1>3, <2>2, <2>3
<1> DEFINE f == [i \in I |-> R(i)]
<1> HIDE DEF R
<1>7. \A i, j \in I : R(i) = R(j) => i = j
  <2> SUFFICES ASSUME NEW i \in I, NEW j \in I, R(i) = R(j) PROVE i = j
    OBVIOUS
  <2>1. i \in Nat /\ j \in Nat /\ R(i) \in Nat /\ R(j) \in Nat
    BY <1>6
  <2>2. ~ (R(i) < R(j)) /\ ~ (R(j) < R(i))
    BY <2>1
  <2>3. ~ (i < j) /\ ~ (j < i)
    BY <1>5, <2>2
  <2>4. QED
    BY <2>1, <2>3
<1>8. f \in Injection(I, 1 .. n)
  BY <1>6, <1>7 DEF Injection, IsInjective
<1>9. IsFiniteSet(1 .. n) /\ Cardinality(1 .. n) = n
  BY <1>3, FS_Interval
<1>10. f \in Surjection(I, 1 .. n)
  <2> HIDE DEF f
  <2>1. Cardinality(I) = Cardinality(1 .. n)
    BY <1>9
  <2>2. QED
    BY <1>8, <1>9, <2>1, FS_Injection
<1>11. \A a \in 1 .. n : \E i \in I : R(i) = a
  BY <1>10 DEF Surjection
<1> HIDE DEF n, f
<1>12. \A a \in 1 .. n : Nth(I, a) \in I /\ R(Nth(I, a)) = a
  <2> SUFFICES ASSUME NEW a \in 1 .. n PROVE Nth(I, a) \in I /\ R(Nth(I, a)) = a
    OBVIOUS
  <2>1. \E i \in I : Cardinality({j \in I : j <= i}) = a
    BY <1>11 DEF R
  <2>2. QED
    BY <2>1 DEF Nth, R
<1>13. \A i \in I : \E a \in 1 .. n : Nth(I, a) = i
  BY <1>6, <1>7, <1>12
<1>14. ASSUME NEW a \in 1 .. n, NEW b \in 1 .. n, a < b
       PROVE  Nth(I, a) < Nth(I, b)
  <2> DEFINE i == Nth(I, a)
             j == Nth(I, b)
  <2>1. i \in I /\ j \in I /\ R(i) = a /\ R(j) = b
    BY <1>12
  <2> HIDE DEF i, j
  <2>2. i \in Nat /\ j \in Nat /\ i # j
    BY <1>14, <2>1
  <2>3. ~ (j < i)
    <3>1. SUFFICES ASSUME j < i PROVE FALSE
      OBVIOUS
    <3>2. R(j) < R(i)
      BY <1>5, <2>1, <3>1
    <3>3. QED
      BY <1>14, <2>1, <3>2
  <2>4. QED
    BY <2>2, <2>3 DEF i, j
<1>15. QED
  BY <1>3, <1>12, <1>13, <1>14 DEF n

(* Any set of places of a sequence, in particular. *)
LEMMA NthCounts ==
  ASSUME NEW m \in Nat, NEW I \in SUBSET (1 .. m)
  PROVE  /\ IsFiniteSet(I) /\ Cardinality(I) \in 0 .. m
         /\ \A a \in 1 .. Cardinality(I) : Nth(I, a) \in I
         /\ \A i \in I : \E a \in 1 .. Cardinality(I) : Nth(I, a) = i
         /\ \A a, b \in 1 .. Cardinality(I) : a < b => Nth(I, a) < Nth(I, b)
<1>1. IsFiniteSet(1 .. m) /\ Cardinality(1 .. m) = m
  BY FS_Interval
<1>2. IsFiniteSet(I) /\ Cardinality(I) <= m
  BY <1>1, FS_Subset
<1>3. I \in SUBSET Nat
  OBVIOUS
<1>4. /\ Cardinality(I) \in Nat
      /\ \A a \in 1 .. Cardinality(I) : Nth(I, a) \in I
      /\ \A i \in I : \E a \in 1 .. Cardinality(I) : Nth(I, a) = i
      /\ \A a, b \in 1 .. Cardinality(I) : a < b => Nth(I, a) < Nth(I, b)
  BY <1>2, <1>3, NthOfFinite
<1>5. QED
  BY <1>2, <1>4

(* What is left of a sequence is a sequence of its elements. *)
LEMMA SiftFacts ==
  ASSUME NEW S, NEW s \in Seq(S), NEW I \in SUBSET (1 .. Len(s))
  PROVE  /\ Sift(s, I) \in Seq(S) /\ Len(Sift(s, I)) = Cardinality(I)
         /\ Cardinality(I) \in 0 .. Len(s)
         /\ \A a \in 1 .. Cardinality(I) :
              Nth(I, a) \in I /\ Sift(s, I)[a] = s[Nth(I, a)]
         /\ \A i \in I : \E a \in 1 .. Cardinality(I) : i = Nth(I, a)
<1> DEFINE n == Cardinality(I)
<1>1. Len(s) \in Nat /\ \A i \in 1 .. Len(s) : s[i] \in S
  BY LenProperties, ElementOfSeq
<1>2. /\ n \in 0 .. Len(s)
      /\ \A a \in 1 .. n : Nth(I, a) \in I
      /\ \A i \in I : \E a \in 1 .. n : Nth(I, a) = i
  BY <1>1, NthCounts
<1> HIDE DEF n
<1>3. Sift(s, I) = [a \in 1 .. n |-> s[Nth(I, a)]]
  BY DEF Sift, n
<1>4. \A a \in 1 .. n : s[Nth(I, a)] \in S
  BY <1>1, <1>2
<1>5. Sift(s, I) \in Seq(S) /\ Len(Sift(s, I)) = n
  BY <1>2, <1>3, <1>4, IsASeq, LenProperties
<1>6. QED
  BY <1>2, <1>3, <1>5 DEF n

(* What is left of a sequence is given by any way to count the places that *)
(* stay upwards.                                                           *)
LEMMA SiftCounted ==
  ASSUME NEW S, NEW s \in Seq(S), NEW I \in SUBSET (1 .. Len(s)),
         NEW n, NEW f, CountsUp(f, n, I)
  PROVE  /\ Sift(s, I) \in Seq(S) /\ Len(Sift(s, I)) = n
         /\ Sift(s, I) = [a \in 1 .. n |-> s[f[a]]]
<1>1. I \in SUBSET Nat
  BY LenProperties
<1>2. /\ IsFiniteSet(I) /\ Cardinality(I) = n
      /\ \A a \in 1 .. n : Nth(I, a) = f[a]
  BY <1>1, CountedUpwards
<1>3. Sift(s, I) \in Seq(S) /\ Len(Sift(s, I)) = Cardinality(I)
  BY SiftFacts
<1>4. Sift(s, I) = [a \in 1 .. n |-> s[f[a]]]
  BY <1>2 DEF Sift
<1>5. QED
  BY <1>2, <1>3, <1>4

(* Keeping the places I, and then of what is left those that come from     *)
(* the places T of I, is keeping the places T.                             *)
LEMMA SiftTwice ==
  ASSUME NEW S, NEW s \in Seq(S), NEW I \in SUBSET (1 .. Len(s)), NEW T \in SUBSET I,
         NEW J, J = {a \in 1 .. Cardinality(I) : Nth(I, a) \in T}
  PROVE  Sift(Sift(s, I), J) = Sift(s, T)
<1> DEFINE n == Cardinality(I)
           k == Cardinality(J)
           f == [b \in 1 .. k |-> Nth(I, Nth(J, b))]
<1>1. Len(s) \in Nat
  BY LenProperties
<1>2. /\ n \in Nat
      /\ \A a \in 1 .. n : Nth(I, a) \in I
      /\ \A i \in I : \E a \in 1 .. n : Nth(I, a) = i
      /\ \A a, b \in 1 .. n : a < b => Nth(I, a) < Nth(I, b)
  BY <1>1, NthCounts
<1> HIDE DEF n
<1>3. J = {a \in 1 .. n : Nth(I, a) \in T} /\ J \in SUBSET (1 .. n)
  BY DEF n
<1>4. /\ k \in Nat
      /\ \A b \in 1 .. k : Nth(J, b) \in J
      /\ \A j \in J : \E b \in 1 .. k : Nth(J, b) = j
      /\ \A a, b \in 1 .. k : a < b => Nth(J, a) < Nth(J, b)
  <2> HIDE DEF f
  <2>1. /\ Cardinality(J) \in 0 .. n
        /\ \A b \in 1 .. Cardinality(J) : Nth(J, b) \in J
        /\ \A j \in J : \E b \in 1 .. Cardinality(J) : Nth(J, b) = j
        /\ \A a, b \in 1 .. Cardinality(J) : a < b => Nth(J, a) < Nth(J, b)
    <3>1. n \in Nat /\ J \in SUBSET (1 .. n)
      BY <1>2, <1>3
    <3>2. QED
      BY <3>1, NthCounts
  <2>2. k \in Nat
    BY <1>2, <2>1
  <2>3. QED
    BY <2>1, <2>2, Zenon
<1> HIDE DEF k
<1>5. \A b \in 1 .. k : f[b] \in T
  BY <1>3, <1>4
<1>6. \A i \in T : \E b \in 1 .. k : f[b] = i
  <2> SUFFICES ASSUME NEW i \in T PROVE \E b \in 1 .. k : f[b] = i
    OBVIOUS
  <2>1. PICK a \in 1 .. n : Nth(I, a) = i
    BY <1>2
  <2>2. PICK b \in 1 .. k : Nth(J, b) = a
    BY <1>3, <1>4, <2>1
  <2>3. QED
    BY <2>1, <2>2
<1>7. \A a, b \in 1 .. k : a < b => f[a] < f[b]
  <2> SUFFICES ASSUME NEW a \in 1 .. k, NEW b \in 1 .. k, a < b PROVE f[a] < f[b]
    OBVIOUS
  <2>1. Nth(J, a) \in 1 .. n /\ Nth(J, b) \in 1 .. n /\ Nth(J, a) < Nth(J, b)
    BY <1>3, <1>4
  <2>2. Nth(I, Nth(J, a)) < Nth(I, Nth(J, b))
    BY <1>2, <2>1
  <2>3. QED
    BY <2>2
<1>8. CountsUp(f, k, T)
  <2> HIDE DEF f
  <2>1. QED
    BY <1>4, <1>5, <1>6, <1>7 DEF CountsUp
<1>9. Sift(s, T) = [b \in 1 .. k |-> s[f[b]]]
  <2> HIDE DEF f
  <2>1. T \in SUBSET (1 .. Len(s))
    OBVIOUS
  <2>2. QED
    BY <1>8, <2>1, SiftCounted
<1>10. Sift(s, I) = [a \in 1 .. n |-> s[Nth(I, a)]]
  BY DEF Sift, n
<1>11. Sift(Sift(s, I), J) = [b \in 1 .. k |-> Sift(s, I)[Nth(J, b)]]
  BY DEF Sift, k
<1>12. \A b \in 1 .. k : Sift(s, I)[Nth(J, b)] = s[f[b]]
  BY <1>3, <1>4, <1>10
<1>13. QED
  BY <1>9, <1>11, <1>12
(* What two sequences joined hold. *)
Joins(S, s, u, c) ==
  /\ Len(s) \in Nat /\ Len(u) \in Nat /\ c \in Seq(S)
  /\ Len(c) = Len(s) + Len(u) /\ DOMAIN c = 1 .. Len(s) + Len(u)
  /\ \A i \in 1 .. Len(s) : c[i] = s[i]
  /\ \A i \in Len(s) + 1 .. Len(s) + Len(u) : c[i] = u[i - Len(s)]
  /\ \A i \in 1 .. Len(u) : c[Len(s) + i] = u[i]

(* They are such a sequence. *)
LEMMA Joined ==
  ASSUME NEW S, NEW s \in Seq(S), NEW u \in Seq(S)
  PROVE  Joins(S, s, u, s \o u)
<1> DEFINE m == Len(s)
           k == Len(u)
<1>1. m \in Nat /\ k \in Nat
  BY LenProperties
<1>2. s \o u \in Seq(S) /\ Len(s \o u) = m + k
  BY ConcatProperties
<1>3. \A i \in 1 .. m + k : (s \o u)[i] = IF i <= m THEN s[i] ELSE u[i - m]
  BY ConcatProperties
<1>4. DOMAIN (s \o u) = 1 .. m + k
  BY <1>2, LenProperties
<1> HIDE DEF m, k
<1>5. \A i \in 1 .. m : i \in 1 .. m + k /\ i <= m
  BY <1>1
<1>6. \A i \in m + 1 .. m + k : i \in 1 .. m + k /\ ~ (i <= m)
  BY <1>1
<1>7. \A i \in 1 .. k : m + i \in m + 1 .. m + k /\ (m + i) - m = i
  BY <1>1
<1>8. \A i \in m + 1 .. m + k : (s \o u)[i] = u[i - m]
  BY <1>3, <1>6
<1>9. \A i \in 1 .. m : (s \o u)[i] = s[i]
  BY <1>3, <1>5
<1>10. \A i \in 1 .. k : (s \o u)[m + i] = u[i]
  BY <1>7, <1>8
<1>11. QED
  BY <1>1, <1>2, <1>4, <1>8, <1>9, <1>10, Zenon DEF Joins, m, k

(* The places I of a sequence of length m, and the places J of one that is *)
(* joined to it.                                                           *)
Beyond(m, I, J) == I \cup {m + j : j \in J}

(* What is left of two sequences joined is what is left of each, joined.   *)
SiftsJoin(s, u, I, J) ==
  Sift(s \o u, Beyond(Len(s), I, J)) = Sift(s, I) \o Sift(u, J)

(* So it is, whatever the places. *)
LEMMA SiftJoined ==
  ASSUME NEW S, NEW s \in Seq(S), NEW u \in Seq(S),
         NEW I \in SUBSET (1 .. Len(s)), NEW J \in SUBSET (1 .. Len(u))
  PROVE  SiftsJoin(s, u, I, J)
<1> DEFINE m == Len(s)
           k == Len(u)
           a == Cardinality(I)
           b == Cardinality(J)
           c == s \o u
           K == Beyond(m, I, J)
           f == [n \in 1 .. a + b |-> IF n <= a THEN Nth(I, n) ELSE m + Nth(J, n - a)]
           l == Sift(s, I)
           r == Sift(u, J)
<1>1. /\ m \in Nat /\ k \in Nat /\ c \in Seq(S) /\ Len(c) = m + k
      /\ \A i \in 1 .. m : c[i] = s[i]
      /\ \A i \in 1 .. k : c[m + i] = u[i]
  BY Joined DEF Joins
<1>2. /\ a \in 0 .. m
      /\ \A n \in 1 .. a : Nth(I, n) \in I
      /\ \A i \in I : \E n \in 1 .. a : Nth(I, n) = i
      /\ \A n, o \in 1 .. a : n < o => Nth(I, n) < Nth(I, o)
  BY <1>1, NthCounts
<1>3. /\ b \in 0 .. k
      /\ \A n \in 1 .. b : Nth(J, n) \in J
      /\ \A j \in J : \E n \in 1 .. b : Nth(J, n) = j
      /\ \A n, o \in 1 .. b : n < o => Nth(J, n) < Nth(J, o)
  BY <1>1, NthCounts
<1>4. l \in Seq(S) /\ r \in Seq(S) /\ Len(l) = a /\ Len(r) = b
      /\ (\A n \in 1 .. a : l[n] = s[Nth(I, n)])
      /\ (\A n \in 1 .. b : r[n] = u[Nth(J, n)])
  BY SiftFacts
<1>5. I \in SUBSET (1 .. m) /\ J \in SUBSET (1 .. k)
  OBVIOUS
<1> HIDE DEF m, k, a, b, c, l, r
<1>6. a \in Nat /\ b \in Nat /\ \A n \in 1 .. a + b : n \in 1 .. a \/ n - a \in 1 .. b
  BY <1>1, <1>2, <1>3
<1>7. \A n \in 1 .. a : n \in 1 .. a + b /\ f[n] = Nth(I, n)
  BY <1>6
<1>8. \A n \in 1 .. b : a + n \in 1 .. a + b /\ f[a + n] = m + Nth(J, n)
  <2> SUFFICES ASSUME NEW n \in 1 .. b
               PROVE  a + n \in 1 .. a + b /\ f[a + n] = m + Nth(J, n)
    OBVIOUS
  <2>1. a + n \in 1 .. a + b /\ ~ (a + n <= a) /\ (a + n) - a = n
    BY <1>6
  <2>2. QED
    BY <2>1
<1>9. \A n \in 1 .. a + b : n \in 1 .. a \/ \E o \in 1 .. b : n = a + o
  <2> SUFFICES ASSUME NEW n \in 1 .. a + b, n \notin 1 .. a
               PROVE  \E o \in 1 .. b : n = a + o
    OBVIOUS
  <2>1. n - a \in 1 .. b /\ n = a + (n - a)
    BY <1>6
  <2>2. QED
    BY <2>1
<1>10. DOMAIN f = 1 .. a + b
  OBVIOUS
<1> HIDE DEF f
<1>11. CountsUp(f, a + b, K)
  <2>1. ASSUME NEW n \in 1 .. a + b PROVE f[n] \in K
    <3>1. CASE n \in 1 .. a
      BY <1>2, <1>7, <3>1 DEF Beyond
    <3>2. CASE \E o \in 1 .. b : n = a + o
      BY <1>3, <1>8, <3>2 DEF Beyond
    <3>3. QED
      BY <1>9, <3>1, <3>2
  <2>2. \A i \in K : \E n \in 1 .. a + b : f[n] = i
    <3> SUFFICES ASSUME NEW i \in K PROVE \E n \in 1 .. a + b : f[n] = i
      OBVIOUS
    <3>1. CASE i \in I
      BY <1>2, <1>7, <3>1
    <3>2. CASE \E j \in J : i = m + j
      BY <1>3, <1>8, <3>2
    <3>3. QED
      BY <3>1, <3>2 DEF Beyond
  <2>3. ASSUME NEW n \in 1 .. a + b, NEW o \in 1 .. a + b, n < o PROVE f[n] < f[o]
    <3>1. CASE n \in 1 .. a /\ o \in 1 .. a
      BY <1>2, <1>7, <2>3, <3>1
    <3>2. CASE n \in 1 .. a /\ \E q \in 1 .. b : o = a + q
      <4>1. PICK q \in 1 .. b : o = a + q
        BY <3>2
      <4>2. f[n] \in 1 .. m /\ f[o] = m + Nth(J, q) /\ Nth(J, q) \in 1 .. k
        BY <1>2, <1>3, <1>5, <1>7, <1>8, <3>2, <4>1
      <4>3. QED
        BY <1>1, <4>2
    <3>3. CASE (\E p \in 1 .. b : n = a + p) /\ (\E q \in 1 .. b : o = a + q)
      <4>1. PICK p \in 1 .. b, q \in 1 .. b : n = a + p /\ o = a + q
        BY <3>3
      <4>2. p < q
        BY <1>6, <2>3, <4>1
      <4>3. Nth(J, p) < Nth(J, q) /\ Nth(J, p) \in 1 .. k /\ Nth(J, q) \in 1 .. k
        BY <1>3, <1>5, <4>2
      <4>4. f[n] = m + Nth(J, p) /\ f[o] = m + Nth(J, q)
        BY <1>8, <4>1
      <4>5. QED
        BY <1>1, <4>3, <4>4
    <3>4. CASE (\E p \in 1 .. b : n = a + p) /\ o \in 1 .. a
      <4>1. PICK p \in 1 .. b : n = a + p
        BY <3>4
      <4>2. QED
        BY <1>6, <2>3, <3>4, <4>1
    <3>5. QED
      BY <1>9, <3>1, <3>2, <3>3, <3>4
  <2>4. a + b \in Nat
    BY <1>6
  <2>5. QED
    BY <2>1, <2>2, <2>3, <2>4 DEF CountsUp
<1>12. K \in SUBSET (1 .. Len(c))
  <2>1. \A i \in I : i \in 1 .. m + k
    BY <1>1, <1>5
  <2>2. \A j \in J : m + j \in 1 .. m + k
    BY <1>1, <1>5
  <2>3. QED
    BY <1>1, <2>1, <2>2 DEF Beyond
<1> HIDE DEF K
<1>13. Sift(c, K) = [n \in 1 .. a + b |-> c[f[n]]]
  BY <1>1, <1>11, <1>12, SiftCounted
<1>14. /\ l \o r \in Seq(S) /\ Len(l \o r) = a + b
       /\ (\A n \in 1 .. a : (l \o r)[n] = l[n])
       /\ (\A n \in 1 .. b : (l \o r)[a + n] = r[n])
  <2>1. Joins(S, l, r, l \o r)
    BY <1>4, Joined
  <2>2. QED
    BY <1>4, <2>1 DEF Joins
<1>15. \A n \in 1 .. a + b : c[f[n]] = (l \o r)[n]
  <2> SUFFICES ASSUME NEW n \in 1 .. a + b PROVE c[f[n]] = (l \o r)[n]
    OBVIOUS
  <2>1. CASE n \in 1 .. a
    <3>1. f[n] \in 1 .. m /\ f[n] = Nth(I, n)
      BY <1>2, <1>5, <1>7, <2>1
    <3>2. QED
      BY <1>1, <1>4, <1>14, <2>1, <3>1
  <2>2. CASE \E o \in 1 .. b : n = a + o
    <3>1. PICK o \in 1 .. b : n = a + o
      BY <2>2
    <3>2. f[n] = m + Nth(J, o) /\ Nth(J, o) \in 1 .. k
      BY <1>3, <1>5, <1>8, <3>1
    <3>3. c[f[n]] = u[Nth(J, o)]
      BY <1>1, <3>2
    <3>4. QED
      BY <1>4, <1>14, <3>1, <3>3
  <2>3. QED
    BY <1>9, <2>1, <2>2
<1>16. Len(Sift(c, K)) = a + b /\ Sift(c, K) \in Seq(S)
  BY <1>1, <1>11, <1>12, SiftCounted
<1>17. Sift(c, K) = l \o r
  <2> DEFINE x == Sift(c, K)
             y == l \o r
  <2>1. x \in Seq(S) /\ y \in Seq(S) /\ Len(x) = Len(y)
        /\ \A n \in 1 .. Len(x) : x[n] = y[n]
    BY <1>13, <1>14, <1>15, <1>16
  <2> HIDE DEF x, y
  <2>2. x = y
    BY <2>1, SeqEqual
  <2>3. QED
    BY <2>2 DEF x, y
<1>18. QED
  BY <1>17 DEF SiftsJoin, c, K, m, l, r
=============================================================================
