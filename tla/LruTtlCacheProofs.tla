------------------------- MODULE LruTtlCacheProofs -------------------------
(***************************************************************************)
(* Proofs about LruTtlCache, for any keys, any limit, any lifetime and any *)
(* number of puts: map and deque agree, the limit holds, and a caller      *)
(* cannot tell the cache from the store of TtlStore.                       *)
(***************************************************************************)
EXTENDS LruTtlCache, CommonFacts, SequenceTheorems, FiniteSetTheorems, TLAPS

----------------------------------------------------------------------------
(* The deque *)

(* The places of q that stay when the keys of S go. *)
Staying(q, S) == {i \in 1 .. Len(q) : q[i] \notin S}

(* What stays is found by any way to count the places that stay upwards. *)
LEMMA RetainAs ==
  ASSUME NEW q \in Seq(Keys), NEW S, NEW n, NEW f, CountsUp(f, n, Staying(q, S))
  PROVE  /\ Retain(q, S) \in Seq(Keys)
         /\ Len(Retain(q, S)) = n
         /\ \A i \in 1 .. n : Retain(q, S)[i] = q[f[i]]
<1> DEFINE K == Staying(q, S)
<1>1. Len(q) \in Nat /\ K \in SUBSET (1 .. Len(q)) /\ K \in SUBSET Nat
  BY LenProperties DEF Staying
<1>2. CountsUp(f, n, K)
  OBVIOUS
<1> HIDE DEF K
<1>3. /\ Sift(q, K) \in Seq(Keys) /\ Len(Sift(q, K)) = n
      /\ Sift(q, K) = [a \in 1 .. n |-> q[f[a]]]
  <2>1. ASSUME NEW g, CountsUp(g, n, K)
        PROVE  /\ Sift(q, K) \in Seq(Keys) /\ Len(Sift(q, K)) = n
               /\ Sift(q, K) = [a \in 1 .. n |-> q[g[a]]]
    BY <1>1, <2>1, SiftCounted
  <2>2. QED
    BY <1>2, <2>1, Zenon
<1>4. Retain(q, S) = Sift(q, K)
  BY DEF Retain, K, Staying
<1>5. QED
  BY <1>3, <1>4

(* The deque q lists the keys of K, each once, in the order of their last  *)
(* puts w.                                                                 *)
Lists(q, w, K) ==
  /\ q \in Seq(Keys)
  /\ \A i \in 1 .. Len(q) : q[i] \in K
  /\ \A k \in K : \E i \in 1 .. Len(q) : q[i] = k
  /\ \A i, j \in 1 .. Len(q) : i < j => w[q[i]].stamp < w[q[j]].stamp

(* A put of each key is remembered with a number, and later puts expire    *)
(* no sooner.                                                              *)
Remembers(w, t, p) ==
  /\ DOMAIN w \subseteq Keys
  /\ w \in [DOMAIN w -> Write]
  /\ t \in Nat /\ p \in Nat
  /\ \A k \in DOMAIN w : w[k].stamp <= p /\ w[k].expires_at <= t + Ttl
  /\ \A j, k \in DOMAIN w :
       w[j].stamp < w[k].stamp => w[j].expires_at <= w[k].expires_at

(* No key is twice in the deque. *)
LEMMA ListsOnce ==
  ASSUME NEW q, NEW w, NEW K, Lists(q, w, K), DOMAIN w \subseteq Keys,
         w \in [DOMAIN w -> Write], K \subseteq DOMAIN w
  PROVE  \A i, j \in 1 .. Len(q) : q[i] = q[j] => i = j
<1> SUFFICES ASSUME NEW i \in 1 .. Len(q), NEW j \in 1 .. Len(q), q[i] = q[j]
             PROVE  i = j
  OBVIOUS
<1>1. q[i] \in DOMAIN w
  BY DEF Lists
<1>2. w[q[i]].stamp \in Nat
  BY <1>1 DEF Write
<1>3. Len(q) \in Nat
  BY LenProperties DEF Lists
<1>4. ~ (i < j) /\ ~ (j < i)
  BY <1>2 DEF Lists
<1>5. QED
  BY <1>3, <1>4

(* What is left of the deque lists what is left of the keys. *)
LEMMA ListsLeft ==
  ASSUME NEW q, NEW w, NEW K, NEW S, Lists(q, w, K),
         NEW n, NEW f, CountsUp(f, n, Staying(q, S))
  PROVE  Lists(Retain(q, S), w, K \ S)
<1> DEFINE r == Retain(q, S)
<1>1. q \in Seq(Keys)
  BY DEF Lists
<1>2. /\ r \in Seq(Keys)
      /\ Len(r) = n
      /\ \A i \in 1 .. n : r[i] = q[f[i]]
  BY <1>1, RetainAs
<1> HIDE DEF r
<1>3. /\ \A i \in 1 .. n : f[i] \in 1 .. Len(q) /\ q[f[i]] \notin S
      /\ \A i \in 1 .. Len(q) : q[i] \notin S => \E j \in 1 .. n : f[j] = i
      /\ \A i, j \in 1 .. n : i < j => f[i] < f[j]
  BY DEF CountsUp, Staying
<1>4. \A i \in 1 .. Len(r) : r[i] \in K \ S
  BY <1>2, <1>3 DEF Lists
<1>5. \A k \in K \ S : \E i \in 1 .. Len(r) : r[i] = k
  <2> SUFFICES ASSUME NEW k \in K \ S PROVE \E i \in 1 .. Len(r) : r[i] = k
    OBVIOUS
  <2>1. PICK i \in 1 .. Len(q) : q[i] = k
    BY DEF Lists
  <2>2. PICK j \in 1 .. n : f[j] = i
    BY <1>3, <2>1
  <2>3. QED
    BY <1>2, <2>1, <2>2
<1>6. \A i, j \in 1 .. Len(r) : i < j => w[r[i]].stamp < w[r[j]].stamp
  <2> SUFFICES ASSUME NEW i \in 1 .. n, NEW j \in 1 .. n, i < j
               PROVE  w[q[f[i]]].stamp < w[q[f[j]]].stamp
    BY <1>2
  <2>1. f[i] < f[j]
    BY <1>3
  <2>2. QED
    BY <1>3, <2>1 DEF Lists
<1>7. QED
  BY <1>2, <1>4, <1>5, <1>6 DEF Lists, r

(* Removing one key: the places before it and those after it stay. *)
LEMMA ListsWithout ==
  ASSUME NEW q, NEW w, NEW K, NEW k \in K, Lists(q, w, K), DOMAIN w \subseteq Keys,
         w \in [DOMAIN w -> Write], K \subseteq DOMAIN w
  PROVE  Lists(Retain(q, {k}), w, K \ {k})
<1>1. PICK x \in 1 .. Len(q) : q[x] = k
  BY DEF Lists
<1>2. Len(q) \in Nat
  BY LenProperties DEF Lists
<1> DEFINE f == [i \in 1 .. Len(q) - 1 |-> IF i < x THEN i ELSE i + 1]
<1>3. Len(q) - 1 \in Nat /\ f \in [1 .. Len(q) - 1 -> 1 .. Len(q)]
  BY <1>2
<1>4. \A i, j \in 1 .. Len(q) - 1 : i < j => f[i] < f[j]
  BY <1>2
<1>5. \A i \in 1 .. Len(q) : q[i] \notin {k} <=> \E j \in 1 .. Len(q) - 1 : f[j] = i
  <2> SUFFICES ASSUME NEW i \in 1 .. Len(q)
               PROVE  i # x <=> \E j \in 1 .. Len(q) - 1 : f[j] = i
    BY <1>1, ListsOnce
  <2>1. CASE i < x
    <3>1. i \in 1 .. Len(q) - 1 /\ f[i] = i
      BY <1>2, <2>1
    <3>2. QED
      BY <2>1, <3>1
  <2>2. CASE i = x
    BY <1>2, <2>2
  <2>3. CASE x < i
    <3>1. i - 1 \in 1 .. Len(q) - 1 /\ f[i - 1] = i
      BY <1>2, <2>3
    <3>2. QED
      BY <2>3, <3>1
  <2>4. QED
    BY <1>2, <2>1, <2>2, <2>3
<1> HIDE DEF f
<1>6. CountsUp(f, Len(q) - 1, Staying(q, {k}))
  BY <1>3, <1>4, <1>5 DEF CountsUp, Staying
<1>7. QED
  BY <1>6, ListsLeft

(* Dropping the expired keys: they are the ones put longest ago. *)
LEMMA ListsFresh ==
  ASSUME NEW q, NEW w, NEW K, NEW t, NEW p, NEW S, Lists(q, w, K), Remembers(w, t, p),
         K \subseteq DOMAIN w,
         \A k \in K : k \in S <=> w[k].expires_at <= t
  PROVE  Lists(Retain(q, S), w, K \ S)
<1>1. Len(q) \in Nat
  BY LenProperties DEF Lists
<1>2. \A i, j \in 1 .. Len(q) : i < j /\ q[j] \in S => q[i] \in S
  <2> SUFFICES ASSUME NEW i \in 1 .. Len(q), NEW j \in 1 .. Len(q), i < j, q[j] \in S
               PROVE  q[i] \in S
    OBVIOUS
  <2>1. q[i] \in K /\ q[j] \in K /\ w[q[i]].stamp < w[q[j]].stamp
    BY DEF Lists
  <2>2. w[q[i]].expires_at <= w[q[j]].expires_at
    BY <2>1 DEF Remembers
  <2>3. w[q[i]].expires_at \in Nat /\ w[q[j]].expires_at \in Nat /\ t \in Nat
    BY <2>1 DEF Remembers, Write
  <2>4. QED
    BY <2>1, <2>2, <2>3
<1>3. PICK x \in 0 .. Len(q) : \A i \in 1 .. Len(q) : q[i] \notin S <=> i > x
  <2> DEFINE I == {i \in 1 .. Len(q) : q[i] \notin S}
  <2>1. CASE I = {}
    <3>1. Len(q) \in 0 .. Len(q)
      BY <1>1
    <3>2. \A i \in 1 .. Len(q) : q[i] \notin S <=> i > Len(q)
      BY <1>1, <2>1
    <3>3. QED
      BY <3>1, <3>2
  <2>2. CASE I # {}
    <3>1. PICK y \in I : \A j \in I : y <= j
      <4>1. I \in SUBSET Nat
        OBVIOUS
      <4> HIDE DEF I
      <4>2. QED
        BY <2>2, <4>1, LeastOf
    <3>2. y - 1 \in 0 .. Len(q)
      BY <1>1
    <3>3. \A i \in 1 .. Len(q) : q[i] \notin S <=> i > y - 1
      <4> SUFFICES ASSUME NEW i \in 1 .. Len(q)
                   PROVE  q[i] \notin S <=> i > y - 1
        OBVIOUS
      <4>1. y \in 1 .. Len(q) /\ q[y] \notin S
        OBVIOUS
      <4>2. CASE q[i] \notin S
        BY <3>1, <4>2
      <4>3. CASE q[i] \in S
        BY <1>2, <4>1, <4>3
      <4>4. QED
        BY <4>2, <4>3
    <3>4. QED
      BY <3>2, <3>3
  <2>3. QED
    BY <2>1, <2>2
<1> DEFINE n == Len(q) - x
           f == [i \in 1 .. n |-> i + x]
<1>4. n \in Nat /\ f \in [1 .. n -> 1 .. Len(q)]
  BY <1>1
<1>5. \A i, j \in 1 .. n : i < j => f[i] < f[j]
  BY <1>1
<1>6. \A i \in 1 .. Len(q) : q[i] \notin S <=> \E j \in 1 .. n : f[j] = i
  <2> SUFFICES ASSUME NEW i \in 1 .. Len(q)
               PROVE  i > x <=> \E j \in 1 .. n : f[j] = i
    BY <1>3
  <2>1. CASE i > x
    <3>1. i - x \in 1 .. n /\ f[i - x] = i
      BY <1>1, <2>1
    <3>2. QED
      BY <2>1, <3>1
  <2>2. CASE ~ (i > x)
    BY <1>1, <2>2
  <2>3. QED
    BY <2>1, <2>2
<1> HIDE DEF f, n
<1>7. CountsUp(f, n, Staying(q, S))
  BY <1>4, <1>5, <1>6 DEF CountsUp, Staying
<1>8. QED
  BY <1>7, ListsLeft

(* Popping the front. *)
LEMMA ListsPopped ==
  ASSUME NEW q, NEW w, NEW K, Lists(q, w, K), DOMAIN w \subseteq Keys,
         w \in [DOMAIN w -> Write], K \subseteq DOMAIN w, Len(q) > 0
  PROVE  Lists(SubSeq(q, 2, Len(q)), w, K \ {q[1]})
<1>1. Len(q) \in Nat /\ q \in Seq(Keys)
  BY LenProperties DEF Lists
<1> DEFINE r == SubSeq(q, 2, Len(q))
<1>2. /\ r \in Seq(Keys)
      /\ Len(r) = Len(q) - 1
      /\ \A i \in 1 .. Len(q) - 1 : r[i] = q[i + 1]
  <2>1. \A i \in 2 .. Len(q) : q[i] \in Keys
    BY <1>1, ElementOfSeq
  <2>2. 2 \in Int /\ Len(q) \in Int
    BY <1>1
  <2>3. /\ r \in Seq(Keys)
        /\ Len(r) = IF 2 <= Len(q) THEN Len(q) - 2 + 1 ELSE 0
        /\ \A i \in 1 .. Len(q) - 2 + 1 : r[i] = q[2 + i - 1]
    BY <2>1, <2>2, SubSeqProperties
  <2> HIDE DEF r
  <2>4. Len(r) = Len(q) - 1
    <3>1. Len(r) = IF 2 <= Len(q) THEN Len(q) - 2 + 1 ELSE 0
      BY <2>3
    <3>2. CASE 2 <= Len(q)
      BY <1>1, <3>1, <3>2
    <3>3. CASE Len(q) = 1
      BY <3>1, <3>3
    <3>4. 2 <= Len(q) \/ Len(q) = 1
      <4> DEFINE n == Len(q)
      <4>1. n \in Nat /\ n > 0
        BY <1>1
      <4> HIDE DEF n
      <4>2. 2 <= n \/ n = 1
        BY <4>1
      <4>3. QED
        BY <4>2 DEF n
    <3>5. QED
      BY <3>2, <3>3, <3>4
  <2>5. ASSUME NEW i \in 1 .. Len(q) - 1
        PROVE  r[i] = q[i + 1]
    <3>1. i \in 1 .. Len(q) - 2 + 1 /\ 2 + i - 1 = i + 1
      BY <1>1
    <3>2. QED
      BY <2>3, <3>1
  <2>6. QED
    BY <2>3, <2>4, <2>5
<1> HIDE DEF r
<1>3. \A i \in 1 .. Len(q) - 1 : i + 1 \in 1 .. Len(q) /\ q[i + 1] # q[1]
  BY <1>1, ListsOnce
<1>4. \A i \in 1 .. Len(r) : r[i] \in K \ {q[1]}
  BY <1>2, <1>3 DEF Lists
<1>5. \A k \in K \ {q[1]} : \E i \in 1 .. Len(r) : r[i] = k
  <2> SUFFICES ASSUME NEW k \in K, k # q[1] PROVE \E i \in 1 .. Len(r) : r[i] = k
    OBVIOUS
  <2>1. PICK i \in 1 .. Len(q) : q[i] = k
    BY DEF Lists
  <2>2. i - 1 \in 1 .. Len(q) - 1 /\ (i - 1) + 1 = i
    BY <1>1, <2>1
  <2>3. r[i - 1] = k
    BY <1>2, <2>1, <2>2
  <2>4. QED
    BY <1>2, <2>2, <2>3
<1>6. \A i, j \in 1 .. Len(r) : i < j => w[r[i]].stamp < w[r[j]].stamp
  <2> SUFFICES ASSUME NEW i \in 1 .. Len(q) - 1, NEW j \in 1 .. Len(q) - 1, i < j
               PROVE  w[q[i + 1]].stamp < w[q[j + 1]].stamp
    BY <1>2
  <2>1. i + 1 < j + 1
    OBVIOUS
  <2>2. QED
    BY <1>3, <2>1 DEF Lists
<1>7. QED
  BY <1>2, <1>4, <1>5, <1>6 DEF Lists, r

(* Putting the key k at the back, as the last one put. *)
LEMMA ListsAppended ==
  ASSUME NEW q, NEW w, NEW v, NEW K, NEW k \in Keys, Lists(q, w, K), k \notin K,
         \A a \in K : v[a].stamp = w[a].stamp /\ v[a].stamp < v[k].stamp
  PROVE  Lists(Append(q, k), v, K \cup {k})
<1> DEFINE r == Append(q, k)
<1>1. Len(q) \in Nat /\ q \in Seq(Keys)
  BY LenProperties DEF Lists
<1>2. /\ r \in Seq(Keys)
      /\ Len(r) = Len(q) + 1
      /\ \A i \in 1 .. Len(q) : r[i] = q[i]
      /\ r[Len(q) + 1] = k
  BY <1>1, AppendProperties
<1> HIDE DEF r
<1>3. \A i \in 1 .. Len(r) : i \in 1 .. Len(q) \/ i = Len(q) + 1
  BY <1>1, <1>2
<1>4. \A i \in 1 .. Len(r) : r[i] \in K \cup {k}
  BY <1>2, <1>3 DEF Lists
<1>5. \A a \in K \cup {k} : \E i \in 1 .. Len(r) : r[i] = a
  <2>1. Len(q) + 1 \in 1 .. Len(r) /\ \A i \in 1 .. Len(q) : i \in 1 .. Len(r)
    BY <1>1, <1>2
  <2>2. QED
    BY <1>2, <2>1 DEF Lists
<1>6. \A i, j \in 1 .. Len(r) : i < j => v[r[i]].stamp < v[r[j]].stamp
  <2> SUFFICES ASSUME NEW i \in 1 .. Len(r), NEW j \in 1 .. Len(r), i < j
               PROVE  v[r[i]].stamp < v[r[j]].stamp
    OBVIOUS
  <2>1. i \in 1 .. Len(q) /\ r[i] = q[i] /\ q[i] \in K
    BY <1>1, <1>2 DEF Lists
  <2>2. CASE j \in 1 .. Len(q)
    BY <1>2, <2>1, <2>2 DEF Lists
  <2>3. CASE j = Len(q) + 1
    BY <1>2, <2>1, <2>3
  <2>4. QED
    BY <1>3, <2>2, <2>3
<1>7. QED
  BY <1>2, <1>4, <1>5, <1>6 DEF Lists, r

----------------------------------------------------------------------------
(* The map *)

(* The map m holds copies of last puts, ... *)
Copied(m, w) ==
  /\ DOMAIN m \subseteq DOMAIN w
  /\ m \in [DOMAIN m -> Entry]
  /\ \A k \in DOMAIN m : m[k].value = w[k].value /\ m[k].expires_at = w[k].expires_at

(* ... of the newest of the keys, ... *)
HoldsNewest(m, w) ==
  \A k \in DOMAIN m : \A j \in DOMAIN w : w[k].stamp < w[j].stamp => j \in DOMAIN m

Newer(w, k) == {j \in DOMAIN w : w[j].stamp > w[k].stamp}

(* ... and each key it does not hold is expired or has MaxEntries newer    *)
(* ones, those of more counted.                                            *)
RestDead(m, w, t, more) ==
  \A k \in DOMAIN w \ (DOMAIN m \cup more) :
    \/ w[k].expires_at <= t
    \/ MaxEntries > 0 /\ Cardinality(Newer(w, k) \cup more) >= MaxEntries

(* The map and the deque, between two operations. *)
Fits(m, q, w, t) ==
  /\ Lists(q, w, DOMAIN m)
  /\ Copied(m, w)
  /\ HoldsNewest(m, w)
  /\ RestDead(m, w, t, {})
  /\ MaxEntries > 0 => Cardinality(DOMAIN m) <= MaxEntries

(* The same within put, when they are about to take in the key k. *)
Ready(m, q, w, t, k) ==
  /\ Lists(q, w, DOMAIN m \ {k})
  /\ Copied(m, w)
  /\ HoldsNewest(m, w)
  /\ RestDead(m, w, t, {k})
  /\ MaxEntries > 0 => Cardinality(DOMAIN m \cup {k}) <= MaxEntries

(* The keys are finitely many, so their sets can be counted. *)
LEMMA Finite ==
  ASSUME NEW S \in SUBSET Keys
  PROVE  IsFiniteSet(S) /\ Cardinality(S) \in Nat
BY CacheAssumption, FS_Subset, FS_CardinalityType

(* Dropping the expired entries. *)
LEMMA FitsFresh ==
  ASSUME NEW m, NEW q, NEW w, NEW t, NEW p, Fits(m, q, w, t), Remembers(w, t, p)
  PROVE  LET gone == Expired(m, t)
             rest == Without(m, gone)
         IN  /\ Fits(rest, Retain(q, gone), w, t)
             /\ \A k \in DOMAIN rest : t < w[k].expires_at
<1> DEFINE gone == Expired(m, t)
           rest == Without(m, gone)
<1>1. DOMAIN m \subseteq DOMAIN w /\ DOMAIN w \subseteq Keys
  BY DEF Fits, Copied, Remembers
<1>2. \A k \in DOMAIN m : k \in gone <=> w[k].expires_at <= t
  BY DEF Expired, Fits, Copied
<1>3. \A k \in DOMAIN w : w[k].expires_at \in Nat /\ t \in Nat
  BY DEF Remembers, Write
<1>4. DOMAIN rest = DOMAIN m \ gone /\ \A k \in DOMAIN rest : rest[k] = m[k]
  BY DEF Without
<1>5. rest \in [DOMAIN rest -> Entry]
  BY DEF Without, Fits, Copied
<1> HIDE DEF gone, rest
<1>6. Lists(Retain(q, gone), w, DOMAIN rest)
  BY <1>1, <1>2, <1>4, ListsFresh DEF Fits
<1>7. Copied(rest, w)
  BY <1>4, <1>5 DEF Fits, Copied
<1>8. \A k \in DOMAIN rest : t < w[k].expires_at
  BY <1>1, <1>2, <1>3, <1>4
<1>9. HoldsNewest(rest, w)
  <2> SUFFICES ASSUME NEW k \in DOMAIN rest, NEW j \in DOMAIN w,
                      w[k].stamp < w[j].stamp
               PROVE  j \in DOMAIN rest
    BY DEF HoldsNewest
  <2>1. k \in DOMAIN m /\ k \in DOMAIN w
    BY <1>1, <1>4
  <2>2. j \in DOMAIN m
    BY <2>1 DEF Fits, HoldsNewest
  <2>3. w[k].expires_at <= w[j].expires_at
    BY <2>1 DEF Remembers
  <2>4. ~ (w[j].expires_at <= t)
    BY <1>3, <1>8, <2>1, <2>3
  <2>5. QED
    BY <1>2, <1>4, <2>2, <2>4
<1>10. RestDead(rest, w, t, {})
  BY <1>1, <1>2, <1>4 DEF RestDead, Fits
<1>11. MaxEntries > 0 => Cardinality(DOMAIN rest) <= MaxEntries
  <2>1. DOMAIN rest \subseteq DOMAIN m
    BY <1>4
  <2>2. Cardinality(DOMAIN rest) <= Cardinality(DOMAIN m)
    BY <1>1, <2>1, Finite, FS_Subset
  <2>3. Cardinality(DOMAIN rest) \in Nat /\ Cardinality(DOMAIN m) \in Nat
    BY <1>1, <2>1, Finite
  <2>4. QED
    BY <2>2, <2>3, CacheAssumption DEF Fits
<1>12. QED
  BY <1>6, <1>7, <1>8, <1>9, <1>10, <1>11 DEF Fits, gone, rest

(* At most one key is popped: put never finds more than MaxEntries.        *)
LEMMA PoppedIs ==
  ASSUME NEW m, NEW q, NEW w, DOMAIN w \subseteq Keys,
         DOMAIN m \subseteq DOMAIN w, w \in [DOMAIN w -> Write], Lists(q, w, DOMAIN m),
         MaxEntries > 0 => Cardinality(DOMAIN m) <= MaxEntries
  PROVE  \/ Popped(m, q) = 0 /\ (MaxEntries > 0 => Cardinality(DOMAIN m) < MaxEntries)
         \/ /\ Popped(m, q) = 1 /\ Len(q) > 0
            /\ MaxEntries > 0 /\ Cardinality(DOMAIN m) = MaxEntries
<1>1. Len(q) \in Nat /\ MaxEntries \in Nat
  BY LenProperties, CacheAssumption DEF Lists
<1>2. DOMAIN m \subseteq Keys /\ IsFiniteSet(DOMAIN m) /\ Cardinality(DOMAIN m) \in Nat
  BY Finite
<1>3. CASE MaxEntries = 0
  BY <1>3 DEF Popped
<1> DEFINE Roomy(i) == Cardinality(DOMAIN m \ {q[j] : j \in 1 .. i}) < MaxEntries
           Right(n) == (Roomy(n) \/ n = Len(q)) /\ \A i \in 0 .. n - 1 : ~ Roomy(i)
<1>4. MaxEntries # 0 => Popped(m, q) = CHOOSE n \in 0 .. Len(q) : Right(n)
  BY DEF Popped
<1>5. Roomy(0) <=> Cardinality(DOMAIN m) < MaxEntries
  <2>1. DOMAIN m \ {q[j] : j \in 1 .. 0} = DOMAIN m
    OBVIOUS
  <2>2. QED
    BY <2>1
<1>6. CASE MaxEntries # 0 /\ Cardinality(DOMAIN m) < MaxEntries
  <2>1. Roomy(0)
    BY <1>5, <1>6
  <2> HIDE DEF Roomy
  <2>2. 0 \in 0 .. Len(q) /\ Right(0)
    BY <1>1, <2>1
  <2>3. \A n \in 0 .. Len(q) : Right(n) => n = 0
    BY <1>1, <2>1
  <2> HIDE DEF Right
  <2>4. (CHOOSE n \in 0 .. Len(q) : Right(n)) = 0
    BY <2>2, <2>3
  <2>5. QED
    BY <1>4, <1>6, <2>4
<1>7. CASE MaxEntries # 0 /\ ~ (Cardinality(DOMAIN m) < MaxEntries)
  <2>1. Cardinality(DOMAIN m) = MaxEntries /\ MaxEntries > 0
    BY <1>1, <1>2, <1>7
  <2>2. Len(q) > 0 /\ q[1] \in DOMAIN m
    <3>1. PICK k \in DOMAIN m : TRUE
      BY <2>1, FS_EmptySet
    <3>2. PICK i \in 1 .. Len(q) : q[i] = k
      BY DEF Lists
    <3>3. QED
      BY <1>1, <3>2 DEF Lists
  <2>3. Roomy(1)
    <3>1. {q[j] : j \in 1 .. 1} = {q[1]}
      OBVIOUS
    <3>2. Cardinality(DOMAIN m \ {q[1]}) = Cardinality(DOMAIN m) - 1
      BY <1>2, <2>2, FS_RemoveElement
    <3>3. DOMAIN m \ {q[j] : j \in 1 .. 1} = DOMAIN m \ {q[1]}
      BY <3>1
    <3>4. Cardinality(DOMAIN m) - 1 < MaxEntries
      BY <1>1, <2>1
    <3>5. QED
      BY <3>2, <3>3, <3>4
  <2>4. ~ Roomy(0)
    BY <1>5, <1>7
  <2> HIDE DEF Roomy
  <2>5. 1 \in 0 .. Len(q) /\ Right(1)
    BY <1>1, <2>2, <2>3, <2>4
  <2>6. \A n \in 0 .. Len(q) : Right(n) => n = 1
    BY <1>1, <2>2, <2>3, <2>4
  <2> HIDE DEF Right
  <2>7. (CHOOSE n \in 0 .. Len(q) : Right(n)) = 1
    BY <2>5, <2>6
  <2>8. QED
    BY <1>4, <1>7, <2>1, <2>2, <2>7
<1>8. QED
  BY <1>3, <1>6, <1>7

(* put, for a key the map holds: its old place in the deque is given up.  *)
LEMMA ReadyPresent ==
  ASSUME NEW m, NEW q, NEW w, NEW t, NEW p, NEW k \in DOMAIN m,
         Fits(m, q, w, t), Remembers(w, t, p)
  PROVE  Ready(m, Retain(q, {k}), w, t, k)
<1>1. DOMAIN m \subseteq DOMAIN w /\ DOMAIN w \subseteq Keys /\ w \in [DOMAIN w -> Write]
  BY DEF Fits, Copied, Remembers
<1>2. Lists(Retain(q, {k}), w, DOMAIN m \ {k})
  BY <1>1, ListsWithout DEF Fits
<1>3. DOMAIN m \cup {k} = DOMAIN m
  OBVIOUS
<1>4. RestDead(m, w, t, {k})
  <2> SUFFICES ASSUME NEW j \in DOMAIN w \ DOMAIN m
               PROVE  \/ w[j].expires_at <= t
                      \/ MaxEntries > 0 /\ Cardinality(Newer(w, j) \cup {k}) >= MaxEntries
    BY <1>3 DEF RestDead
  <2>1. \/ w[j].expires_at <= t
        \/ MaxEntries > 0 /\ Cardinality(Newer(w, j) \cup {}) >= MaxEntries
    BY DEF Fits, RestDead
  <2>2. Newer(w, j) \cup {k} \subseteq Keys /\ Newer(w, j) \cup {} \subseteq Newer(w, j) \cup {k}
    BY <1>1 DEF Newer
  <2>3. Cardinality(Newer(w, j) \cup {}) <= Cardinality(Newer(w, j) \cup {k})
    BY <2>2, Finite, FS_Subset
  <2>4. Cardinality(Newer(w, j) \cup {}) \in Nat /\ Cardinality(Newer(w, j) \cup {k}) \in Nat
    BY <2>2, Finite
  <2>5. QED
    BY <2>1, <2>3, <2>4, CacheAssumption
<1>5. QED
  BY <1>2, <1>3, <1>4 DEF Fits, Ready

(* put, for a key the map lacks: the key evicted has MaxEntries newer ones *)
(* once k is there.                                                        *)
LEMMA ReadyAbsent ==
  ASSUME NEW m, NEW q, NEW w, NEW t, NEW p, NEW k \in Keys, k \notin DOMAIN m,
         Fits(m, q, w, t), Remembers(w, t, p)
  PROVE  LET n == Popped(m, q)
         IN  Ready(Without(m, {q[j] : j \in 1 .. n}), SubSeq(q, n + 1, Len(q)), w, t, k)
<1>1. DOMAIN m \subseteq DOMAIN w /\ DOMAIN w \subseteq Keys /\ w \in [DOMAIN w -> Write]
  BY DEF Fits, Copied, Remembers
<1>2. IsFiniteSet(DOMAIN m) /\ Cardinality(DOMAIN m) \in Nat /\ MaxEntries \in Nat
  BY <1>1, Finite, CacheAssumption
<1>3. Len(q) \in Nat /\ q \in Seq(Keys)
  BY LenProperties DEF Fits, Lists
<1>4. \A j \in DOMAIN w : /\ Newer(w, j) \cup {} = Newer(w, j)
                          /\ Newer(w, j) \subseteq Keys
  BY <1>1 DEF Newer
<1>5. ASSUME NEW j \in DOMAIN w \ DOMAIN m
      PROVE  \/ w[j].expires_at <= t
             \/ MaxEntries > 0 /\ Cardinality(Newer(w, j) \cup {k}) >= MaxEntries
  <2>1. \/ w[j].expires_at <= t
        \/ MaxEntries > 0 /\ Cardinality(Newer(w, j)) >= MaxEntries
    BY <1>4 DEF Fits, RestDead
  <2>2. Cardinality(Newer(w, j)) <= Cardinality(Newer(w, j) \cup {k})
    BY <1>4, Finite, FS_Subset
  <2>3. Cardinality(Newer(w, j)) \in Nat /\ Cardinality(Newer(w, j) \cup {k}) \in Nat
    BY <1>4, Finite
  <2>4. QED
    BY <1>2, <2>1, <2>2, <2>3
<1>6. CASE /\ Popped(m, q) = 0
           /\ MaxEntries > 0 => Cardinality(DOMAIN m) < MaxEntries
  <2>1. Without(m, {q[j] : j \in 1 .. 0}) = m
    <3>1. {q[j] : j \in 1 .. 0} = {} /\ DOMAIN m \ {} = DOMAIN m
      OBVIOUS
    <3>2. Without(m, {}) = m
      BY <3>1 DEF Without, Fits, Copied
    <3>3. QED
      BY <3>1, <3>2
  <2>2. SubSeq(q, 0 + 1, Len(q)) = q
    BY <1>3, SubSeqFull
  <2>3. DOMAIN m \ {k} = DOMAIN m
    OBVIOUS
  <2>4. Cardinality(DOMAIN m \cup {k}) = Cardinality(DOMAIN m) + 1
    BY <1>2, FS_AddElement
  <2>5. MaxEntries > 0 => Cardinality(DOMAIN m \cup {k}) <= MaxEntries
    BY <1>2, <1>6, <2>4
  <2>6. Ready(m, q, w, t, k)
    BY <1>5, <2>3, <2>5 DEF Fits, Ready, RestDead
  <2>7. QED
    BY <1>6, <2>1, <2>2, <2>6
<1>7. CASE /\ Popped(m, q) = 1 /\ Len(q) > 0
           /\ MaxEntries > 0 /\ Cardinality(DOMAIN m) = MaxEntries
  <2> DEFINE rest == Without(m, {q[1]})
  <2>1. Without(m, {q[j] : j \in 1 .. 1}) = rest
    <3>1. {q[j] : j \in 1 .. 1} = {q[1]}
      OBVIOUS
    <3>2. QED
      BY <3>1
  <2>2. /\ DOMAIN rest = DOMAIN m \ {q[1]}
        /\ \A j \in DOMAIN rest : rest[j] = m[j]
        /\ rest \in [DOMAIN rest -> Entry]
    BY DEF Without, Fits, Copied
  <2> HIDE DEF rest
  <2>3. q[1] \in DOMAIN m /\ 1 \in 1 .. Len(q)
    BY <1>3, <1>7 DEF Fits, Lists
  <2>4. DOMAIN rest \ {k} = DOMAIN m \ {q[1]}
    BY <2>2
  <2>5. Lists(SubSeq(q, 1 + 1, Len(q)), w, DOMAIN rest \ {k})
    BY <1>1, <1>7, <2>4, ListsPopped DEF Fits
  <2>6. Copied(rest, w)
    BY <2>2 DEF Fits, Copied
  <2>7. \A j \in DOMAIN rest : w[q[1]].stamp < w[j].stamp
    <3> SUFFICES ASSUME NEW j \in DOMAIN rest PROVE w[q[1]].stamp < w[j].stamp
      OBVIOUS
    <3>1. PICK i \in 1 .. Len(q) : q[i] = j
      BY <2>2 DEF Fits, Lists
    <3>2. i # 1
      BY <2>2, <3>1
    <3>3. QED
      BY <1>3, <2>3, <3>1, <3>2 DEF Fits, Lists
  <2>8. HoldsNewest(rest, w)
    <3> SUFFICES ASSUME NEW a \in DOMAIN rest, NEW j \in DOMAIN w, w[a].stamp < w[j].stamp
                 PROVE  j \in DOMAIN rest
      BY DEF HoldsNewest
    <3>1. j \in DOMAIN m
      BY <2>2 DEF Fits, HoldsNewest
    <3>2. w[q[1]].stamp < w[a].stamp
      BY <2>7
    <3>3. /\ w[q[1]].stamp \in Nat /\ w[a].stamp \in Nat /\ w[j].stamp \in Nat
      BY <1>1, <2>2, <2>3 DEF Write
    <3>4. j # q[1]
      BY <3>2, <3>3
    <3>5. QED
      BY <2>2, <3>1, <3>4
  <2>9. Cardinality(DOMAIN rest \cup {k}) = MaxEntries
    <3>1. Cardinality(DOMAIN rest) = MaxEntries - 1 /\ IsFiniteSet(DOMAIN rest)
      BY <1>2, <1>7, <2>2, <2>3, FS_RemoveElement
    <3>2. Cardinality(DOMAIN rest \cup {k}) = Cardinality(DOMAIN rest) + 1
      BY <2>2, <3>1, FS_AddElement
    <3>3. QED
      BY <1>2, <3>1, <3>2
  <2>10. RestDead(rest, w, t, {k})
    <3> SUFFICES ASSUME NEW j \in DOMAIN w \ (DOMAIN rest \cup {k})
                 PROVE  \/ w[j].expires_at <= t
                        \/ MaxEntries > 0 /\ Cardinality(Newer(w, j) \cup {k}) >= MaxEntries
      BY DEF RestDead
    <3>1. CASE j \notin DOMAIN m
      BY <1>5, <3>1
    <3>2. CASE j = q[1]
      <4>1. DOMAIN rest \cup {k} \subseteq Newer(w, j) \cup {k}
        BY <1>1, <2>2, <2>7, <3>2 DEF Newer
      <4>2. /\ Newer(w, j) \cup {k} \subseteq Keys
            /\ DOMAIN rest \cup {k} \subseteq Keys
        BY <1>1, <1>4, <2>2
      <4>3. Cardinality(DOMAIN rest \cup {k}) <= Cardinality(Newer(w, j) \cup {k})
        BY <4>1, <4>2, Finite, FS_Subset
      <4>4. Cardinality(Newer(w, j) \cup {k}) \in Nat
        BY <4>2, Finite
      <4>5. QED
        BY <1>2, <1>7, <2>9, <4>3, <4>4
    <3>3. QED
      BY <2>2, <3>1, <3>2
  <2>11. Ready(rest, SubSeq(q, 1 + 1, Len(q)), w, t, k)
    BY <1>2, <2>5, <2>6, <2>8, <2>9, <2>10 DEF Ready
  <2>12. QED
    BY <1>7, <2>1, <2>11
<1>8. QED
  BY <1>1, <1>6, <1>7, PoppedIs DEF Fits

(* The key is put. *)
LEMMA Placed ==
  ASSUME NEW m, NEW q, NEW w, NEW t, NEW p, NEW k \in Keys, NEW v \in Values,
         Ready(m, q, w, t, k), Remembers(w, t, p),
         NEW w2, w2 = Insert(w, k, [value |-> v, expires_at |-> t + Ttl, stamp |-> p + 1]),
         NEW m2, m2 = Insert(m, k, [value |-> v, expires_at |-> t + Ttl])
  PROVE  /\ Remembers(w2, t, p + 1)
         /\ Fits(m2, Append(q, k), w2, t)
<1> DEFINE put == [value |-> v, expires_at |-> t + Ttl, stamp |-> p + 1]
<1>1. DOMAIN m \subseteq DOMAIN w /\ DOMAIN w \subseteq Keys /\ w \in [DOMAIN w -> Write]
  BY DEF Ready, Copied, Remembers
<1>2. t \in Nat /\ p \in Nat /\ Ttl \in Nat /\ MaxEntries \in Nat
  BY CacheAssumption DEF Remembers
<1>3. put \in Write /\ put.stamp = p + 1 /\ put.expires_at = t + Ttl
  BY <1>2 DEF Write
<1>4. /\ DOMAIN w2 = DOMAIN w \cup {k}
      /\ w2[k] = put
      /\ \A j \in DOMAIN w \ {k} : w2[j] = w[j]
      /\ w2 \in [DOMAIN w2 -> Write]
  BY <1>1, <1>3 DEF Insert
<1>5. /\ DOMAIN m2 = DOMAIN m \cup {k}
      /\ m2[k] = [value |-> v, expires_at |-> t + Ttl]
      /\ \A j \in DOMAIN m \ {k} : m2[j] = m[j]
      /\ m2 \in [DOMAIN m2 -> Entry]
  BY <1>2 DEF Insert, Entry, Ready, Copied
<1>6. \A j \in DOMAIN w : /\ w[j].stamp \in Nat /\ w[j].expires_at \in Nat
                          /\ w[j].stamp <= p /\ w[j].expires_at <= t + Ttl
  BY <1>1 DEF Write, Remembers
<1>7. \A j \in DOMAIN w \ {k} : w2[j].stamp = w[j].stamp /\ w2[j].stamp < w2[k].stamp
  BY <1>2, <1>3, <1>4, <1>6
<1>8. Remembers(w2, t, p + 1)
  <2>1. DOMAIN w2 \subseteq Keys /\ p + 1 \in Nat
    BY <1>1, <1>2, <1>4
  <2>2. \A j \in DOMAIN w2 : w2[j].stamp <= p + 1 /\ w2[j].expires_at <= t + Ttl
    BY <1>2, <1>3, <1>4, <1>6
  <2>3. \A a, b \in DOMAIN w2 :
          w2[a].stamp < w2[b].stamp => w2[a].expires_at <= w2[b].expires_at
    <3> SUFFICES ASSUME NEW a \in DOMAIN w2, NEW b \in DOMAIN w2,
                        w2[a].stamp < w2[b].stamp
                 PROVE  w2[a].expires_at <= w2[b].expires_at
      OBVIOUS
    <3>1. CASE b = k
      BY <1>3, <1>4, <2>2, <3>1
    <3>2. CASE a = k /\ b # k
      <4>1. w2[b].stamp < w2[k].stamp /\ w2[b].stamp \in Nat /\ w2[k].stamp \in Nat
        BY <1>2, <1>3, <1>4, <1>6, <1>7, <3>2
      <4>2. QED
        BY <3>2, <4>1
    <3>3. CASE a # k /\ b # k
      BY <1>4, <3>3 DEF Remembers
    <3>4. QED
      BY <3>1, <3>2, <3>3
  <2>4. QED
    BY <1>2, <1>4, <2>1, <2>2, <2>3 DEF Remembers
<1>9. Lists(Append(q, k), w2, DOMAIN m2)
  <2>1. Lists(q, w, DOMAIN m \ {k})
    BY DEF Ready
  <2>2. \A a \in DOMAIN m \ {k} : w2[a].stamp = w[a].stamp /\ w2[a].stamp < w2[k].stamp
    BY <1>1, <1>7
  <2>3. Lists(Append(q, k), w2, (DOMAIN m \ {k}) \cup {k})
    BY <2>1, <2>2, ListsAppended
  <2>4. (DOMAIN m \ {k}) \cup {k} = DOMAIN m2
    BY <1>5
  <2>5. QED
    BY <2>3, <2>4
<1>10. Copied(m2, w2)
  BY <1>1, <1>3, <1>4, <1>5 DEF Ready, Copied
<1>11. HoldsNewest(m2, w2)
  <2> SUFFICES ASSUME NEW a \in DOMAIN m2, NEW j \in DOMAIN w2, w2[a].stamp < w2[j].stamp,
                      j # k
               PROVE  j \in DOMAIN m
    BY <1>5 DEF HoldsNewest
  <2>1. j \in DOMAIN w /\ w2[j].stamp = w[j].stamp /\ w2[j].stamp < w2[k].stamp
    BY <1>4, <1>7
  <2>2. w2[j].stamp \in Nat /\ w2[k].stamp \in Nat
    BY <1>2, <1>3, <1>4, <1>6, <2>1
  <2>3. a # k
    BY <2>1, <2>2
  <2>4. a \in DOMAIN m /\ w2[a].stamp = w[a].stamp
    BY <1>1, <1>5, <1>7, <2>3
  <2>5. QED
    BY <2>1, <2>4 DEF Ready, HoldsNewest
<1>12. RestDead(m2, w2, t, {})
  <2> SUFFICES ASSUME NEW j \in DOMAIN w2 \ DOMAIN m2
               PROVE  \/ w2[j].expires_at <= t
                      \/ MaxEntries > 0 /\ Cardinality(Newer(w2, j) \cup {}) >= MaxEntries
    BY DEF RestDead
  <2>1. j \in DOMAIN w \ (DOMAIN m \cup {k}) /\ w2[j] = w[j]
    BY <1>4, <1>5
  <2>2. \/ w[j].expires_at <= t
        \/ MaxEntries > 0 /\ Cardinality(Newer(w, j) \cup {k}) >= MaxEntries
    BY <2>1 DEF Ready, RestDead
  <2>3. Newer(w, j) \cup {k} \subseteq Newer(w2, j) \cup {}
    BY <1>4, <1>7, <2>1 DEF Newer
  <2>4. Newer(w, j) \cup {k} \subseteq Keys /\ Newer(w2, j) \cup {} \subseteq Keys
    BY <1>1, <1>4 DEF Newer
  <2>5. Cardinality(Newer(w, j) \cup {k}) <= Cardinality(Newer(w2, j) \cup {})
    BY <2>3, <2>4, Finite, FS_Subset
  <2>6. /\ Cardinality(Newer(w, j) \cup {k}) \in Nat
        /\ Cardinality(Newer(w2, j) \cup {}) \in Nat
    BY <2>4, Finite
  <2>7. QED
    BY <1>2, <2>1, <2>2, <2>5, <2>6
<1>13. MaxEntries > 0 => Cardinality(DOMAIN m2) <= MaxEntries
  BY <1>5 DEF Ready
<1>14. QED
  BY <1>8, <1>9, <1>10, <1>11, <1>12, <1>13 DEF Fits

(* Time passing only kills keys. *)
LEMMA Later ==
  ASSUME NEW m, NEW q, NEW w, NEW t, NEW p, Fits(m, q, w, t), Remembers(w, t, p)
  PROVE  Fits(m, q, w, t + 1) /\ Remembers(w, t + 1, p)
<1>1. t \in Nat /\ t + 1 \in Nat /\ Ttl \in Nat
  BY CacheAssumption DEF Remembers
<1>2. \A k \in DOMAIN w : w[k].expires_at \in Nat
  BY DEF Remembers, Write
<1>3. RestDead(m, w, t + 1, {})
  BY <1>1, <1>2 DEF Fits, RestDead
<1>4. Remembers(w, t + 1, p)
  BY <1>1, <1>2 DEF Remembers
<1>5. QED
  BY <1>3, <1>4 DEF Fits

----------------------------------------------------------------------------
(* The specification *)

(* Between two operations the map and the deque fit what was put. *)
Inv ==
  /\ TypeOK
  /\ Remembers(written, now, puts)
  /\ Fits(map, lru, written, now)

(* The empty cache. *)
LEMMA InitFits == Init => Inv
<1> SUFFICES ASSUME Init PROVE Inv
  OBVIOUS
<1>1. map = << >> /\ lru = << >> /\ written = << >> /\ now = 0 /\ puts = 0 /\ answer = << >>
  BY DEF Init
<1>2. DOMAIN << >> = {} /\ << >> \in Seq(Keys) /\ Len(<< >>) = 0
  BY EmptySeq
<1>3. \A S : << >> \in [{} -> S]
  BY <1>2
<1>4. Remembers(written, now, puts)
  BY <1>1, <1>2, <1>3 DEF Remembers
<1>5. Lists(lru, written, DOMAIN map)
  BY <1>1, <1>2 DEF Lists
<1>6. Cardinality(DOMAIN map) = 0
  BY <1>1, <1>2, FS_EmptySet
<1>7. Fits(map, lru, written, now)
  BY <1>1, <1>2, <1>3, <1>5, <1>6, CacheAssumption
     DEF Fits, Copied, HoldsNewest, RestDead
<1>8. TypeOK
  BY <1>1, <1>2, <1>3 DEF TypeOK
<1>9. QED
  BY <1>4, <1>7, <1>8 DEF Inv

(* What Fits and Remembers say of the types. *)
LEMMA FitTypes ==
  ASSUME NEW m, NEW q, NEW w, NEW t, NEW p, Fits(m, q, w, t), Remembers(w, t, p)
  PROVE  /\ DOMAIN m \subseteq Keys /\ m \in [DOMAIN m -> Entry] /\ q \in Seq(Keys)
         /\ t \in Nat /\ p \in Nat
         /\ DOMAIN w \subseteq Keys /\ w \in [DOMAIN w -> Write]
BY DEF Fits, Copied, Lists, Remembers

(* put *)
LEMMA PutFits ==
  ASSUME Inv, NEW k \in Keys, NEW v \in Values, Put(k, v)
  PROVE  Inv'
<1> DEFINE gone == Expired(map, now)
           m == Without(map, gone)
           q == Retain(lru, gone)
           e == [value |-> v, expires_at |-> now + Ttl]
           put == [value |-> v, expires_at |-> now + Ttl, stamp |-> puts + 1]
<1>1. /\ PutInto(m, q, k, e)
      /\ puts' = puts + 1 /\ written' = Insert(written, k, put)
      /\ now' = now /\ answer' = answer
  BY DEF Put
<1>2. Fits(m, q, written, now) /\ Remembers(written, now, puts)
  BY FitsFresh DEF Inv
<1> HIDE DEF m, q, gone
<1>3. Fits(map', lru', written', now') /\ Remembers(written', now', puts')
  <2>1. CASE k \in DOMAIN m
    <3>1. map' = Insert(m, k, e) /\ lru' = Append(Retain(q, {k}), k)
      BY <1>1, <2>1 DEF PutInto
    <3>2. Ready(m, Retain(q, {k}), written, now, k)
      BY <1>2, <2>1, ReadyPresent
    <3>3. QED
      BY <1>1, <1>2, <3>1, <3>2, Placed
  <2>2. CASE k \notin DOMAIN m
    <3> DEFINE n == Popped(m, q)
               live == Without(m, {q[j] : j \in 1 .. n})
               rest == SubSeq(q, n + 1, Len(q))
    <3>1. map' = Insert(live, k, e) /\ lru' = Append(rest, k)
      BY <1>1, <2>2 DEF PutInto
    <3>2. Ready(live, rest, written, now, k)
      BY <1>2, <2>2, ReadyAbsent
    <3> HIDE DEF live, rest
    <3>3. QED
      BY <1>1, <1>2, <3>1, <3>2, Placed
  <2>3. QED
    BY <2>1, <2>2
<1>4. TypeOK'
  BY <1>1, <1>3, FitTypes DEF TypeOK, Inv
<1>5. QED
  BY <1>3, <1>4 DEF Inv

(* A key is in the map, once the expired ones are dropped, just when the   *)
(* store would find it.                                                    *)
LEMMA HeldIsAlive ==
  ASSUME NEW m, NEW q, NEW w, NEW t, NEW p, Fits(m, q, w, t), Remembers(w, t, p),
         \A k \in DOMAIN m : t < w[k].expires_at
  PROVE  \A k \in Keys : k \in DOMAIN m <=> Abstract!Alive(w, k, t)
<1> SUFFICES ASSUME NEW k \in Keys
             PROVE  k \in DOMAIN m <=> Abstract!Alive(w, k, t)
  OBVIOUS
<1>1. /\ DOMAIN m \subseteq DOMAIN w /\ DOMAIN w \subseteq Keys
      /\ \A j \in DOMAIN w : w[j].stamp \in Nat /\ w[j].expires_at \in Nat
      /\ t \in Nat /\ MaxEntries \in Nat
  BY CacheAssumption DEF Fits, Copied, Remembers, Write
<1>2. /\ Abstract!NewerIn(w, k) = Newer(w, k)
      /\ Abstract!Cardinality(Newer(w, k)) = Cardinality(Newer(w, k))
  BY DEF Abstract!NewerIn, Newer, Abstract!Cardinality, Cardinality
<1>3. Newer(w, k) \subseteq Keys /\ Cardinality(Newer(w, k)) \in Nat
  BY <1>1, Finite DEF Newer
<1>4. ASSUME k \in DOMAIN m PROVE Abstract!Alive(w, k, t)
  <2>1. Newer(w, k) \subseteq DOMAIN m \ {k}
    BY <1>1, <1>4 DEF Fits, HoldsNewest, Newer
  <2>2. /\ IsFiniteSet(DOMAIN m) /\ IsFiniteSet(DOMAIN m \ {k})
        /\ Cardinality(DOMAIN m) \in Nat
        /\ Cardinality(DOMAIN m \ {k}) = Cardinality(DOMAIN m) - 1
    BY <1>1, <1>4, Finite, FS_RemoveElement
  <2>3. Cardinality(Newer(w, k)) <= Cardinality(DOMAIN m \ {k})
    BY <2>1, <2>2, FS_Subset
  <2>4. MaxEntries > 0 => Cardinality(DOMAIN m) <= MaxEntries
    BY DEF Fits
  <2>5. MaxEntries > 0 => Cardinality(Newer(w, k)) < MaxEntries
    BY <1>1, <1>3, <2>2, <2>3, <2>4
  <2>6. QED
    BY <1>1, <1>2, <1>4, <2>5 DEF Abstract!Alive
<1>5. ASSUME Abstract!Alive(w, k, t), k \notin DOMAIN m PROVE FALSE
  <2>1. /\ k \in DOMAIN w /\ t < w[k].expires_at
        /\ MaxEntries > 0 => Cardinality(Newer(w, k)) < MaxEntries
    BY <1>2, <1>5 DEF Abstract!Alive
  <2>2. Newer(w, k) \cup {} = Newer(w, k)
    OBVIOUS
  <2>3. \/ w[k].expires_at <= t
        \/ MaxEntries > 0 /\ Cardinality(Newer(w, k)) >= MaxEntries
    BY <1>5, <2>1, <2>2 DEF Fits, RestDead
  <2>4. QED
    BY <1>1, <1>3, <2>1, <2>3
<1>6. QED
  BY <1>4, <1>5

(* get, which answers as the store does. *)
LEMMA GetFits ==
  ASSUME Inv, NEW k \in Keys, Get(k)
  PROVE  Inv' /\ Abstract!Get(k)
<1> DEFINE gone == Expired(map, now)
           m == Without(map, gone)
<1>1. /\ map' = m /\ lru' = Retain(lru, gone)
      /\ answer' = <<k, IF k \in DOMAIN map' THEN map'[k].value ELSE None>>
      /\ now' = now /\ written' = written /\ puts' = puts
  BY DEF Get
<1>2. /\ Fits(m, Retain(lru, gone), written, now) /\ Remembers(written, now, puts)
      /\ \A j \in DOMAIN m : now < written[j].expires_at
  BY FitsFresh DEF Inv
<1> HIDE DEF m, gone
<1>3. Fits(map', lru', written', now') /\ Remembers(written', now', puts')
  BY <1>1, <1>2
<1>4. answer' \in Keys \X (Values \cup {None})
  <2>1. k \in DOMAIN m => m[k].value \in Values
    BY <1>2, FitTypes DEF Entry
  <2>2. QED
    BY <1>1, <2>1
<1>5. TypeOK'
  BY <1>3, <1>4, FitTypes DEF TypeOK
<1>6. k \in DOMAIN m <=> Abstract!Alive(written, k, now)
  BY <1>2, HeldIsAlive
<1>7. k \in DOMAIN m => m[k].value = written[k].value
  BY <1>2 DEF Fits, Copied
<1>8. Abstract!Get(k)
  BY <1>1, <1>6, <1>7 DEF Abstract!Get, Abstract!Lookup
<1>9. QED
  BY <1>3, <1>5, <1>8 DEF Inv

(* The clock. *)
LEMMA TickFits == ASSUME Inv, Tick PROVE Inv'
<1>1. /\ now' = now + 1 /\ map' = map /\ lru' = lru /\ answer' = answer
      /\ written' = written /\ puts' = puts
  BY DEF Tick
<1>2. Fits(map', lru', written', now') /\ Remembers(written', now', puts')
  BY <1>1, Later DEF Inv
<1>3. TypeOK'
  BY <1>1, <1>2, FitTypes DEF TypeOK, Inv
<1>4. QED
  BY <1>2, <1>3 DEF Inv

(* Inv is inductive. *)
LEMMA NextFits == Inv /\ [Next]_vars => Inv'
<1> SUFFICES ASSUME Inv, [Next]_vars PROVE Inv'
  OBVIOUS
<1>1. ASSUME NEW k \in Keys, NEW v \in Values, Put(k, v) PROVE Inv'
  BY <1>1, PutFits
<1>2. ASSUME NEW k \in Keys, Get(k) PROVE Inv'
  BY <1>2, GetFits
<1>3. CASE Tick
  BY <1>3, TickFits
<1>4. CASE UNCHANGED vars
  BY <1>4 DEF vars, Inv, TypeOK
<1>5. QED
  BY <1>1, <1>2, <1>3, <1>4 DEF Next

(* So it always holds. *)
LEMMA AlwaysFits == Spec => []Inv
BY InitFits, NextFits, PTL DEF Spec

(* lru_ttl.rs: TypeOK, for every Keys, Values, MaxEntries and Ttl. *)
THEOREM CacheTypes == Spec => []TypeOK
<1>1. Inv => TypeOK
  BY DEF Inv
<1>2. QED
  BY <1>1, AlwaysFits, PTL

(* lru_ttl.rs: map and deque hold the same keys, each once. *)
THEOREM DequeIsTheMap == Spec => []SameKeys
<1>1. ASSUME Inv PROVE SameKeys
  <2>1. /\ Lists(lru, written, DOMAIN map) /\ DOMAIN map \subseteq DOMAIN written
        /\ DOMAIN written \subseteq Keys /\ written \in [DOMAIN written -> Write]
    BY <1>1 DEF Inv, Fits, Copied, Remembers
  <2>2. \A i, j \in 1 .. Len(lru) : lru[i] = lru[j] => i = j
    BY <2>1, ListsOnce
  <2>3. QED
    BY <2>1, <2>2 DEF Lists, SameKeys
<1>2. QED
  BY <1>1, AlwaysFits, PTL

(* lru_ttl.rs:51: the limit holds, though no step looks at more than one   *)
(* entry too many.                                                         *)
THEOREM LimitHolds == Spec => []Bounded
<1>1. Inv => Bounded
  BY DEF Inv, Fits, Bounded
<1>2. QED
  BY <1>1, AlwaysFits, PTL

(* lru_ttl.rs: the front of the deque is what was put, and expires, first. *)
THEOREM FrontIsOldest == Spec => []OldestFirst
<1>1. ASSUME Inv PROVE OldestFirst
  <2> SUFFICES ASSUME NEW i \in 1 .. Len(lru), NEW j \in 1 .. Len(lru), i < j
               PROVE  /\ written[lru[i]].stamp < written[lru[j]].stamp
                      /\ map[lru[i]].expires_at <= map[lru[j]].expires_at
    BY DEF OldestFirst
  <2>1. written[lru[i]].stamp < written[lru[j]].stamp
    BY <1>1 DEF Inv, Fits, Lists
  <2>2. lru[i] \in DOMAIN map /\ lru[j] \in DOMAIN map
    BY <1>1 DEF Inv, Fits, Lists
  <2>3. QED
    BY <1>1, <2>1, <2>2 DEF Inv, Fits, Copied, Remembers
<1>2. QED
  BY <1>1, AlwaysFits, PTL

(* The refinement, at the start and at each step. *)
LEMMA InitStore == Init => Abstract!Init
BY DEF Init, Abstract!Init

(* A step of the cache is a step of the store or a stutter.                *)
LEMMA NextStore == Inv /\ [Next]_vars => [Abstract!Next]_(Abstract!vars)
<1> SUFFICES ASSUME Inv, [Next]_vars PROVE Abstract!Next \/ UNCHANGED Abstract!vars
  OBVIOUS
<1>1. ASSUME NEW k \in Keys, NEW v \in Values, Put(k, v) PROVE Abstract!Put(k, v)
  BY <1>1 DEF Put, Insert, Abstract!Put, Abstract!Write
<1>2. ASSUME NEW k \in Keys, Get(k) PROVE Abstract!Get(k)
  BY <1>2, GetFits
<1>3. Tick => Abstract!Tick
  BY DEF Tick, Abstract!Tick
<1>4. UNCHANGED vars => UNCHANGED Abstract!vars
  BY DEF vars, Abstract!vars
<1>5. QED
  BY <1>1, <1>2, <1>3, <1>4 DEF Next, Abstract!Next

(* lru_ttl.rs: whatever is moved, evicted or dropped, get answers as       *)
(* TtlStore, which remembers every put, would.                             *)
THEOREM CacheImplementsStore == Spec => ImplementsTtlStore
<1>1. QED
  BY InitStore, NextStore, AlwaysFits, PTL DEF Spec, ImplementsTtlStore, Abstract!Spec
=============================================================================
