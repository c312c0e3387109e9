---------------------------- MODULE LruTtlCache ----------------------------
(***************************************************************************)
(* src/cache/lru_ttl.rs: a map bounded in size, whose entries expire a     *)
(* fixed time after they were put.  A mutex makes put and get atomic, so   *)
(* each is one action.  The clock is std::time::Instant: monotone, and     *)
(* read once by each operation.                                            *)
(*                                                                         *)
(* written and puts are history variables: what a caller who remembered    *)
(* every put would know.  No action reads them.                            *)
(***************************************************************************)
EXTENDS Integers, FiniteSets, Sequences, Sift

CONSTANTS
  Keys,        \* K, the keys callers use
  Values,      \* V
  None,        \* the None of Option<V>
  MaxEntries,  \* max_entries; 0 means no limit
  Ttl,         \* ttl
  MaxNow,      \* bound on the clock
  MaxPuts      \* bound on the number of puts

ASSUME CacheAssumption ==
  /\ IsFiniteSet(Keys)
  /\ None \notin Values
  /\ MaxEntries \in Nat /\ Ttl \in Nat
  /\ MaxNow \in Nat /\ MaxPuts \in Nat

VARIABLES
  map,      \* HashMap<K, Entry<V>>
  lru,      \* VecDeque<K>, oldest insertion first
  now,      \* Instant::now()
  answer,   \* the key the last get was for, and what it returned
  written,  \* history: the last put of each key
  puts      \* history: the number of puts

vars == <<map, lru, now, answer, written, puts>>

Entry == [value : Values, expires_at : Nat]
Write == [value : Values, expires_at : Nat, stamp : Nat]

Init ==
  /\ map = << >>
  /\ lru = << >>
  /\ now = 0
  /\ answer = << >>
  /\ written = << >>
  /\ puts = 0

----------------------------------------------------------------------------
(* The helpers work on a map m and a deque q. *)

Without(m, S) == [k \in DOMAIN m \ S |-> m[k]]

\* Variant of Retain: the deque is not cleaned.
RetainAll(q, S) == q

(* VecDeque::retain for each key of S. *)
Retain(q, S) == Sift(q, {i \in 1 .. Len(q) : q[i] \notin S})

Expired(m, t) == {k \in DOMAIN m : m[k].expires_at <= t}

\* Variant of Popped: the loop runs while there are more than max_entries.
PoppedLess(m, q) ==
  IF MaxEntries = 0 \/ Cardinality(DOMAIN m) <= MaxEntries THEN 0 ELSE 1

(* How many keys the eviction loop pops from the front of q: the least     *)
(* number that leaves room for one more entry, or all of them.             *)
Popped(m, q) ==
  IF MaxEntries = 0 THEN 0
  ELSE CHOOSE n \in 0 .. Len(q) :
         LET Roomy(i) == Cardinality(DOMAIN m \ {q[j] : j \in 1 .. i}) < MaxEntries
         IN  /\ Roomy(n) \/ n = Len(q)
             /\ \A i \in 0 .. n - 1 : ~ Roomy(i)

Insert(m, k, e) == [j \in DOMAIN m \cup {k} |-> IF j = k THEN e ELSE m[j]]

\* Variant of PutInto: a key already present keeps its place.
PutInPlace(m, q, k, e) ==
  LET n == IF k \in DOMAIN m THEN 0 ELSE Popped(m, q) IN
  /\ map' = Insert(Without(m, {q[j] : j \in 1 .. n}), k, e)
  /\ lru' = IF k \in DOMAIN m THEN q ELSE Append(SubSeq(q, n + 1, Len(q)), k)

\* Variant of PutInto: room is made for a key already present too.
PutMakingRoom(m, q, k, e) ==
  LET n == Popped(m, q) IN
  /\ map' = Insert(Without(m, {q[j] : j \in 1 .. n}), k, e)
  /\ lru' = Append(Retain(SubSeq(q, n + 1, Len(q)), {k}), k)

(* Everything put does after dropping the expired entries, which leaves m  *)
(* and q: a key already present moves to the back; a new one makes room    *)
(* for itself first.                                                       *)
PutInto(m, q, k, e) ==
  LET n    == Popped(m, q)
      live == IF k \in DOMAIN m THEN m
              ELSE Without(m, {q[j] : j \in 1 .. n})
      rest == IF k \in DOMAIN m THEN Retain(q, {k})
              ELSE SubSeq(q, n + 1, Len(q))
  IN  /\ map' = Insert(live, k, e)
      /\ lru' = Append(rest, k)

\* Variant of Put: the lifetime is subtracted.
PutBackdated(k, v) ==
  LET e == [value |-> v, expires_at |-> now - Ttl]
  IN  /\ puts < MaxPuts
      /\ PutInto(Without(map, Expired(map, now)), Retain(lru, Expired(map, now)), k, e)
      /\ puts' = puts + 1
      /\ written' = Insert(written, k, [value |-> v, expires_at |-> now - Ttl,
                                        stamp |-> puts'])
      /\ UNCHANGED <<now, answer>>

Put(k, v) ==
  LET gone == Expired(map, now)
      e    == [value |-> v, expires_at |-> now + Ttl]
  IN  /\ puts < MaxPuts
      /\ PutInto(Without(map, gone), Retain(lru, gone), k, e)
      /\ puts' = puts + 1
      /\ written' = Insert(written, k, [value |-> v, expires_at |-> now + Ttl,
                                        stamp |-> puts'])
      /\ UNCHANGED <<now, answer>>

Get(k) ==
  LET gone == Expired(map, now)
  IN  /\ map' = Without(map, gone)
      /\ lru' = Retain(lru, gone)
      /\ answer' = <<k, IF k \in DOMAIN map' THEN map'[k].value ELSE None>>
      /\ UNCHANGED <<now, written, puts>>

Tick ==
  /\ now < MaxNow
  /\ now' = now + 1
  /\ UNCHANGED <<map, lru, answer, written, puts>>

Next ==
  \/ \E k \in Keys, v \in Values : Put(k, v)
  \/ \E k \in Keys : Get(k)
  \/ Tick

Spec == Init /\ [][Next]_vars

----------------------------------------------------------------------------
(* The type invariant. *)
TypeOK ==
  /\ DOMAIN map \subseteq Keys
  /\ map \in [DOMAIN map -> Entry]
  /\ lru \in Seq(Keys)
  /\ now \in Nat /\ puts \in Nat
  /\ answer \in {<< >>} \cup (Keys \X (Values \cup {None}))
  /\ DOMAIN written \subseteq Keys
  /\ written \in [DOMAIN written -> Write]

(* The map and the deque, which every operation updates separately, hold   *)
(* the same keys, each once: no entry the eviction loop cannot reach, and  *)
(* no dead key in the deque for which it would evict nothing.              *)
SameKeys ==
  /\ \A k \in Keys : k \in DOMAIN map <=> \E i \in 1 .. Len(lru) : lru[i] = k
  /\ \A i, j \in 1 .. Len(lru) : lru[i] = lru[j] => i = j

(* The cache never holds more than max_entries keys. *)
Bounded == MaxEntries > 0 => Cardinality(DOMAIN map) <= MaxEntries

(* The deque is in the order of the last put of each key, so the key       *)
(* evicted is the one put longest ago and the first that would expire.     *)
OldestFirst ==
  \A i, j \in 1 .. Len(lru) : i < j =>
    /\ written[lru[i]].stamp < written[lru[j]].stamp
    /\ map[lru[i]].expires_at <= map[lru[j]].expires_at

(* Put together: to its callers the cache is the map with deadlines of     *)
(* TtlStore, whatever was expired, moved and evicted in between.           *)
Abstract == INSTANCE TtlStore
ImplementsTtlStore == Abstract!Spec
=============================================================================
