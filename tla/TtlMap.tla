------------------------------- MODULE TtlMap -------------------------------
(***************************************************************************)
(* What a caller of src/cache/lru_ttl.rs can rely on, as operators on the  *)
(* writes w of a store: a function from each key to its last write.  A     *)
(* lookup finds the last value put under its key, unless that was put Ttl  *)
(* ago or longer, or MaxEntries other keys were put since.                 *)
(***************************************************************************)
EXTENDS Integers, FiniteSets

CONSTANTS
  None,        \* the None of Option<V>
  MaxEntries,  \* max_entries; 0 means no limit
  Ttl          \* ttl

Write(w, k, v, t, n) ==
  [j \in DOMAIN w \cup {k} |->
     IF j = k THEN [value |-> v, expires_at |-> t + Ttl, stamp |-> n] ELSE w[j]]

NewerIn(w, k) == {j \in DOMAIN w : w[j].stamp > w[k].stamp}

Alive(w, k, t) ==
  /\ k \in DOMAIN w
  /\ t < w[k].expires_at
  /\ MaxEntries > 0 => Cardinality(NewerIn(w, k)) < MaxEntries

Lookup(w, k, t) == IF Alive(w, k, t) THEN w[k].value ELSE None
=============================================================================
