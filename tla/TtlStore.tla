------------------------------ MODULE TtlStore ------------------------------
(***************************************************************************)
(* The abstract specification of src/cache/lru_ttl.rs: a store without the *)
(* deque, the removals and the evictions.  LruTtlCache is shown to         *)
(* implement it.                                                           *)
(***************************************************************************)
EXTENDS TtlMap

CONSTANTS
  Keys,    \* K
  Values,  \* V
  MaxNow,  \* bound on the clock
  MaxPuts  \* bound on the number of puts

VARIABLES
  written,  \* the last write of each key
  now,      \* the clock
  answer,   \* the key the last get was for, and what it returned
  puts      \* the number of puts

vars == <<written, now, answer, puts>>

Init ==
  /\ written = << >>
  /\ now = 0
  /\ answer = << >>
  /\ puts = 0

Put(k, v) ==
  /\ puts < MaxPuts
  /\ puts' = puts + 1
  /\ written' = Write(written, k, v, now, puts')
  /\ UNCHANGED <<now, answer>>

Get(k) ==
  /\ answer' = <<k, Lookup(written, k, now)>>
  /\ UNCHANGED <<written, now, puts>>

Tick ==
  /\ now < MaxNow
  /\ now' = now + 1
  /\ UNCHANGED <<written, answer, puts>>

Next ==
  \/ \E k \in Keys, v \in Values : Put(k, v)
  \/ \E k \in Keys : Get(k)
  \/ Tick

Spec == Init /\ [][Next]_vars
=============================================================================
