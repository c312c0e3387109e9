------------------------- MODULE MCGeminiSignatures -------------------------
(* Three instances in one, so that one run checks the properties of all:   *)
(* Crowd, where two conversations share a cache of two entries that live   *)
(* a tick; Apart, where they are routed to two backends and the pool is    *)
(* cleared; and Alone, where one conversation gets every text of a few     *)
(* deltas, with blocks of thoughts that end in another delta or never and  *)
(* lines that begin with SIGID:.  Each gives bounds below those of the     *)
(* configuration to what the other two are about.                          *)
EXTENDS GeminiSignatures, TLC

CONSTANT call

Written ==
  { << >>, <<Text("text")>>, <<Text("open")>>, <<Text("close"), Text("text")>>,
    <<Text("plain"), Text("nl"), Text("text")>> }

\* Up to n deltas, each a call or a piece of text.
Plain(r, n) ==
  /\ r.deltas <= n
  /\ r.wrote = [i \in 1 .. r.deltas - Len(r.calls) |-> Text("text")]

AllPlain(n) ==
  \A c \in Convs :
    /\ where[c].at = "answering" => Plain(where[c].reply, n)
    /\ \A i \in DOMAIN replies[c] : Plain(replies[c][i], n)

OneProvider ==
  \A p, q \in Providers :
    /\ caches[p] # << >> /\ caches[q] # << >> => p = q
    /\ \A c \in Convs : caches[p] # << >> /\ where[c] # Idle => where[c].prov = p

OneConv == \E c \in Convs : \A d \in Convs \ {c} : replies[d] = << >> /\ where[d] = Idle

Crowd == clears = 0 /\ AllPlain(2) /\ OneProvider
Apart == now = 0 /\ Len(origin) <= 3 /\ AllPlain(1)
Alone == now = 0 /\ clears = 0 /\ OneConv /\ OneProvider

Instances == Alone \/ Apart \/ Crowd

Symmetry == Permutations(Convs) \cup Permutations(Backends)
=============================================================================
