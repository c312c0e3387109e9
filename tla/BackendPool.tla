---------------------------- MODULE BackendPool ----------------------------
(***************************************************************************)
(* The list of backends (src/config.rs), the routing configuration, the    *)
(* pool of providers (src/web/provider_pool.rs) and the console handlers   *)
(* that change them (src/web/api.rs), against requests being resolved      *)
(* (src/proxy/openai.rs).                                                  *)
(*                                                                         *)
(* Handlers run on several threads.  A request reads the routing, then the *)
(* backends, then the pool, each under a lock of its own; a console edit   *)
(* changes the backends, then clears the pool.  A backend is its id and    *)
(* ver, which counts the edits of its settings.                            *)
(***************************************************************************)
EXTENDS Routing, FiniteSets

CONSTANTS
  Requests,   \* the requests, one resolution each
  Asks,       \* what a request may ask for
  Consoles,   \* the console pages open
  AtStart,    \* how many backends are loaded at startup
  Routings,   \* the routing configurations a console may save
  MaxEdits    \* bound on the edits of the backends

ASSUME PoolAssumption ==
  /\ AtStart \in Nat /\ MaxEdits \in Nat
  /\ \A to \in Routings : DOMAIN to.rules \subseteq Nat
  /\ NoBackend \notin [id : Nat, ver : Nat]

VARIABLES
  backends,  \* Config::backends
  routing,   \* AppState::routing_config
  counter,   \* AppState::round_robin_counter
  pool,      \* ProviderPool: id -> ver of the settings the provider has
  request,   \* each request: where it is and what it has read
  seen,      \* each console: the ids of the list it shows
  clearing,  \* the consoles whose edit has still to clear the pool
  edits,     \* history: the number of edits
  aim,       \* history: the backend the last edit was aimed at, the one it
             \* hit, and whether the rows above had lost one
  late,      \* history: ids put in the pool from settings no longer current
  share      \* history: how often round-robin chose each backend

vars == <<backends, routing, counter, pool, request, seen, clearing, edits,
          aim, late, share>>

(* Ids are never used twice (Uuid::new_v4); here they are numbers.         *)
Ids == 1 .. AtStart + MaxEdits
Initial == [i \in 1 .. AtStart |-> [id |-> i, ver |-> 0]]

IdsOf(bs) == [i \in DOMAIN bs |-> bs[i].id]
Current(id, ver) == \E i \in DOMAIN backends : backends[i] = [id |-> id, ver |-> ver]

Start == [at |-> "start"]

Init ==
  /\ backends = Initial
  /\ routing \in Routings
  /\ counter = 0
  /\ pool = << >>
  /\ request = [r \in Requests |-> Start]
  /\ seen = [c \in Consoles |-> << >>]
  /\ clearing = {}
  /\ edits = 0
  /\ aim = [at |-> 0, hit |-> 0, lost |-> FALSE]
  /\ late = {}
  /\ share = [id \in Ids |-> 0]

----------------------------------------------------------------------------
(* A request: resolve_backend, then get_or_create *)

ReadRouting(r, ask) ==
  /\ request[r].at = "start"
  /\ request' = [request EXCEPT ![r] =
                   [at |-> "routed", ask |-> ask, routing |-> routing]]
  /\ UNCHANGED <<backends, routing, counter, pool, seen, clearing, edits, aim,
                 late, share>>

\* Variant of NextCount: the counter is read, not advanced.
LoadCount(n) == n

NextCount(n) == n + 1

\* Variant of Choose: None is taken for a backend.
ChooseAny(r) ==
  /\ request[r].at = "routed"
  /\ request' = [request EXCEPT ![r] =
       [at |-> "chosen",
        backend |-> ResolveBackend(backends, @.routing, @.ask, counter)]]
  /\ UNCHANGED <<backends, routing, counter, pool, seen, clearing, edits, aim,
                 late, share>>

(* The backends are read and one is selected; nothing else happens between *)
(* but the ticks of others, which only decide who gets which backend.      *)
Choose(r) ==
  /\ request[r].at = "routed"
  /\ LET ask  == request[r].ask
         by   == request[r].routing
         b    == ResolveBackend(backends, by, ask, counter)
         tick == TakesTick(backends, by, ask)
     IN  /\ counter' = IF tick THEN NextCount(counter) ELSE counter
         /\ share' = IF tick THEN [share EXCEPT ![b.id] = @ + 1] ELSE share
         /\ request' = [request EXCEPT ![r] =
              IF b = NoBackend
              THEN [at |-> "refused", routing |-> by, listed |-> IdsOf(backends)]
              ELSE [at |-> "chosen", backend |-> b]]
  /\ UNCHANGED <<backends, routing, pool, seen, clearing, edits, aim, late>>

(* The provider of the pool, or one made from the settings chosen.         *)
GetOrCreate(r) ==
  /\ request[r].at = "chosen"
  /\ LET b == request[r].backend IN
     IF b.id \in DOMAIN pool
     THEN /\ request' = [request EXCEPT ![r] = [at |-> "served", id |-> b.id,
                                                ver |-> pool[b.id]]]
          /\ UNCHANGED <<pool, late>>
     ELSE /\ request' = [request EXCEPT ![r] = [at |-> "served", id |-> b.id,
                                                ver |-> b.ver]]
          /\ pool' = [id \in DOMAIN pool \cup {b.id} |->
                        IF id = b.id THEN b.ver ELSE pool[id]]
          /\ late' = IF Current(b.id, b.ver) THEN late ELSE late \cup {b.id}
  /\ UNCHANGED <<backends, routing, counter, seen, clearing, edits, aim, share>>

(* create_provider fails and the request gets 500, or the backend's model  *)
(* is written into a body that is not an object and the handler panics:    *)
(* the pool stays as it is.                                                *)
GiveUp(r) ==
  /\ request[r].at = "chosen"
  /\ request' = [request EXCEPT ![r] = [at |-> "failed"]]
  /\ UNCHANGED <<backends, routing, counter, pool, seen, clearing, edits, aim,
                 late, share>>

----------------------------------------------------------------------------
(* A console *)

ListBackends(c) ==
  /\ seen' = [seen EXCEPT ![c] = IdsOf(backends)]
  /\ UNCHANGED <<backends, routing, counter, pool, request, clearing, edits, aim,
                 late, share>>

(* Whether a backend is gone that c shows in row i or above it. *)
LostAbove(c, i) ==
  \E j \in 1 .. i : \A k \in DOMAIN backends : backends[k].id # seen[c][j]

AimAt(c, i) ==
  [at |-> seen[c][i], hit |-> backends[i].id, lost |-> LostAbove(c, i)]

(* Every edit that succeeds counts, and leaves the pool to be cleared.     *)
Edit(c, bs, to) ==
  /\ c \notin clearing
  /\ edits < MaxEdits
  /\ edits' = edits + 1
  /\ backends' = bs
  /\ aim' = to
  /\ clearing' = clearing \cup {c}
  /\ UNCHANGED <<routing, counter, pool, request, seen, late, share>>

\* Variant of UpdateBackend: a save is not followed by a clear.
UpdateOnly(c, i) ==
  /\ i \in DOMAIN seen[c] /\ i \in DOMAIN backends
  /\ c \notin clearing
  /\ edits < MaxEdits
  /\ edits' = edits + 1
  /\ backends' = [backends EXCEPT ![i].ver = edits + 1]
  /\ aim' = AimAt(c, i)
  /\ UNCHANGED <<routing, counter, pool, request, seen, clearing, late, share>>

(* The page sends the index of a row of the list it shows; an index out of *)
(* range changes nothing.                                                  *)
UpdateBackend(c, i) ==
  /\ i \in DOMAIN seen[c] /\ i \in DOMAIN backends
  /\ Edit(c, [backends EXCEPT ![i].ver = edits + 1], AimAt(c, i))

DeleteBackend(c, i) ==
  /\ i \in DOMAIN seen[c] /\ i \in DOMAIN backends
  /\ Edit(c,
          SubSeq(backends, 1, i - 1) \o SubSeq(backends, i + 1, Len(backends)),
          AimAt(c, i))

\* Variant of AddBackend: the new backend comes first.
AddFirst(c) ==
  LET id == AtStart + edits + 1
  IN  Edit(c, <<[id |-> id, ver |-> edits + 1]>> \o backends,
           [at |-> id, hit |-> id, lost |-> FALSE])

AddBackend(c) ==
  LET id == AtStart + edits + 1
  IN  Edit(c, Append(backends, [id |-> id, ver |-> edits + 1]),
           [at |-> id, hit |-> id, lost |-> FALSE])

ClearPool(c) ==
  /\ c \in clearing
  /\ clearing' = clearing \ {c}
  /\ pool' = << >>
  /\ late' = {}
  /\ UNCHANGED <<backends, routing, counter, request, seen, edits, aim, share>>

UpdateRouting(c, to) ==
  /\ c \notin clearing
  /\ to # routing
  /\ routing' = to
  /\ UNCHANGED <<backends, counter, pool, request, seen, clearing, edits, aim,
                 late, share>>

Next ==
  \/ \E r \in Requests :
       \/ \E ask \in Asks : ReadRouting(r, ask)
       \/ Choose(r) \/ GetOrCreate(r) \/ GiveUp(r)
  \/ \E c \in Consoles :
       \/ ListBackends(c) \/ AddBackend(c) \/ ClearPool(c)
       \/ \E i \in DOMAIN seen[c] : UpdateBackend(c, i) \/ DeleteBackend(c, i)
       \/ \E to \in Routings : UpdateRouting(c, to)

Spec == Init /\ [][Next]_vars

----------------------------------------------------------------------------
Versions == 0 .. MaxEdits
Backend == [id : Ids, ver : Versions]

Places ==
  {Start}
  \cup [at : {"routed"}, ask : Asks, routing : Routings]
  \cup [at : {"chosen"}, backend : Backend]
  \cup [at : {"served"}, id : Ids, ver : Versions]
  \cup [at : {"refused"}, routing : Routings, listed : Seq(Ids)]
  \cup [at : {"failed"}]

(* The type invariant. *)
TypeOK ==
  /\ backends \in Seq(Backend)
  /\ routing \in Routings
  /\ counter \in Nat
  /\ DOMAIN pool \subseteq Ids /\ pool \in [DOMAIN pool -> Versions]
  /\ request \in [Requests -> Places]
  /\ seen \in [Consoles -> Seq(Ids)]
  /\ clearing \subseteq Consoles
  /\ edits \in Versions
  /\ aim \in [at : Ids \cup {0}, hit : Ids \cup {0}, lost : BOOLEAN]
  /\ late \subseteq Ids
  /\ share \in [Ids -> Nat]

(* A provider in the pool has the settings its backend has now, unless an  *)
(* edit has still to clear the pool or a request resolved before the edit  *)
(* put it there afterwards.                                                *)
StaleOnlyIfLate ==
  \A id \in DOMAIN pool :
    Current(id, pool[id]) \/ clearing # {} \/ id \in late

(* Round-robin is fair: while the list stays as it is, the numbers of      *)
(* times any two backends were chosen in turn differ by at most one,       *)
(* whatever the rules, the other strategies and the threads in between.    *)
RoundRobinFair ==
  edits = 0 =>
    \A i, j \in DOMAIN backends :
      share[backends[i].id] <= share[backends[j].id] + 1

(* provider_pool.rs says the pool is cleared when backends are changed so  *)
(* that updated settings take effect: once every edit has cleared the pool *)
(* and no request is half-way, every provider has its backend's settings.  *)
EditsTakeEffect ==
  clearing = {} /\ (\A r \in Requests : request[r].at # "chosen") =>
    \A id \in DOMAIN pool :
      (\E i \in DOMAIN backends : backends[i].id = id) => Current(id, pool[id])

(* No rule refuses a request, whatever is deleted between the reading of   *)
(* the routing and of the backends: a request is refused only if there is  *)
(* no backend, or if its default is pinned to one that is not there.       *)
RefusedByDefaultOnly ==
  \A r \in Requests : request[r].at = "refused" =>
    LET default == request[r].routing.default
        listed  == request[r].listed
    IN  \/ listed = << >>
        \/ /\ default.strategy = "specific"
           /\ \A i \in DOMAIN listed : listed[i] # default.id

(* Backends are addressed by the row a page shows: an edit hits another    *)
(* backend than the one in its row only if a backend shown above it or in  *)
(* it is gone since the page loaded its list.                              *)
EditsMissOnlyAfterLoss == aim.at # aim.hit => aim.lost
=============================================================================
