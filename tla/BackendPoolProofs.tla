------------------------- MODULE BackendPoolProofs -------------------------
(***************************************************************************)
(* Proofs about BackendPool, for any number of requests, consoles,         *)
(* backends and edits, and any rules.                                      *)
(***************************************************************************)
EXTENDS BackendPool, CommonFacts, SequenceTheorems, TLAPS

(* First chooses the least element. *)
LEMMA FirstIsLeast ==
  ASSUME NEW I \in SUBSET Nat, I # {}
  PROVE  First(I) \in I /\ \A j \in I : First(I) <= j
BY LeastOf DEF First

(* What a selection gives is a backend of the list, or none for a target   *)
(* pinned to a backend that is not there.                                  *)
LEMMA Selected ==
  ASSUME NEW bs \in Seq(Backend), bs # << >>, NEW target, NEW n \in Nat
  PROVE  LET b == SelectBackend(bs, target, n) IN
         /\ target.strategy = "round_robin" =>
              (n % Len(bs)) + 1 \in DOMAIN bs /\ b = bs[(n % Len(bs)) + 1]
         /\ \/ b \in Backend
            \/ b = NoBackend /\ target.strategy = "specific" /\ ~ Serves(bs, target)
<1>1. Len(bs) \in Nat \ {0} /\ DOMAIN bs = 1 .. Len(bs)
  BY LenProperties, EmptySeq
<1>2. \A i \in 1 .. Len(bs) : bs[i] \in Backend
  BY <1>1, ElementOfSeq
<1>3. (n % Len(bs)) + 1 \in DOMAIN bs
  <2>1. n % Len(bs) \in 0 .. Len(bs) - 1
    BY <1>1, ModStep
  <2>2. QED
    BY <1>1, <2>1
<1>4. CASE target.strategy = "round_robin"
  BY <1>1, <1>2, <1>3, <1>4 DEF SelectBackend
<1>5. CASE target.strategy = "specific" /\ target.id # NoId
  <2>1. CASE Serves(bs, target)
    <3>1. Named(bs, target.id) # {} /\ Named(bs, target.id) \in SUBSET Nat
      BY <1>1, <1>5, <2>1 DEF Serves, Named
    <3>2. First(Named(bs, target.id)) \in 1 .. Len(bs)
      BY <1>1, <3>1, FirstIsLeast DEF Named
    <3>3. SelectBackend(bs, target, n) = bs[First(Named(bs, target.id))]
      BY <1>5, <2>1 DEF SelectBackend
    <3>4. QED
      BY <1>2, <1>5, <3>2, <3>3
  <2>2. CASE ~ Serves(bs, target)
    BY <1>5, <2>2 DEF SelectBackend
  <2>3. QED
    BY <2>1, <2>2
<1>6. CASE /\ target.strategy # "round_robin"
           /\ ~ (target.strategy = "specific" /\ target.id # NoId)
  <2>1. SelectBackend(bs, target, n) = bs[1]
    BY <1>6 DEF SelectBackend
  <2>2. QED
    BY <1>1, <1>2, <1>6, <2>1
<1>7. QED
  BY <1>4, <1>5, <1>6

----------------------------------------------------------------------------
(* Types *)

(* The list of backends, read as a sequence.                               *)
LEMMA ListFacts ==
  ASSUME TypeOK
  PROVE  /\ Len(backends) \in Nat /\ DOMAIN backends = 1 .. Len(backends)
         /\ \A i \in DOMAIN backends :
              /\ backends[i] \in Backend
              /\ backends[i].id \in Ids /\ backends[i].ver \in Versions
         /\ \A c \in Consoles :
              /\ Len(seen[c]) \in Nat /\ DOMAIN seen[c] = 1 .. Len(seen[c])
              /\ \A i \in DOMAIN seen[c] : seen[c][i] \in Ids
         /\ IdsOf(backends) \in Seq(Ids)
<1>1. backends \in Seq(Backend) /\ seen \in [Consoles -> Seq(Ids)]
  BY DEF TypeOK
<1>2. Len(backends) \in Nat /\ DOMAIN backends = 1 .. Len(backends)
  BY <1>1, LenProperties
<1>3. \A i \in DOMAIN backends : backends[i] \in Backend
  BY <1>1, <1>2, ElementOfSeq
<1>4. \A i \in DOMAIN backends : backends[i].id \in Ids /\ backends[i].ver \in Versions
  BY <1>3 DEF Backend
<1>5. \A c \in Consoles :
        /\ Len(seen[c]) \in Nat /\ DOMAIN seen[c] = 1 .. Len(seen[c])
        /\ \A i \in DOMAIN seen[c] : seen[c][i] \in Ids
  <2>1. TAKE c \in Consoles
  <2>2. seen[c] \in Seq(Ids)
    BY <1>1
  <2>3. Len(seen[c]) \in Nat /\ DOMAIN seen[c] = 1 .. Len(seen[c])
    BY <2>2, LenProperties
  <2>4. QED
    BY <2>2, <2>3, ElementOfSeq
<1>6. IdsOf(backends) \in Seq(Ids)
  <2>1. IdsOf(backends) = [i \in 1 .. Len(backends) |-> backends[i].id]
    BY <1>2 DEF IdsOf
  <2>2. QED
    BY <1>2, <1>4, <2>1, IsASeq
<1>7. QED
  BY <1>2, <1>3, <1>4, <1>5, <1>6

(* What a request may be turns into what it may be. *)
LEMMA Placed ==
  ASSUME TypeOK, NEW r \in Requests, NEW p \in Places,
         request' = [request EXCEPT ![r] = p]
  PROVE  request' \in [Requests -> Places]
BY DEF TypeOK

(* What a request carries at each place it can be at.                      *)
LEMMA PlaceFacts ==
  ASSUME TypeOK, NEW r \in Requests
  PROVE  /\ request[r].at = "routed" =>
              request[r].ask \in Asks /\ request[r].routing \in Routings
         /\ request[r].at = "chosen" => request[r].backend \in Backend
         /\ request[r].at = "refused" =>
              request[r].routing \in Routings /\ request[r].listed \in Seq(Ids)
<1>1. request[r] \in Places
  BY DEF TypeOK
<1>2. QED
  BY <1>1 DEF Places, Start

(* Each of the steps keeps the types.  First those of a console.           *)
LEMMA EditType ==
  ASSUME TypeOK, NEW c \in Consoles, NEW bs \in Seq(Backend),
         NEW to \in [at : Ids \cup {0}, hit : Ids \cup {0}, lost : BOOLEAN],
         Edit(c, bs, to)
  PROVE  TypeOK'
BY PoolAssumption DEF Edit, TypeOK, Versions

(* The lists the three edits leave. *)
LEMMA EditedLists ==
  ASSUME TypeOK, edits < MaxEdits
  PROVE  /\ edits + 1 \in Versions
         /\ AtStart + edits + 1 \in Ids
         /\ Append(backends, [id |-> AtStart + edits + 1, ver |-> edits + 1])
              \in Seq(Backend)
         /\ \A i \in DOMAIN backends :
              /\ [backends EXCEPT ![i].ver = edits + 1] \in Seq(Backend)
              /\ SubSeq(backends, 1, i - 1) \o SubSeq(backends, i + 1, Len(backends))
                    \in Seq(Backend)
<1>1. edits + 1 \in Versions /\ AtStart + edits + 1 \in Ids
  BY PoolAssumption DEF TypeOK, Versions, Ids
<1>2. backends \in Seq(Backend)
  BY DEF TypeOK
<1>3. [id |-> AtStart + edits + 1, ver |-> edits + 1] \in Backend
  BY <1>1 DEF Backend
<1>4. Append(backends, [id |-> AtStart + edits + 1, ver |-> edits + 1]) \in Seq(Backend)
  BY <1>2, <1>3, AppendProperties
<1>5. ASSUME NEW i \in DOMAIN backends
      PROVE  [backends EXCEPT ![i].ver = edits + 1] \in Seq(Backend)
  <2>1. [backends[i] EXCEPT !.ver = edits + 1] \in Backend
    BY <1>1, <1>5, ListFacts DEF Backend
  <2>2. QED
    BY <1>2, <1>5, <2>1, ExceptSeq
<1>6. ASSUME NEW i \in DOMAIN backends
      PROVE  SubSeq(backends, 1, i - 1) \o SubSeq(backends, i + 1, Len(backends))
               \in Seq(Backend)
  <2>1. i \in 1 .. Len(backends) /\ Len(backends) \in Nat
    BY <1>6, ListFacts
  <2>2. SubSeq(backends, 1, i - 1) \in Seq(Backend)
    BY <1>2, <2>1, SubSeqProperties
  <2>3. SubSeq(backends, i + 1, Len(backends)) \in Seq(Backend)
    BY <1>2, <2>1, SubSeqProperties
  <2>4. QED
    BY <2>2, <2>3, ConcatProperties
<1>7. QED
  BY <1>1, <1>4, <1>5, <1>6

(* What resolve_backend gives: a backend, and with a tick of the counter   *)
(* the one whose turn it is; or none, if the list is empty or the default  *)
(* is pinned to a backend that is not there.                               *)
LEMMA Resolved ==
  ASSUME TypeOK, NEW by \in Routings, NEW ask
  PROVE  LET b == ResolveBackend(backends, by, ask, counter)
             turn == (counter % Len(backends)) + 1
         IN  /\ b # NoBackend => b \in Backend
             /\ TakesTick(backends, by, ask) =>
                  turn \in DOMAIN backends /\ b = backends[turn] /\ b \in Backend
             /\ b = NoBackend =>
                  \/ backends = << >>
                  \/ /\ by.default.strategy = "specific"
                     /\ \A i \in DOMAIN backends : backends[i].id # by.default.id
<1> DEFINE b == ResolveBackend(backends, by, ask, counter)
           target == Deciding(backends, by, ask)
<1>1. backends \in Seq(Backend) /\ counter \in Nat
  BY DEF TypeOK
<1>2. CASE backends = << >>
  BY <1>2 DEF ResolveBackend, TakesTick
<1>3. CASE backends # << >>
  <2>1. b = SelectBackend(backends, target, counter)
    BY <1>3 DEF ResolveBackend
  <2>2. /\ target.strategy = "round_robin" =>
             /\ (counter % Len(backends)) + 1 \in DOMAIN backends
             /\ b = backends[(counter % Len(backends)) + 1]
        /\ \/ b \in Backend
           \/ b = NoBackend /\ target.strategy = "specific" /\ ~ Serves(backends, target)
    BY <1>1, <1>3, <2>1, Selected
  <2>3. NoBackend \notin Backend
    BY PoolAssumption DEF Backend, Ids, Versions
  <2>4. ASSUME ~ Serves(backends, target)
        PROVE  target = by.default
    <3> DEFINE hits == {i \in DOMAIN by.rules :
                          /\ Matches(by.rules[i], ask)
                          /\ Serves(backends, by.rules[i].target)}
    <3>1. ASSUME hits # {} PROVE FALSE
      <4>1. hits \in SUBSET Nat
        BY PoolAssumption
      <4>2. First(hits) \in hits
        BY <3>1, <4>1, FirstIsLeast
      <4>3. target = by.rules[First(hits)].target
        BY <3>1 DEF Deciding
      <4>4. QED
        BY <2>4, <4>2, <4>3
    <3>2. QED
      BY <3>1 DEF Deciding
  <2>5. ~ Serves(backends, target) =>
          \A i \in DOMAIN backends : backends[i].id # target.id
    BY DEF Serves, Named
  <2>6. TakesTick(backends, by, ask) => target.strategy = "round_robin"
    BY DEF TakesTick
  <2>7. TakesTick(backends, by, ask) => b \in Backend
    BY <2>2, <2>6, ListFacts
  <2>8. b = NoBackend =>
          /\ by.default.strategy = "specific"
          /\ \A i \in DOMAIN backends : backends[i].id # by.default.id
    BY <2>2, <2>3, <2>4, <2>5
  <2>9. QED
    BY <2>2, <2>6, <2>7, <2>8
<1>4. QED
  BY <1>2, <1>3

(* Those of a request.                                                     *)
LEMMA ChooseType ==
  ASSUME TypeOK, NEW r \in Requests, Choose(r)
  PROVE  TypeOK'
<1> DEFINE by == request[r].routing
           ask == request[r].ask
           b == ResolveBackend(backends, by, ask, counter)
<1>1. by \in Routings
  BY PlaceFacts DEF Choose
<1>2. /\ b # NoBackend => b \in Backend
      /\ TakesTick(backends, by, ask) => b \in Backend
  BY <1>1, Resolved
<1>3. counter' \in Nat
  BY DEF Choose, NextCount, TypeOK
<1>4. share' \in [Ids -> Nat]
  <2>1. CASE TakesTick(backends, by, ask)
    <3>1. share' = [share EXCEPT ![b.id] = @ + 1] /\ b.id \in Ids
      BY <1>2, <2>1 DEF Choose, Backend
    <3>2. QED
      BY <3>1 DEF TypeOK
  <2>2. CASE ~ TakesTick(backends, by, ask)
    BY <2>2 DEF Choose, TypeOK
  <2>3. QED
    BY <2>1, <2>2
<1>5. request' \in [Requests -> Places]
  <2>1. CASE b = NoBackend
    <3>1. request' = [request EXCEPT ![r] =
             [at |-> "refused", routing |-> by, listed |-> IdsOf(backends)]]
      BY <2>1 DEF Choose
    <3>2. [at |-> "refused", routing |-> by, listed |-> IdsOf(backends)] \in Places
      BY <1>1, ListFacts DEF Places
    <3>3. QED
      BY <3>1, <3>2, Placed
  <2>2. CASE b # NoBackend
    <3>1. request' = [request EXCEPT ![r] = [at |-> "chosen", backend |-> b]]
      BY <2>2 DEF Choose
    <3>2. [at |-> "chosen", backend |-> b] \in Places
      BY <1>2, <2>2 DEF Places
    <3>3. QED
      BY <3>1, <3>2, Placed
  <2>3. QED
    BY <2>1, <2>2
<1>6. QED
  BY <1>3, <1>4, <1>5 DEF Choose, TypeOK

(* The provider it gets has a version that was current once.               *)
LEMMA GetOrCreateType ==
  ASSUME TypeOK, NEW r \in Requests, GetOrCreate(r)
  PROVE  TypeOK'
<1> DEFINE b == request[r].backend
<1>1. b \in Backend /\ b.id \in Ids /\ b.ver \in Versions
  BY PlaceFacts DEF GetOrCreate, Backend
<1>2. CASE b.id \in DOMAIN pool
  <2>1. /\ request' = [request EXCEPT ![r] =
                         [at |-> "served", id |-> b.id, ver |-> pool[b.id]]]
        /\ UNCHANGED <<pool, late>>
    BY <1>2 DEF GetOrCreate
  <2>2. pool[b.id] \in Versions
    BY <1>2 DEF TypeOK
  <2>3. [at |-> "served", id |-> b.id, ver |-> pool[b.id]] \in Places
    BY <1>1, <2>2 DEF Places
  <2>4. request' \in [Requests -> Places]
    BY <2>1, <2>3, Placed
  <2>5. QED
    BY <2>1, <2>4 DEF GetOrCreate, TypeOK
<1>3. CASE b.id \notin DOMAIN pool
  <2>1. /\ request' = [request EXCEPT ![r] =
                         [at |-> "served", id |-> b.id, ver |-> b.ver]]
        /\ pool' = [id \in DOMAIN pool \cup {b.id} |->
                      IF id = b.id THEN b.ver ELSE pool[id]]
        /\ late' = IF Current(b.id, b.ver) THEN late ELSE late \cup {b.id}
    BY <1>3 DEF GetOrCreate
  <2>2. [at |-> "served", id |-> b.id, ver |-> b.ver] \in Places
    BY <1>1 DEF Places
  <2>3. request' \in [Requests -> Places]
    BY <2>1, <2>2, Placed
  <2>4. DOMAIN pool' \subseteq Ids /\ pool' \in [DOMAIN pool' -> Versions]
    BY <1>1, <2>1 DEF TypeOK
  <2>5. late' \subseteq Ids
    BY <1>1, <2>1 DEF TypeOK
  <2>6. QED
    BY <2>3, <2>4, <2>5 DEF GetOrCreate, TypeOK
<1>4. QED
  BY <1>2, <1>3

(* The steps of a request that look nothing up.                            *)
LEMMA RequestType ==
  ASSUME TypeOK, NEW r \in Requests,
         (\E ask \in Asks : ReadRouting(r, ask)) \/ GiveUp(r)
  PROVE  TypeOK'
<1>1. CASE \E ask \in Asks : ReadRouting(r, ask)
  <2>1. PICK ask \in Asks : ReadRouting(r, ask)
    BY <1>1
  <2>2. request' = [request EXCEPT ![r] =
                      [at |-> "routed", ask |-> ask, routing |-> routing]]
    BY <2>1 DEF ReadRouting
  <2>3. [at |-> "routed", ask |-> ask, routing |-> routing] \in Places
    BY DEF TypeOK, Places
  <2>4. request' \in [Requests -> Places]
    BY <2>2, <2>3, Placed
  <2>5. QED
    BY <2>1, <2>4 DEF ReadRouting, TypeOK
<1>2. CASE GiveUp(r)
  <2>1. request' = [request EXCEPT ![r] = [at |-> "failed"]]
    BY <1>2 DEF GiveUp
  <2>2. [at |-> "failed"] \in Places
    BY DEF Places
  <2>3. request' \in [Requests -> Places]
    BY <2>1, <2>2, Placed
  <2>4. QED
    BY <1>2, <2>3 DEF GiveUp, TypeOK
<1>3. QED
  BY <1>1, <1>2

(* The backend an edit means and the one it hits are backends.             *)
LEMMA AimFacts ==
  ASSUME TypeOK, NEW c \in Consoles, NEW i \in DOMAIN seen[c], i \in DOMAIN backends
  PROVE  AimAt(c, i) \in [at : Ids \cup {0}, hit : Ids \cup {0}, lost : BOOLEAN]
<1>1. seen[c][i] \in Ids /\ backends[i].id \in Ids
  BY ListFacts
<1>2. LostAbove(c, i) \in BOOLEAN
  BY DEF LostAbove
<1>3. QED
  BY <1>1, <1>2 DEF AimAt

(* All steps of a console.                                                 *)
LEMMA ConsoleType ==
  ASSUME TypeOK, NEW c \in Consoles,
         \/ ListBackends(c) \/ AddBackend(c) \/ ClearPool(c)
         \/ \E i \in DOMAIN seen[c] : UpdateBackend(c, i) \/ DeleteBackend(c, i)
         \/ \E to \in Routings : UpdateRouting(c, to)
  PROVE  TypeOK'
<1>1. CASE ListBackends(c)
  <2>1. seen' \in [Consoles -> Seq(Ids)]
    BY <1>1, ListFacts DEF ListBackends, TypeOK
  <2>2. QED
    BY <1>1, <2>1 DEF ListBackends, TypeOK
<1>2. CASE AddBackend(c)
  <2> DEFINE id == AtStart + edits + 1
             bs == Append(backends, [id |-> id, ver |-> edits + 1])
             to == [at |-> id, hit |-> id, lost |-> FALSE]
  <2>1. Edit(c, bs, to)
    BY <1>2 DEF AddBackend
  <2>2. bs \in Seq(Backend) /\ id \in Ids
    BY <2>1, EditedLists DEF Edit
  <2>3. to \in [at : Ids \cup {0}, hit : Ids \cup {0}, lost : BOOLEAN]
    BY <2>2
  <2> HIDE DEF bs, to
  <2>4. QED
    BY <2>1, <2>2, <2>3, EditType
<1>3. CASE ClearPool(c)
  <2>1. DOMAIN pool' \subseteq Ids /\ pool' \in [DOMAIN pool' -> Versions]
    BY <1>3 DEF ClearPool
  <2>2. QED
    BY <1>3, <2>1 DEF ClearPool, TypeOK
<1>4. ASSUME NEW i \in DOMAIN seen[c], UpdateBackend(c, i) \/ DeleteBackend(c, i)
      PROVE  TypeOK'
  <2>1. i \in DOMAIN backends
    BY <1>4 DEF UpdateBackend, DeleteBackend
  <2>2. AimAt(c, i) \in [at : Ids \cup {0}, hit : Ids \cup {0}, lost : BOOLEAN]
    BY <2>1, AimFacts
  <2>3. PICK bs \in Seq(Backend) : Edit(c, bs, AimAt(c, i))
    BY <1>4, <2>1, EditedLists DEF UpdateBackend, DeleteBackend, Edit
  <2>4. QED
    BY <2>2, <2>3, EditType
<1>5. ASSUME NEW to \in Routings, UpdateRouting(c, to)
      PROVE  TypeOK'
  BY <1>5 DEF UpdateRouting, TypeOK
<1>6. QED
  BY <1>1, <1>2, <1>3, <1>4, <1>5

LEMMA NextType == TypeOK /\ [Next]_vars => TypeOK'
<1> SUFFICES ASSUME TypeOK, [Next]_vars PROVE TypeOK'
  OBVIOUS
<1>1. CASE UNCHANGED vars
  BY <1>1 DEF vars, TypeOK, Current
<1>2. CASE Next
  BY <1>2, RequestType, ChooseType, GetOrCreateType, ConsoleType DEF Next
<1>3. QED
  BY <1>1, <1>2

LEMMA InitType == Init => TypeOK
<1> SUFFICES ASSUME Init PROVE TypeOK
  OBVIOUS
<1>1. Initial \in Seq(Backend)
  <2>1. \A i \in 1 .. AtStart : [id |-> i, ver |-> 0] \in Backend
    BY PoolAssumption DEF Backend, Ids, Versions
  <2>2. QED
    BY <2>1, PoolAssumption, IsASeq DEF Initial
<1>2. request \in [Requests -> Places]
  BY DEF Init, Places
<1>3. seen \in [Consoles -> Seq(Ids)]
  <2>1. << >> \in Seq(Ids)
    BY EmptySeq
  <2>2. QED
    BY <2>1 DEF Init
<1>4. DOMAIN pool \subseteq Ids /\ pool \in [DOMAIN pool -> Versions]
  BY DEF Init
<1>5. QED
  BY <1>1, <1>2, <1>3, <1>4, PoolAssumption DEF Init, TypeOK, Versions

(* Whatever threads and consoles do, the state has its types. *)
THEOREM PoolTypes == Spec => []TypeOK
<1>1. QED
  BY InitType, NextType, PTL DEF Spec

----------------------------------------------------------------------------
(* Stale providers *)

LEMMA NextStale == StaleOnlyIfLate /\ [Next]_vars => StaleOnlyIfLate'
<1> SUFFICES ASSUME StaleOnlyIfLate, [Next]_vars PROVE StaleOnlyIfLate'
  OBVIOUS
<1>1. ASSUME UNCHANGED <<backends, pool, clearing, late>>
      PROVE  StaleOnlyIfLate'
  BY <1>1 DEF StaleOnlyIfLate, Current
<1>2. ASSUME NEW r \in Requests, GetOrCreate(r)
      PROVE  StaleOnlyIfLate'
  <2> DEFINE b == request[r].backend
  <2>1. CASE b.id \in DOMAIN pool
    <3>1. UNCHANGED <<backends, pool, clearing, late>>
      BY <1>2, <2>1 DEF GetOrCreate
    <3>2. QED
      BY <1>1, <3>1
  <2>2. CASE b.id \notin DOMAIN pool
    <3>1. /\ pool' = [id \in DOMAIN pool \cup {b.id} |->
                        IF id = b.id THEN b.ver ELSE pool[id]]
          /\ late' = IF Current(b.id, b.ver) THEN late ELSE late \cup {b.id}
          /\ UNCHANGED <<backends, clearing>>
      BY <1>2, <2>2 DEF GetOrCreate
    <3>2. \A id, v : Current(id, v)' <=> Current(id, v)
      BY <3>1 DEF Current
    <3>3. DOMAIN pool' = DOMAIN pool \cup {b.id} /\ late \subseteq late'
      BY <3>1
    <3>4. pool'[b.id] = b.ver /\ (Current(b.id, b.ver) \/ b.id \in late')
      BY <3>1
    <3>5. \A id \in DOMAIN pool : pool'[id] = pool[id]
      BY <2>2, <3>1
    <3>6. QED
      BY <3>1, <3>2, <3>3, <3>4, <3>5 DEF StaleOnlyIfLate
  <2>3. QED
    BY <2>1, <2>2
<1>3. ASSUME NEW c \in Consoles, NEW bs, NEW to, Edit(c, bs, to)
      PROVE  StaleOnlyIfLate'
  BY <1>3 DEF Edit, StaleOnlyIfLate
<1>4. ASSUME NEW c \in Consoles, ClearPool(c)
      PROVE  StaleOnlyIfLate'
  BY <1>4 DEF ClearPool, StaleOnlyIfLate
<1>5. CASE UNCHANGED vars
  BY <1>1, <1>5 DEF vars
<1>6. ASSUME NEW r \in Requests,
             (\E ask \in Asks : ReadRouting(r, ask)) \/ Choose(r) \/ GiveUp(r)
      PROVE  StaleOnlyIfLate'
  BY <1>1, <1>6 DEF ReadRouting, Choose, GiveUp
<1>7. ASSUME NEW c \in Consoles,
             ListBackends(c) \/ \E to \in Routings : UpdateRouting(c, to)
      PROVE  StaleOnlyIfLate'
  BY <1>1, <1>7 DEF ListBackends, UpdateRouting
<1>8. ASSUME NEW c \in Consoles,
             \/ AddBackend(c)
             \/ \E i \in DOMAIN seen[c] : UpdateBackend(c, i) \/ DeleteBackend(c, i)
      PROVE  StaleOnlyIfLate'
  BY <1>3, <1>8 DEF AddBackend, UpdateBackend, DeleteBackend
<1>9. QED
  BY <1>2, <1>4, <1>5, <1>6, <1>7, <1>8 DEF Next

(* A provider with settings of the past is in the pool only until the      *)
(* clear that follows an edit, or because a request that had resolved its  *)
(* backend before put it there afterwards.                                 *)
THEOREM StaleWhileClearing == Spec => []StaleOnlyIfLate
<1>1. Init => StaleOnlyIfLate
  BY DEF Init, StaleOnlyIfLate
<1>2. QED
  BY <1>1, NextStale, PTL DEF Spec

----------------------------------------------------------------------------
(* Refusals *)

(* RefusedByDefaultOnly is inductive, given the types.                     *)
LEMMA NextRefused ==
  TypeOK /\ RefusedByDefaultOnly /\ [Next]_vars => RefusedByDefaultOnly'
<1> SUFFICES ASSUME TypeOK, RefusedByDefaultOnly, [Next]_vars
             PROVE  RefusedByDefaultOnly'
  OBVIOUS
<1>1. ASSUME UNCHANGED request PROVE RefusedByDefaultOnly'
  BY <1>1 DEF RefusedByDefaultOnly
<1>2. ASSUME NEW r \in Requests, NEW p, p.at # "refused",
             request' = [request EXCEPT ![r] = p]
      PROVE  RefusedByDefaultOnly'
  BY <1>2 DEF RefusedByDefaultOnly, TypeOK
<1>3. ASSUME NEW r \in Requests, Choose(r)
      PROVE  RefusedByDefaultOnly'
  <2> DEFINE by == request[r].routing
             ask == request[r].ask
             b == ResolveBackend(backends, by, ask, counter)
             p == [at |-> "refused", routing |-> by, listed |-> IdsOf(backends)]
  <2>1. by \in Routings
    BY <1>3, PlaceFacts DEF Choose
  <2>2. CASE b = NoBackend
    <3>1. request' = [request EXCEPT ![r] = p]
      BY <1>3, <2>2 DEF Choose
    <3>2. \/ backends = << >>
          \/ /\ by.default.strategy = "specific"
             /\ \A i \in DOMAIN backends : backends[i].id # by.default.id
      BY <2>1, <2>2, Resolved
    <3>3. \/ p.listed = << >>
          \/ /\ p.routing.default.strategy = "specific"
             /\ \A i \in DOMAIN p.listed : p.listed[i] # p.routing.default.id
      <4>1. CASE backends = << >>
        <5>1. DOMAIN backends = {}
          BY <4>1
        <5>2. p.listed \in Seq(Ids) /\ DOMAIN p.listed = {}
          BY <5>1, ListFacts DEF IdsOf
        <5>3. Len(p.listed) = 0
          BY <5>2, LenProperties
        <5>4. QED
          BY <5>2, <5>3, EmptySeq
      <4>2. CASE backends # << >>
        BY <3>2, <4>2 DEF IdsOf
      <4>3. QED
        BY <4>1, <4>2
    <3>4. \A q \in Requests : request'[q] = IF q = r THEN p ELSE request[q]
      BY <3>1 DEF TypeOK
    <3> HIDE DEF p
    <3>5. QED
      BY <3>3, <3>4 DEF RefusedByDefaultOnly
  <2>3. CASE b # NoBackend
    <3>1. request' = [request EXCEPT ![r] = [at |-> "chosen", backend |-> b]]
      BY <1>3, <2>3 DEF Choose
    <3>2. QED
      BY <1>2, <3>1
  <2>4. QED
    BY <2>2, <2>3
<1>4. ASSUME NEW r \in Requests,
             (\E ask \in Asks : ReadRouting(r, ask)) \/ GetOrCreate(r) \/ GiveUp(r)
      PROVE  RefusedByDefaultOnly'
  <2>1. CASE \E ask \in Asks : ReadRouting(r, ask)
    <3>1. PICK ask \in Asks : ReadRouting(r, ask)
      BY <2>1
    <3>2. request' = [request EXCEPT ![r] =
                        [at |-> "routed", ask |-> ask, routing |-> routing]]
      BY <3>1 DEF ReadRouting
    <3>3. QED
      BY <1>2, <3>2
  <2>2. CASE GetOrCreate(r)
    <3>1. PICK v : request' = [request EXCEPT ![r] =
                      [at |-> "served", id |-> request[r].backend.id, ver |-> v]]
      BY <2>2 DEF GetOrCreate
    <3>2. QED
      BY <1>2, <3>1
  <2>3. CASE GiveUp(r)
    <3>1. request' = [request EXCEPT ![r] = [at |-> "failed"]]
      BY <2>3 DEF GiveUp
    <3>2. QED
      BY <1>2, <3>1
  <2>4. QED
    BY <1>4, <2>1, <2>2, <2>3
<1>5. ASSUME NEW c \in Consoles,
             \/ ListBackends(c) \/ AddBackend(c) \/ ClearPool(c)
             \/ \E i \in DOMAIN seen[c] : UpdateBackend(c, i) \/ DeleteBackend(c, i)
             \/ \E to \in Routings : UpdateRouting(c, to)
      PROVE  RefusedByDefaultOnly'
  BY <1>1, <1>5 DEF ListBackends, AddBackend, ClearPool, UpdateBackend,
                    DeleteBackend, UpdateRouting, Edit
<1>6. CASE UNCHANGED vars
  BY <1>1, <1>6 DEF vars
<1>7. QED
  BY <1>3, <1>4, <1>5, <1>6 DEF Next

(* No rule makes a request fail, whatever is deleted between the reading   *)
(* of the routing and that of the backends; only a pinned default does.    *)
THEOREM OnlyDefaultsRefuse == Spec => []RefusedByDefaultOnly
<1>1. Init => RefusedByDefaultOnly
  BY DEF Init, RefusedByDefaultOnly, Start
<1>2. QED
  BY <1>1, NextRefused, PoolTypes, PTL DEF Spec

----------------------------------------------------------------------------
(* Turns *)

(* Before the first edit, the first counter % AtStart backends are one     *)
(* turn ahead of the others.                                               *)
Turns ==
  edits = 0 =>
    /\ backends = Initial
    /\ \E q \in Nat : \A i \in 1 .. AtStart :
         share[i] = q + IF i <= counter % AtStart THEN 1 ELSE 0

(* A turn goes to the backend the counter points at.                       *)
LEMMA ChooseTurns ==
  ASSUME TypeOK, Turns, NEW r \in Requests, Choose(r)
  PROVE  Turns'
<1> SUFFICES ASSUME edits = 0 PROVE Turns'
  BY DEF Choose, Turns
<1> DEFINE by == request[r].routing
           ask == request[r].ask
           b == ResolveBackend(backends, by, ask, counter)
<1>1. by \in Routings
  BY PlaceFacts DEF Choose
<1>2. backends = Initial /\ UNCHANGED <<backends, edits>>
  BY DEF Turns, Choose
<1>3. CASE ~ TakesTick(backends, by, ask)
  <2>1. UNCHANGED <<counter, share>>
    BY <1>3 DEF Choose
  <2>2. QED
    BY <1>2, <2>1 DEF Turns
<1>4. CASE TakesTick(backends, by, ask)
  <2> DEFINE t == counter % AtStart
  <2>1. Len(backends) = AtStart /\ DOMAIN backends = 1 .. AtStart
    BY <1>2, ListFacts, PoolAssumption DEF Initial
  <2>2. t + 1 \in 1 .. AtStart /\ b = backends[t + 1]
    BY <1>1, <1>4, <2>1, Resolved
  <2>3. b.id = t + 1
    BY <1>2, <2>2 DEF Initial
  <2>4. counter' = counter + 1 /\ share' = [share EXCEPT ![t + 1] = @ + 1]
    BY <1>4, <2>3 DEF Choose, NextCount
  <2>5. AtStart \in Nat \ {0} /\ counter \in Nat
    BY <2>2, PoolAssumption DEF TypeOK
  <2>6. counter' % AtStart = IF t + 1 = AtStart THEN 0 ELSE t + 1
    BY <2>4, <2>5, ModStep
  <2>7. PICK q \in Nat : \A i \in 1 .. AtStart :
          share[i] = q + IF i <= t THEN 1 ELSE 0
    BY DEF Turns
  <2>8. \A i \in 1 .. AtStart : share'[i] = IF i = t + 1 THEN share[i] + 1 ELSE share[i]
    <3>1. 1 .. AtStart \subseteq Ids
      BY PoolAssumption DEF Ids
    <3>2. QED
      BY <2>4, <3>1 DEF TypeOK
  <2>9. t \in 0 .. AtStart - 1
    BY <2>5, ModStep
  <2>10. \A i \in 1 .. AtStart : share'[i] = q + IF i <= t + 1 THEN 1 ELSE 0
    <3> HIDE DEF t
    <3>1. QED
      BY <2>5, <2>7, <2>8, <2>9
  <2>11. \E p \in Nat : \A i \in 1 .. AtStart :
           share'[i] = p + IF i <= counter' % AtStart THEN 1 ELSE 0
    <3>1. CASE t + 1 = AtStart
      <4>1. counter' % AtStart = 0 /\ q + 1 \in Nat
        BY <2>6, <3>1
      <4>2. \A i \in 1 .. AtStart : share'[i] = (q + 1) + 0
        BY <2>5, <2>10, <3>1
      <4>3. \A i \in 1 .. AtStart : ~ (i <= counter' % AtStart)
        BY <2>5, <4>1
      <4>4. QED
        BY <4>1, <4>2, <4>3
    <3>2. CASE t + 1 # AtStart
      BY <2>6, <2>10, <3>2
    <3>3. QED
      BY <3>1, <3>2
  <2>12. QED
    BY <1>2, <2>11 DEF Turns
<1>5. QED
  BY <1>3, <1>4

LEMMA NextTurns == TypeOK /\ Turns /\ [Next]_vars => Turns'
<1> SUFFICES ASSUME TypeOK, Turns, [Next]_vars PROVE Turns'
  OBVIOUS
<1>1. ASSUME UNCHANGED <<backends, counter, edits, share>> PROVE Turns'
  BY <1>1 DEF Turns
<1>2. ASSUME NEW c \in Consoles, NEW bs, NEW to, Edit(c, bs, to) PROVE Turns'
  BY <1>2 DEF Edit, Turns, TypeOK, Versions
<1>3. ASSUME NEW r \in Requests,
             (\E ask \in Asks : ReadRouting(r, ask)) \/ GetOrCreate(r) \/ GiveUp(r)
      PROVE  Turns'
  BY <1>1, <1>3 DEF ReadRouting, GetOrCreate, GiveUp
<1>4. ASSUME NEW c \in Consoles,
             ListBackends(c) \/ ClearPool(c) \/ \E to \in Routings : UpdateRouting(c, to)
      PROVE  Turns'
  BY <1>1, <1>4 DEF ListBackends, ClearPool, UpdateRouting
<1>5. ASSUME NEW c \in Consoles,
             \/ AddBackend(c)
             \/ \E i \in DOMAIN seen[c] : UpdateBackend(c, i) \/ DeleteBackend(c, i)
      PROVE  Turns'
  BY <1>2, <1>5 DEF AddBackend, UpdateBackend, DeleteBackend
<1>6. CASE UNCHANGED vars
  BY <1>1, <1>6 DEF vars
<1>7. QED
  BY <1>3, <1>4, <1>5, <1>6, ChooseTurns DEF Next

LEMMA InitTurns == Init => Turns
<1> SUFFICES ASSUME Init PROVE Turns
  OBVIOUS
<1>1. \A i \in 1 .. AtStart : share[i] = 0 /\ ~ (i <= counter % AtStart)
  <2>1. TAKE i \in 1 .. AtStart
  <2>2. AtStart \in Nat \ {0} /\ counter = AtStart * 0 + 0
    BY <2>1, PoolAssumption DEF Init
  <2>3. counter % AtStart = 0
    BY <2>2, Remainder
  <2>4. QED
    BY <2>1, <2>3, PoolAssumption DEF Init, Ids
<1>2. QED
  BY <1>1 DEF Init, Turns

(* Turns are even: whatever rules, strategies and threads come in between, *)
(* no backend gets two turns more than another while the list stays.       *)
THEOREM TurnsAreFair == Spec => []RoundRobinFair
<1>1. TypeOK /\ Turns => RoundRobinFair
  <2> SUFFICES ASSUME TypeOK, Turns, edits = 0,
                      NEW i \in DOMAIN backends, NEW j \in DOMAIN backends
               PROVE  share[backends[i].id] <= share[backends[j].id] + 1
    BY DEF RoundRobinFair
  <2>1. backends = Initial
    BY DEF Turns
  <2>2. i \in 1 .. AtStart /\ j \in 1 .. AtStart /\ backends[i].id = i /\ backends[j].id = j
    BY <2>1 DEF Initial
  <2>3. QED
    BY <2>2 DEF Turns
<1>2. QED
  BY <1>1, InitTurns, NextTurns, PoolTypes, PTL DEF Spec

----------------------------------------------------------------------------
(* Rows *)

(* Ids are given in order, and new backends come last: so the list and     *)
(* every page's copy of it are in the order of their ids, and a backend    *)
(* that is older than one a page shows was in the list when it loaded it.  *)
Lists ==
  /\ \A i, j \in DOMAIN backends : i < j => backends[i].id < backends[j].id
  /\ \A i \in DOMAIN backends : backends[i].id <= AtStart + edits
  /\ \A c \in Consoles :
       /\ \A i, j \in DOMAIN seen[c] : i < j => seen[c][i] < seen[c][j]
       /\ \A i \in DOMAIN seen[c] :
            /\ seen[c][i] <= AtStart + edits
            /\ \A k \in DOMAIN backends : backends[k].id <= seen[c][i] =>
                 \E j \in DOMAIN seen[c] : seen[c][j] = backends[k].id

(* If nothing a page shows in a row or above it is gone, the row is the    *)
(* backend's place in the list.                                            *)
LEMMA RowsAgree ==
  ASSUME TypeOK, Lists, NEW c \in Consoles, NEW i \in DOMAIN seen[c],
         i \in DOMAIN backends, ~ LostAbove(c, i)
  PROVE  backends[i].id = seen[c][i]
<1> DEFINE s == seen[c]
           t == [k \in DOMAIN backends |-> backends[k].id]
           Bad == {j \in 1 .. i : ~ (j \in DOMAIN t /\ t[j] = s[j])}
<1>1. /\ Len(s) \in Nat /\ DOMAIN s = 1 .. Len(s)
      /\ Len(backends) \in Nat /\ DOMAIN t = 1 .. Len(backends)
      /\ \A j \in DOMAIN s : s[j] \in Nat
      /\ \A k \in DOMAIN t : t[k] \in Nat
  BY ListFacts, PoolAssumption DEF Ids
<1>2. i \in DOMAIN s /\ i \in DOMAIN t /\ 1 .. i \subseteq DOMAIN s
  BY <1>1
<1>3. /\ \A j, k \in DOMAIN s : j < k => s[j] < s[k]
      /\ \A j, k \in DOMAIN t : j < k => t[j] < t[k]
      /\ \A k \in DOMAIN t : t[k] <= s[i] => \E j \in DOMAIN s : s[j] = t[k]
  BY DEF Lists
<1>4. \A j \in 1 .. i : \E k \in DOMAIN t : t[k] = s[j]
  BY DEF LostAbove
<1>5. t[i] = backends[i].id
  OBVIOUS
<1> HIDE DEF s, t
<1>6. Bad = {}
  <2> SUFFICES ASSUME Bad # {} PROVE FALSE
    OBVIOUS
  <2>1. Bad \in SUBSET Nat
    BY <1>1, <1>2
  <2>2. PICK j \in Bad : \A k \in Bad : j <= k
    BY <2>1, LeastOf
  <2>3. j \in 1 .. i /\ j \in DOMAIN s /\ \A k \in 1 .. j - 1 : k \in DOMAIN t /\ t[k] = s[k]
    BY <1>1, <1>2, <2>2
  <2>4. PICK k \in DOMAIN t : t[k] = s[j]
    BY <1>4, <2>3
  <2>5. k >= j
    BY <1>1, <1>3, <2>3, <2>4
  <2>6. j \in DOMAIN t /\ t[j] <= s[j]
    <3>1. j \in Nat /\ k \in Nat /\ j \in DOMAIN t
      BY <1>1, <2>3, <2>4, <2>5
    <3>2. t[j] \in Nat /\ t[k] \in Nat
      BY <1>1, <2>4, <3>1
    <3>3. CASE j < k
      BY <1>3, <2>4, <3>1, <3>2, <3>3
    <3>4. CASE j = k
      BY <2>4, <3>1, <3>2, <3>4
    <3>5. QED
      BY <2>5, <3>1, <3>3, <3>4
  <2>7. s[j] <= s[i]
    <3>1. s[j] \in Nat /\ s[i] \in Nat
      BY <1>1, <1>2, <2>3
    <3>2. CASE j = i
      BY <3>1, <3>2
    <3>3. CASE j < i
      BY <1>2, <1>3, <2>3, <3>1, <3>3
    <3>4. QED
      BY <1>1, <1>2, <2>3, <3>2, <3>3
  <2>8. PICK l \in DOMAIN s : s[l] = t[j]
    <3>1. t[j] \in Nat /\ s[j] \in Nat /\ s[i] \in Nat
      BY <1>1, <1>2, <2>3, <2>6
    <3>2. t[j] <= s[i]
      BY <2>6, <2>7, <3>1
    <3>3. QED
      BY <1>3, <2>6, <3>2
  <2>9. l = j
    <3>1. ~ (l < j)
      <4>1. ASSUME l < j PROVE FALSE
        <5>1. l \in DOMAIN t /\ t[l] = s[l]
          BY <1>1, <2>3, <4>1
        <5>2. t[l] < t[j]
          BY <1>3, <2>6, <4>1, <5>1
        <5>3. QED
          BY <1>1, <2>6, <2>8, <5>1, <5>2
      <4>2. QED
        BY <4>1
    <3>2. ~ (j < l)
      BY <1>1, <1>3, <2>3, <2>6, <2>8
    <3>3. QED
      BY <1>1, <2>3, <3>1, <3>2
  <2>10. QED
    BY <2>2, <2>6, <2>8, <2>9
<1>7. QED
  BY <1>1, <1>2, <1>5, <1>6 DEF s

(* An edit keeps the order if its new list has ids of the old one, in the  *)
(* same order, or only new ones behind them.                               *)
LEMMA EditKeepsLists ==
  ASSUME TypeOK, Lists, NEW c \in Consoles, NEW bs \in Seq(Backend), NEW to,
         Edit(c, bs, to),
         \A i, j \in DOMAIN bs : i < j => bs[i].id < bs[j].id,
         \A i \in DOMAIN bs :
           \/ bs[i].id = AtStart + edits + 1
           \/ \E k \in DOMAIN backends : bs[i].id = backends[k].id
  PROVE  Lists'
<1>1. backends' = bs /\ edits' = edits + 1 /\ seen' = seen /\ edits \in Nat
  BY PoolAssumption DEF Edit, TypeOK, Versions
<1>2. \A i \in DOMAIN bs : bs[i].id <= AtStart + edits'
  <2>1. TAKE i \in DOMAIN bs
  <2>2. CASE bs[i].id = AtStart + edits + 1
    BY <1>1, <2>2, PoolAssumption
  <2>3. ASSUME NEW k \in DOMAIN backends, bs[i].id = backends[k].id
        PROVE  bs[i].id <= AtStart + edits'
    <3>1. backends[k].id \in Nat
      BY ListFacts, PoolAssumption DEF Ids
    <3>2. backends[k].id <= AtStart + edits
      BY DEF Lists
    <3>3. QED
      BY <1>1, <2>3, <3>1, <3>2, PoolAssumption
  <2>4. QED
    BY <2>2, <2>3
<1>3. ASSUME NEW d \in Consoles, NEW i \in DOMAIN seen[d]
      PROVE  /\ seen[d][i] <= AtStart + edits'
             /\ \A k \in DOMAIN bs : bs[k].id <= seen[d][i] =>
                  \E j \in DOMAIN seen[d] : seen[d][j] = bs[k].id
  <2>1. seen[d][i] \in Nat /\ seen[d][i] <= AtStart + edits
    BY <1>3, ListFacts, PoolAssumption DEF Lists, Ids
  <2>2. ASSUME NEW k \in DOMAIN bs, bs[k].id <= seen[d][i]
        PROVE  \E j \in DOMAIN seen[d] : seen[d][j] = bs[k].id
    <3>1. bs[k].id # AtStart + edits + 1
      BY <1>1, <2>1, <2>2, PoolAssumption
    <3>2. PICK l \in DOMAIN backends : bs[k].id = backends[l].id
      BY <2>2, <3>1
    <3>3. QED
      BY <1>3, <2>2, <3>2 DEF Lists
  <2>3. QED
    BY <1>1, <2>1, <2>2, PoolAssumption
<1>4. \A d \in Consoles : \A i, j \in DOMAIN seen[d] : i < j => seen[d][i] < seen[d][j]
  BY DEF Lists
<1>5. QED
  BY <1>1, <1>2, <1>3, <1>4 DEF Lists

(* An update leaves every id where it is.                                  *)
LEMMA UpdateKeepsLists ==
  ASSUME TypeOK, Lists, NEW c \in Consoles, NEW i \in DOMAIN seen[c], UpdateBackend(c, i)
  PROVE  Lists'
<1> DEFINE bs == [backends EXCEPT ![i].ver = edits + 1]
           to == AimAt(c, i)
<1>1. i \in DOMAIN backends /\ Edit(c, bs, to)
  BY DEF UpdateBackend
<1>2. bs \in Seq(Backend)
  BY <1>1, EditedLists DEF Edit
<1>3. DOMAIN bs = DOMAIN backends /\ \A k \in DOMAIN backends : bs[k].id = backends[k].id
  BY <1>1, ListFacts DEF Backend
<1>4. \A j, k \in DOMAIN bs : j < k => bs[j].id < bs[k].id
  BY <1>3 DEF Lists
<1> HIDE DEF bs, to
<1>5. QED
  BY <1>1, <1>2, <1>3, <1>4, EditKeepsLists

(* A backend that is added has the greatest id and comes last.             *)
LEMMA AddKeepsLists ==
  ASSUME TypeOK, Lists, NEW c \in Consoles, AddBackend(c)
  PROVE  Lists'
<1> DEFINE id == AtStart + edits + 1
           new == [id |-> id, ver |-> edits + 1]
           bs == Append(backends, new)
           to == [at |-> id, hit |-> id, lost |-> FALSE]
           n == Len(backends)
<1>1. Edit(c, bs, to)
  BY DEF AddBackend
<1>2. bs \in Seq(Backend) /\ backends \in Seq(Backend) /\ new \in Backend
  BY <1>1, EditedLists DEF Edit, TypeOK, Backend
<1>3. n \in Nat /\ DOMAIN backends = 1 .. n
  BY ListFacts
<1>4. /\ DOMAIN bs = 1 .. n + 1
      /\ \A k \in 1 .. n : bs[k] = backends[k]
      /\ bs[n + 1] = new
  BY <1>2, <1>3, AppendProperties, LenProperties
<1>5. new.id = id
  OBVIOUS
<1>6. \A k \in 1 .. n : backends[k].id \in Nat /\ backends[k].id < id
  <2>1. TAKE k \in 1 .. n
  <2>2. backends[k].id \in Nat /\ backends[k].id <= AtStart + edits
    BY <1>3, ListFacts, PoolAssumption DEF Lists, Ids
  <2>3. QED
    BY <2>2, PoolAssumption DEF TypeOK, Versions
<1> HIDE DEF bs, to, new
<1>7. \A j, k \in DOMAIN bs : j < k => bs[j].id < bs[k].id
  <2>1. TAKE j, k \in DOMAIN bs
  <2>2. CASE k = n + 1 /\ j < k
    BY <1>3, <1>4, <1>5, <1>6, <2>2
  <2>3. CASE k \in 1 .. n /\ j < k
    BY <1>3, <1>4, <2>3 DEF Lists
  <2>4. QED
    BY <1>3, <1>4, <2>2, <2>3
<1>8. \A k \in DOMAIN bs : \/ bs[k].id = id
                          \/ \E l \in DOMAIN backends : bs[k].id = backends[l].id
  BY <1>3, <1>4, <1>5
<1>9. QED
  BY <1>1, <1>2, <1>7, <1>8, EditKeepsLists

(* What is left after a deletion is in the same order.                     *)
LEMMA DeleteKeepsLists ==
  ASSUME TypeOK, Lists, NEW c \in Consoles, NEW i \in DOMAIN seen[c], DeleteBackend(c, i)
  PROVE  Lists'
<1> DEFINE n == Len(backends)
           above == SubSeq(backends, 1, i - 1)
           below == SubSeq(backends, i + 1, n)
           bs == above \o below
           to == AimAt(c, i)
           old(k) == IF k < i THEN k ELSE k + 1
<1>1. i \in DOMAIN backends /\ Edit(c, bs, to)
  BY DEF DeleteBackend
<1>2. bs \in Seq(Backend) /\ backends \in Seq(Backend)
  BY <1>1, EditedLists DEF Edit, TypeOK
<1>3. n \in Nat /\ DOMAIN backends = 1 .. n /\ i \in 1 .. n
  BY <1>1, ListFacts
<1>4. /\ above \in Seq(Backend) /\ Len(above) = i - 1
      /\ \A k \in 1 .. i - 1 : above[k] = backends[k]
  BY <1>2, <1>3, ListFacts, SubSeqProperties
<1>5. /\ below \in Seq(Backend) /\ Len(below) = n - i
      /\ \A k \in 1 .. n - i : below[k] = backends[i + k]
  <2>1. \A k \in i + 1 .. n : backends[k] \in Backend
    BY <1>3, ListFacts
  <2>2. /\ below \in Seq(Backend) /\ Len(below) = IF i + 1 <= n THEN n - (i + 1) + 1 ELSE 0
        /\ \A k \in 1 .. n - (i + 1) + 1 : below[k] = backends[(i + 1) + k - 1]
    BY <1>3, <2>1, SubSeqProperties
  <2>3. \A k \in 1 .. n - i : below[k] = backends[i + k]
    <3> HIDE DEF below
    <3>1. TAKE k \in 1 .. n - i
    <3>2. k \in 1 .. n - (i + 1) + 1 /\ (i + 1) + k - 1 = i + k
      BY <1>3
    <3>3. QED
      BY <2>2, <3>2
  <2>4. QED
    BY <1>3, <2>2, <2>3
<1> HIDE DEF above, below
<1>6. /\ DOMAIN bs = 1 .. n - 1
      /\ \A k \in 1 .. n - 1 :
           bs[k] = IF k <= i - 1 THEN above[k] ELSE below[k - (i - 1)]
  <2>1. Len(bs) = n - 1
    <3>1. above \in Seq(Backend) /\ below \in Seq(Backend)
      BY <1>4, <1>5
    <3>2. Len(above \o below) = Len(above) + Len(below)
      BY <3>1, ConcatProperties
    <3>3. QED
      BY <1>3, <1>4, <1>5, <3>2
  <2>2. DOMAIN bs = 1 .. n - 1
    BY <1>2, <2>1, LenProperties
  <2>3. Len(above) + Len(below) = n - 1
    BY <1>3, <1>4, <1>5
  <2>4. \A k \in 1 .. Len(above) + Len(below) :
          bs[k] = IF k <= Len(above) THEN above[k] ELSE below[k - Len(above)]
    BY <1>4, <1>5, ConcatProperties
  <2>5. QED
    BY <1>4, <2>2, <2>3, <2>4
<1> HIDE DEF bs, to
<1>7. \A k \in 1 .. n - 1 : old(k) \in DOMAIN backends /\ bs[k] = backends[old(k)]
  <2>1. TAKE k \in 1 .. n - 1
  <2>2. CASE k < i
    BY <1>3, <1>4, <1>6, <2>2
  <2>3. CASE ~ (k < i)
    <3>1. k - (i - 1) \in 1 .. n - i /\ i + (k - (i - 1)) = k + 1
      BY <1>3, <2>3
    <3>2. bs[k] = below[k - (i - 1)]
      BY <1>3, <1>6, <2>3
    <3>3. QED
      BY <1>3, <1>5, <2>3, <3>1, <3>2
  <2>4. QED
    BY <2>2, <2>3
<1>8. \A j, k \in 1 .. n - 1 : j < k => old(j) < old(k)
  BY <1>3
<1> HIDE DEF old
<1>9. \A j, k \in DOMAIN bs : j < k => bs[j].id < bs[k].id
  BY <1>6, <1>7, <1>8 DEF Lists
<1>10. \A k \in DOMAIN bs : \E l \in DOMAIN backends : bs[k].id = backends[l].id
  BY <1>6, <1>7
<1>11. Edit(c, bs, to)
  BY <1>1 DEF bs, to, above, below
<1>12. QED
  BY <1>2, <1>9, <1>10, <1>11, EditKeepsLists

(* A page that loads the list has all of it.                               *)
LEMMA ListBackendsKeepsLists ==
  ASSUME TypeOK, Lists, NEW c \in Consoles, ListBackends(c)
  PROVE  Lists'
<1>1. /\ backends' = backends /\ edits' = edits
      /\ \A d \in Consoles : seen'[d] = IF d = c THEN IdsOf(backends) ELSE seen[d]
  BY DEF ListBackends, TypeOK
<1>2. /\ DOMAIN IdsOf(backends) = DOMAIN backends
      /\ \A i \in DOMAIN backends : IdsOf(backends)[i] = backends[i].id
  BY DEF IdsOf
<1>3. QED
  BY <1>1, <1>2 DEF Lists

LEMMA NextLists == TypeOK /\ Lists /\ [Next]_vars => Lists'
<1> SUFFICES ASSUME TypeOK, Lists, [Next]_vars PROVE Lists'
  OBVIOUS
<1>1. ASSUME UNCHANGED <<backends, edits, seen>> PROVE Lists'
  BY <1>1 DEF Lists
<1>2. ASSUME NEW r \in Requests,
             \/ \E ask \in Asks : ReadRouting(r, ask)
             \/ Choose(r) \/ GetOrCreate(r) \/ GiveUp(r)
      PROVE  Lists'
  BY <1>1, <1>2 DEF ReadRouting, Choose, GetOrCreate, GiveUp
<1>3. ASSUME NEW c \in Consoles,
             ClearPool(c) \/ \E to \in Routings : UpdateRouting(c, to)
      PROVE  Lists'
  BY <1>1, <1>3 DEF ClearPool, UpdateRouting
<1>4. CASE UNCHANGED vars
  BY <1>1, <1>4 DEF vars
<1>5. QED
  BY <1>2, <1>3, <1>4, ListBackendsKeepsLists, AddKeepsLists, UpdateKeepsLists,
     DeleteKeepsLists DEF Next

LEMMA InitLists == Init => Lists
<1> SUFFICES ASSUME Init PROVE Lists
  OBVIOUS
<1>1. DOMAIN backends = 1 .. AtStart /\ \A i \in 1 .. AtStart : backends[i].id = i
  BY DEF Init, Initial
<1>2. \A c \in Consoles : DOMAIN seen[c] = {}
  BY DEF Init
<1>3. edits = 0
  BY DEF Init
<1>4. QED
  BY <1>1, <1>2, <1>3, PoolAssumption DEF Lists

(* A row at or above which nothing is gone is the one that is hit.         *)
LEMMA NextAim ==
  TypeOK /\ Lists /\ EditsMissOnlyAfterLoss /\ [Next]_vars => EditsMissOnlyAfterLoss'
<1> SUFFICES ASSUME TypeOK, Lists, EditsMissOnlyAfterLoss, [Next]_vars
             PROVE  EditsMissOnlyAfterLoss'
  OBVIOUS
<1>1. ASSUME UNCHANGED aim PROVE EditsMissOnlyAfterLoss'
  BY <1>1 DEF EditsMissOnlyAfterLoss
<1>2. ASSUME NEW c \in Consoles, NEW i \in DOMAIN seen[c],
             UpdateBackend(c, i) \/ DeleteBackend(c, i)
      PROVE  EditsMissOnlyAfterLoss'
  <2>1. i \in DOMAIN backends /\ aim' = AimAt(c, i)
    BY <1>2 DEF UpdateBackend, DeleteBackend, Edit
  <2>2. CASE LostAbove(c, i)
    BY <2>1, <2>2 DEF AimAt, EditsMissOnlyAfterLoss
  <2>3. CASE ~ LostAbove(c, i)
    <3>1. backends[i].id = seen[c][i]
      BY <1>2, <2>1, <2>3, RowsAgree
    <3>2. QED
      BY <2>1, <3>1 DEF AimAt, EditsMissOnlyAfterLoss
  <2>4. QED
    BY <2>2, <2>3
<1>3. ASSUME NEW c \in Consoles, AddBackend(c)
      PROVE  EditsMissOnlyAfterLoss'
  <2>1. aim'.at = aim'.hit
    BY <1>3 DEF AddBackend, Edit
  <2>2. QED
    BY <2>1 DEF EditsMissOnlyAfterLoss
<1>4. ASSUME NEW c \in Consoles,
             \/ ListBackends(c) \/ ClearPool(c)
             \/ \E to \in Routings : UpdateRouting(c, to)
      PROVE  EditsMissOnlyAfterLoss'
  BY <1>1, <1>4 DEF ListBackends, ClearPool, UpdateRouting
<1>5. ASSUME NEW r \in Requests,
             \/ \E ask \in Asks : ReadRouting(r, ask)
             \/ Choose(r) \/ GetOrCreate(r) \/ GiveUp(r)
      PROVE  EditsMissOnlyAfterLoss'
  BY <1>1, <1>5 DEF ReadRouting, Choose, GetOrCreate, GiveUp
<1>6. CASE UNCHANGED vars
  BY <1>1, <1>6 DEF vars
<1>7. QED
  BY <1>2, <1>3, <1>4, <1>5, <1>6 DEF Next

(* However many pages edit and however old the lists they show, an edit    *)
(* hits the backend in its row unless a backend the page shows there or    *)
(* above has been deleted.                                                 *)
THEOREM EditsHitTheirRow == Spec => []EditsMissOnlyAfterLoss
<1>1. Init => EditsMissOnlyAfterLoss
  BY DEF Init, EditsMissOnlyAfterLoss
<1>2. QED
  BY <1>1, InitLists, NextLists, NextAim, PoolTypes, PTL DEF Spec
=============================================================================
