--------------------------- MODULE ConsoleProofs ----------------------------
(***************************************************************************)
(* Proofs about what the console and the client are shown.  Notify, for    *)
(* any capacity of the channel and any number of changes, loads and        *)
(* failing requests: a page that shows an old version with nothing under   *)
(* way has missed a change for one of the reasons the model names.         *)
(* Algorithms, for inputs of any length: the figures, the series, the      *)
(* search, the rebuilt reply and the list of models are what their         *)
(* definitions over the whole input say.                                   *)
(***************************************************************************)
EXTENDS Notify, Algorithms, CommonFacts, SequenceTheorems, FiniteSetTheorems, TLAPS

----------------------------------------------------------------------------
(* Bags of requests *)

(* What a bag is made of: each request as often as it is there. *)
LEMMA InCopies ==
  ASSUME NEW b, NEW load, NEW i
  PROVE  <<load, i>> \in Copies(b) <=> load \in DOMAIN b /\ i \in 1 .. b[load]
BY DEF Copies

(* Only pairs are copies. *)
LEMMA CopiesArePairs ==
  ASSUME NEW b, NEW c \in Copies(b)
  PROVE  \E load \in DOMAIN b : \E i \in 1 .. b[load] : c = <<load, i>>
BY DEF Copies

(* A bag of one. *)
LEMMA OneOf ==
  ASSUME NEW x
  PROVE  DOMAIN One(x) = {x} /\ One(x)[x] = 1
BY DEF One, SetToBag

(* One more request. *)
LEMMA AddCopy ==
  ASSUME NEW b, IsABag(b), IsFiniteSet(Copies(b)), NEW x
  PROVE  /\ IsABag(b (+) One(x)) /\ BagToSet(b (+) One(x)) = BagToSet(b) \cup {x}
         /\ IsFiniteSet(Copies(b (+) One(x)))
         /\ Cardinality(Copies(b (+) One(x))) = Cardinality(Copies(b)) + 1
<1> DEFINE a == b (+) One(x)
           n == IF x \in DOMAIN b THEN b[x] + 1 ELSE 1
<1>1. \A e \in DOMAIN b : b[e] \in Nat \ {0}
  BY DEF IsABag
<1>2. /\ DOMAIN a = DOMAIN b \cup {x} /\ a[x] = n /\ n \in Nat \ {0}
      /\ \A e \in DOMAIN b : e # x => a[e] = b[e]
  <2>1. a = [e \in DOMAIN b \cup {x} |->
               (IF e \in DOMAIN b THEN b[e] ELSE 0)
               + (IF e \in {x} THEN One(x)[e] ELSE 0)]
    BY OneOf DEF (+)
  <2>2. n \in Nat \ {0} /\ a[x] = n
    <3>1. a[x] = (IF x \in DOMAIN b THEN b[x] ELSE 0) + One(x)[x]
      BY <2>1
    <3>2. One(x)[x] = 1
      BY OneOf
    <3>3. CASE x \in DOMAIN b
      BY <1>1, <3>1, <3>2, <3>3
    <3>4. CASE x \notin DOMAIN b
      BY <3>1, <3>2, <3>4
    <3>5. QED
      BY <3>3, <3>4
  <2>3. \A e \in DOMAIN b : e # x => a[e] = b[e]
    BY <1>1, <2>1
  <2>4. QED
    BY <2>1, <2>2, <2>3
<1>3. \A e \in DOMAIN a : a[e] \in Nat \ {0}
  BY <1>1, <1>2
<1>4. IsABag(a) /\ BagToSet(a) = BagToSet(b) \cup {x}
  <2>1. a = [e \in DOMAIN a |-> a[e]]
    BY DEF (+)
  <2>2. QED
    BY <1>2, <1>3, <2>1 DEF IsABag, BagToSet
<1> HIDE DEF a, n
<1>5. <<x, n>> \notin Copies(b)
  <2>1. x \in DOMAIN b => n \notin 1 .. b[x]
    BY <1>1 DEF n
  <2>2. QED
    BY <2>1, InCopies
<1>6. Copies(a) = Copies(b) \cup {<<x, n>>}
  <2>1. ASSUME NEW c \in Copies(a) PROVE c \in Copies(b) \cup {<<x, n>>}
    <3>1. PICK e \in DOMAIN a : \E i \in 1 .. a[e] : c = <<e, i>>
      BY <2>1, CopiesArePairs
    <3>2. PICK i \in 1 .. a[e] : c = <<e, i>>
      BY <3>1
    <3>3. CASE e # x
      BY <1>2, <3>1, <3>2, <3>3, InCopies
    <3>4. CASE e = x /\ i # n
      <4>1. x \in DOMAIN b /\ i \in 1 .. b[x]
        BY <1>1, <1>2, <3>2, <3>4 DEF n
      <4>2. QED
        BY <3>2, <3>4, <4>1, InCopies
    <3>5. QED
      BY <3>2, <3>3, <3>4
  <2>2. ASSUME NEW c \in Copies(b) PROVE c \in Copies(a)
    <3>1. PICK e \in DOMAIN b : \E i \in 1 .. b[e] : c = <<e, i>>
      BY <2>2, CopiesArePairs
    <3>2. PICK i \in 1 .. b[e] : c = <<e, i>>
      BY <3>1
    <3>3. e \in DOMAIN a /\ i \in 1 .. a[e]
      BY <1>1, <1>2, <3>1, <3>2 DEF n
    <3>4. QED
      BY <3>2, <3>3, InCopies
  <2>3. <<x, n>> \in Copies(a)
    <3>1. x \in DOMAIN a /\ n \in 1 .. a[x]
      BY <1>2
    <3>2. QED
      BY <3>1, InCopies
  <2>4. QED
    BY <2>1, <2>2, <2>3
<1>7. /\ IsFiniteSet(Copies(a))
      /\ Cardinality(Copies(a)) = Cardinality(Copies(b)) + 1
  BY <1>5, <1>6, FS_AddElement
<1>8. QED
  BY <1>4, <1>7 DEF a

(* One request less. *)
LEMMA RemoveCopy ==
  ASSUME NEW b, IsABag(b), IsFiniteSet(Copies(b)), NEW x \in BagToSet(b)
  PROVE  /\ IsABag(b (-) One(x)) /\ BagToSet(b (-) One(x)) \subseteq BagToSet(b)
         /\ BagToSet(b) \subseteq BagToSet(b (-) One(x)) \cup {x}
         /\ IsFiniteSet(Copies(b (-) One(x)))
         /\ Cardinality(Copies(b (-) One(x))) = Cardinality(Copies(b)) - 1
<1> DEFINE a == b (-) One(x)
           n == b[x]
<1>1. (\A e \in DOMAIN b : b[e] \in Nat \ {0}) /\ x \in DOMAIN b /\ n \in Nat \ {0}
  BY DEF IsABag, BagToSet
<1>2. /\ DOMAIN a = IF n = 1 THEN DOMAIN b \ {x} ELSE DOMAIN b
      /\ n # 1 => a[x] = n - 1
      /\ \A e \in DOMAIN a : e # x => a[e] = b[e]
  <2> DEFINE c == [e \in DOMAIN b |->
                     IF e \in DOMAIN One(x) THEN b[e] - One(x)[e] ELSE b[e]]
  <2>1. a = [e \in {d \in DOMAIN c : c[d] > 0} |-> c[e]]
    BY DEF (-)
  <2>2. \A e \in DOMAIN b : c[e] = IF e = x THEN n - 1 ELSE b[e]
    BY OneOf
  <2>3. {d \in DOMAIN c : c[d] > 0} = IF n = 1 THEN DOMAIN b \ {x} ELSE DOMAIN b
    BY <1>1, <2>2
  <2> HIDE DEF c
  <2>4. QED
    BY <1>1, <2>1, <2>2, <2>3
<1>3. \A e \in DOMAIN a : a[e] \in Nat \ {0}
  BY <1>1, <1>2
<1>4. /\ IsABag(a) /\ BagToSet(a) \subseteq BagToSet(b)
      /\ BagToSet(b) \subseteq BagToSet(a) \cup {x}
  <2>1. a = [e \in DOMAIN a |-> a[e]]
    BY DEF (-)
  <2>2. QED
    BY <1>2, <1>3, <2>1 DEF IsABag, BagToSet
<1> HIDE DEF a
<1>5. <<x, n>> \in Copies(b)
  <2>1. n \in 1 .. b[x]
    BY <1>1
  <2>2. QED
    BY <1>1, <2>1, InCopies
<1>6. Copies(a) = Copies(b) \ {<<x, n>>}
  <2>1. ASSUME NEW c \in Copies(a) PROVE c \in Copies(b) /\ c # <<x, n>>
    <3>1. PICK e \in DOMAIN a : \E i \in 1 .. a[e] : c = <<e, i>>
      BY <2>1, CopiesArePairs
    <3>2. PICK i \in 1 .. a[e] : c = <<e, i>>
      BY <3>1
    <3>3. e \in DOMAIN b /\ i \in 1 .. b[e] /\ (e = x => i # n)
      BY <1>1, <1>2, <3>1, <3>2
    <3>4. <<e, i>> # <<x, n>>
      BY <3>3
    <3>5. QED
      BY <3>2, <3>3, <3>4, InCopies
  <2>2. ASSUME NEW c \in Copies(b), c # <<x, n>> PROVE c \in Copies(a)
    <3>1. PICK e \in DOMAIN b : \E i \in 1 .. b[e] : c = <<e, i>>
      BY <2>2, CopiesArePairs
    <3>2. PICK i \in 1 .. b[e] : c = <<e, i>>
      BY <3>1
    <3>3. e = x => i # n
      BY <2>2, <3>2
    <3>4. e \in DOMAIN a /\ i \in 1 .. a[e]
      BY <1>1, <1>2, <3>1, <3>2, <3>3
    <3>5. QED
      BY <3>2, <3>4, InCopies
  <2>3. QED
    BY <2>1, <2>2
<1>7. /\ IsFiniteSet(Copies(a))
      /\ Cardinality(Copies(a)) = Cardinality(Copies(b)) - 1
  BY <1>5, <1>6, FS_RemoveElement
<1>8. QED
  BY <1>4, <1>7 DEF a

----------------------------------------------------------------------------
(* Sequences of events *)

(* What Append, Head and Tail do to the events a sequence holds. *)
LEMMA EventsOf ==
  ASSUME NEW s \in Seq(Topics)
  PROVE  /\ ToSet(s) \subseteq Topics
         /\ \A t \in Topics : Append(s, t) \in Seq(Topics)
                              /\ ToSet(Append(s, t)) = ToSet(s) \cup {t}
         /\ s # << >> => /\ Head(s) \in Topics /\ Tail(s) \in Seq(Topics)
                        /\ ToSet(s) = ToSet(Tail(s)) \cup {Head(s)}
<1>1. /\ Len(s) \in Nat /\ DOMAIN s = 1 .. Len(s)
      /\ \A i \in 1 .. Len(s) : s[i] \in Topics
  BY LenProperties, ElementOfSeq
<1>2. ToSet(s) \subseteq Topics
  BY <1>1 DEF ToSet
<1>3. ASSUME NEW t \in Topics
      PROVE  /\ Append(s, t) \in Seq(Topics)
             /\ ToSet(Append(s, t)) = ToSet(s) \cup {t}
  <2>1. /\ Append(s, t) \in Seq(Topics) /\ Len(Append(s, t)) = Len(s) + 1
        /\ \A i \in 1 .. Len(s) : Append(s, t)[i] = s[i]
        /\ Append(s, t)[Len(s) + 1] = t
    BY AppendProperties
  <2>2. DOMAIN Append(s, t) = 1 .. Len(s) \cup {Len(s) + 1}
    BY <1>1, <2>1, LenProperties
  <2>3. QED
    BY <1>1, <2>1, <2>2 DEF ToSet
<1>4. ASSUME s # << >>
      PROVE  /\ Head(s) \in Topics /\ Tail(s) \in Seq(Topics)
             /\ ToSet(s) = ToSet(Tail(s)) \cup {Head(s)}
  <2>1. /\ Head(s) \in Topics /\ Head(s) = s[1] /\ Tail(s) \in Seq(Topics)
        /\ Len(Tail(s)) = Len(s) - 1 /\ Len(s) >= 1
        /\ \A i \in 1 .. Len(Tail(s)) : Tail(s)[i] = s[i + 1]
    BY <1>1, <1>4, HeadTailProperties, EmptySeq
  <2>2. DOMAIN Tail(s) = 1 .. Len(s) - 1
    BY <2>1, LenProperties
  <2>3. \A i \in 1 .. Len(s) : i = 1 \/ (i - 1 \in 1 .. Len(s) - 1 /\ s[i] = Tail(s)[i - 1])
    <3> SUFFICES ASSUME NEW i \in 1 .. Len(s), i # 1
                 PROVE  i - 1 \in 1 .. Len(s) - 1 /\ s[i] = Tail(s)[i - 1]
      OBVIOUS
    <3>1. i - 1 \in 1 .. Len(s) - 1 /\ (i - 1) + 1 = i
      BY <1>1
    <3>2. QED
      BY <2>1, <3>1
  <2>4. \A i \in 1 .. Len(s) - 1 : i + 1 \in 1 .. Len(s) /\ Tail(s)[i] = s[i + 1]
    BY <1>1, <2>1
  <2>5. ToSet(s) \subseteq ToSet(Tail(s)) \cup {Head(s)}
    <3> SUFFICES ASSUME NEW e \in ToSet(s), e # Head(s) PROVE e \in ToSet(Tail(s))
      OBVIOUS
    <3>1. PICK i \in 1 .. Len(s) : e = s[i]
      BY <1>1 DEF ToSet
    <3>2. i # 1
      BY <2>1, <3>1
    <3>3. i - 1 \in DOMAIN Tail(s) /\ e = Tail(s)[i - 1]
      BY <2>2, <2>3, <3>1, <3>2
    <3>4. QED
      BY <3>3 DEF ToSet
  <2>6. ToSet(Tail(s)) \subseteq ToSet(s)
    BY <1>1, <2>2, <2>4 DEF ToSet
  <2>7. 1 \in 1 .. Len(s)
    BY <1>1, <2>1
  <2>8. Head(s) \in ToSet(s)
    BY <1>1, <2>1, <2>7 DEF ToSet
  <2>9. QED
    BY <2>1, <2>5, <2>6, <2>8
<1>5. QED
  BY <1>2, <1>3, <1>4

(* Cut in two, a sequence holds the same events. *)
LEMMA EventsCut ==
  ASSUME NEW s \in Seq(Topics), NEW k \in 0 .. Len(s)
  PROVE  /\ SubSeq(s, k + 1, Len(s)) \in Seq(Topics)
         /\ ToSet(s) = ToSet(SubSeq(s, 1, k)) \cup ToSet(SubSeq(s, k + 1, Len(s)))
<1> DEFINE a == SubSeq(s, 1, k)
           b == SubSeq(s, k + 1, Len(s))
           n == Len(s)
<1>1. n \in Nat /\ DOMAIN s = 1 .. n /\ \A i \in 1 .. n : s[i] \in Topics
  BY LenProperties, ElementOfSeq
<1>2. a = [i \in 1 .. k |-> s[i]]
  BY <1>1
<1>3. b = [i \in 1 .. n - k |-> s[i + k]]
  <2>1. n - (k + 1) + 1 = n - k /\ \A i \in 1 .. n - k : (k + 1) + i - 1 = i + k
    BY <1>1
  <2>2. b = [i \in 1 .. n - (k + 1) + 1 |-> s[(k + 1) + i - 1]]
    BY <1>1
  <2>3. QED
    BY <2>1, <2>2
<1> HIDE DEF a, b, n
<1>4. \A i \in 1 .. n - k : i + k \in 1 .. n
  BY <1>1
<1>5. \A i \in 1 .. n : i \in 1 .. k \/ (i - k \in 1 .. n - k /\ i = (i - k) + k)
  BY <1>1
<1>6. b \in Seq(Topics)
  <2>1. b \in [1 .. n - k -> Topics] /\ n - k \in Nat
    BY <1>1, <1>3, <1>4 DEF n
  <2>2. QED
    BY <2>1, SeqDef
<1>7. ToSet(s) = ToSet(a) \cup ToSet(b)
  <2>1. ToSet(a) = {s[i] : i \in 1 .. k} /\ ToSet(b) = {s[i + k] : i \in 1 .. n - k}
    BY <1>2, <1>3 DEF ToSet
  <2>2. 1 .. k \subseteq 1 .. n
    BY <1>1 DEF n
  <2>3. QED
    BY <1>1, <1>4, <1>5, <2>1, <2>2 DEF ToSet
<1>8. QED
  BY <1>6, <1>7 DEF a, b, n

----------------------------------------------------------------------------
(* The inductive invariant *)

LoadUpTo(n) == [forced : BOOLEAN, read : {None} \cup 0 .. n]

(* Every request under way was sent by the page, and read what the server  *)
(* had or still has to read.                                               *)
LoadsOK(t) ==
  /\ IsABag(loads[t]) /\ IsFiniteSet(Copies(loads[t]))
  /\ UnderWay(t) <= MaxLoads[t]
  /\ BagToSet(loads[t]) \subseteq LoadUpTo(version[t])

(* The long poll: what it can be at, and what it carries there.            *)
PollOK ==
  \/ poll = Off
  \/ /\ poll \in [at : {"waiting", "draining", "answered"}, unread : Seq(Topics),
                  events : SUBSET Topics]
     /\ poll.at = "waiting" => poll.events = {}
     /\ poll.at = "answered" => poll.unread = << >>

Hears(t) == poll # Off /\ (t \in poll.events \/ t \in ToSet(poll.unread))
WillRead(t) == \E load \in BagToSet(loads[t]) : load.read \in {None, version[t]}

(* A page that does not show the last version is going to be told of it:   *)
(* by an event still to be sent, by one on its way to the page, by a load  *)
(* that will read it or has read it; or it has missed a change.            *)
Told(t) ==
  \/ shown[t] = version[t] \/ missed[t]
  \/ unsent[t] > 0 \/ Hears(t) \/ WillRead(t)

(* The changes, and those of them whose events are still to be sent.       *)
Changed ==
  /\ version \in [Topics -> Nat] /\ unsent \in [Topics -> Nat]
  /\ version["requests"] + version["backends"] <= MaxChanges
  /\ \A t \in Topics : unsent[t] <= version[t]

(* What the page shows.                                                    *)
PageOK ==
  /\ shown \in [Topics -> Versions \cup {None}] /\ missed \in [Topics -> BOOLEAN]
  /\ editing \in BOOLEAN /\ faults \in 0 .. MaxFaults

(* The inductive invariant.                                                *)
Inv ==
  /\ Changed /\ PollOK /\ PageOK
  /\ loads = [t \in Topics |-> loads[t]]
  /\ \A t \in Topics : LoadsOK(t) /\ Told(t)

(* The page starts with a load of every topic. *)
LEMMA InitInv == Init => Inv
<1> SUFFICES ASSUME Init PROVE Inv
  OBVIOUS
<1> USE NotifyAssumption
<1>1. Changed /\ PollOK /\ PageOK
  <2>1. Changed
    BY DEF Init, Changed, Topics
  <2>2. 0 \in 0 .. MaxFaults
    OBVIOUS
  <2>3. QED
    BY <2>1, <2>2 DEF Init, PollOK, PageOK
<1> SUFFICES ASSUME NEW t \in Topics PROVE LoadsOK(t) /\ Told(t)
  BY <1>1 DEF Init, Inv
<1> DEFINE load == Loading(t, TRUE)
<1>2. loads[t] = SetToBag({load}) /\ version[t] = 0
  BY DEF Init
<1>3. load.read = None /\ load \in LoadUpTo(0)
  BY DEF Loading, LoadUpTo
<1> HIDE DEF load
<1>4. loads[t] = [e \in {load} |-> 1]
  BY <1>2 DEF SetToBag
<1>5. IsABag(loads[t]) /\ BagToSet(loads[t]) = {load}
  BY <1>4 DEF IsABag, BagToSet
<1>6. Copies(loads[t]) = {<<load, 1>>}
  BY <1>4 DEF Copies
<1>7. IsFiniteSet(Copies(loads[t])) /\ UnderWay(t) = 1
  <2> DEFINE c == <<load, 1>>
  <2>1. IsFiniteSet({c}) /\ Cardinality({c}) = 1
    BY FS_Singleton
  <2>2. QED
    BY <1>6, <2>1 DEF UnderWay
<1>8. MaxLoads[t] >= 1
  OBVIOUS
<1>9. QED
  BY <1>2, <1>3, <1>5, <1>7, <1>8 DEF LoadsOK, Told, WillRead

----------------------------------------------------------------------------
(* Each action preserves the invariant. *)

(* The requests under way stay as good as they are. *)
LEMMA SameLoads ==
  ASSUME Inv, version' = version, loads' = loads
  PROVE  loads' = [t \in Topics |-> loads'[t]] /\ \A t \in Topics : LoadsOK(t)'
BY DEF Inv, LoadsOK, UnderWay

(* A step that touches neither what the server has nor the loads, and      *)
(* tells the page of what it was going to be told.                         *)
LEMMA PollStep ==
  ASSUME Inv, version' = version, loads' = loads, shown' = shown,
         unsent' \in [Topics -> Nat],
         missed' \in [Topics -> BOOLEAN], editing' \in BOOLEAN,
         faults' \in 0 .. MaxFaults, PollOK',
         \A t \in Topics :
           /\ unsent'[t] <= unsent[t]
           /\ missed[t] => missed'[t]
           /\ unsent[t] > 0 => unsent'[t] > 0 \/ Hears(t)' \/ missed'[t]
           /\ Hears(t) => Hears(t)' \/ missed'[t]
  PROVE  Inv'
<1>1. loads' = [t \in Topics |-> loads'[t]] /\ \A t \in Topics : LoadsOK(t)'
  BY SameLoads
<1>2. Changed'
  BY DEF Inv, Changed
<1>3. PageOK'
  BY DEF Inv, PageOK
<1>4. ASSUME NEW t \in Topics PROVE Told(t)'
  <2>1. Told(t)
    BY DEF Inv
  <2>2. WillRead(t) => WillRead(t)'
    BY DEF WillRead
  <2>3. QED
    BY <2>1, <2>2 DEF Told
<1>5. QED
  BY <1>1, <1>2, <1>3, <1>4 DEF Inv

(* A change is still to be announced. *)
LEMMA ChangeStep ==
  ASSUME Inv, NEW t \in Topics, Change(t)
  PROVE  Inv'
<1> USE NotifyAssumption
<1>1. /\ version["requests"] + version["backends"] < MaxChanges
      /\ version' = [version EXCEPT ![t] = @ + 1]
      /\ unsent' = [unsent EXCEPT ![t] = @ + 1]
      /\ poll' = poll /\ loads' = loads /\ shown' = shown /\ missed' = missed
      /\ editing' = editing /\ faults' = faults
  BY DEF Change
<1>2. Changed
  BY DEF Inv
<1>3. /\ version' \in [Topics -> Nat] /\ unsent' \in [Topics -> Nat]
      /\ \A q \in Topics :
           /\ version[q] \in Nat /\ unsent[q] \in Nat
           /\ version'[q] = IF q = t THEN version[q] + 1 ELSE version[q]
           /\ unsent'[q] = IF q = t THEN unsent[q] + 1 ELSE unsent[q]
  BY <1>1, <1>2 DEF Changed
<1>4. Changed'
  <2>1. version'["requests"] + version'["backends"] <= MaxChanges
    <3>1. /\ "requests" \in Topics /\ "backends" \in Topics /\ t \in {"requests", "backends"}
      BY DEF Topics
    <3>2. QED
      BY <1>1, <1>3, <3>1
  <2>2. \A q \in Topics : unsent'[q] <= version'[q]
    BY <1>2, <1>3 DEF Changed
  <2>3. QED
    BY <1>3, <2>1, <2>2 DEF Changed
<1>5. ASSUME NEW q \in Topics PROVE LoadsOK(q)'
  <2>1. LoadUpTo(version[q]) \subseteq LoadUpTo(version'[q])
    BY <1>3 DEF LoadUpTo
  <2>2. QED
    BY <1>1, <2>1 DEF Inv, LoadsOK, UnderWay
<1>6. ASSUME NEW q \in Topics PROVE Told(q)'
  <2>1. CASE q = t
    BY <1>3, <2>1 DEF Told
  <2>2. CASE q # t
    <3>1. version'[q] = version[q] /\ unsent'[q] = unsent[q]
      BY <1>3, <2>2
    <3>2. QED
      BY <1>1, <3>1 DEF Inv, Told, Hears, WillRead
  <2>3. QED
    BY <2>1, <2>2
<1>7. PollOK' /\ PageOK' /\ loads' = [q \in Topics |-> loads'[q]]
  BY <1>1 DEF Inv, PollOK, PageOK
<1>8. QED
  BY <1>4, <1>5, <1>6, <1>7 DEF Inv

(* An event reaches the subscribed page, or nobody. *)
LEMMA AnnounceStep ==
  ASSUME Inv, NEW t \in Topics, Announce(t)
  PROVE  Inv'
<1>1. /\ unsent[t] > 0 /\ unsent' = [unsent EXCEPT ![t] = @ - 1]
      /\ poll' = IF Subscribed THEN [poll EXCEPT !.unread = Append(@, t)] ELSE poll
      /\ missed' = [missed EXCEPT ![t] = @ \/ ~ Subscribed]
      /\ version' = version /\ loads' = loads /\ shown' = shown
      /\ editing' = editing /\ faults' = faults
  BY DEF Announce
<1>2. Changed /\ PollOK /\ PageOK
  BY DEF Inv
<1>3. /\ unsent' \in [Topics -> Nat]
      /\ \A q \in Topics :
           /\ unsent[q] \in Nat
           /\ unsent'[q] = IF q = t THEN unsent[q] - 1 ELSE unsent[q]
  BY <1>1, <1>2 DEF Changed
<1>4. /\ missed' \in [Topics -> BOOLEAN]
      /\ \A q \in Topics : missed[q] => missed'[q]
      /\ ~ Subscribed => missed'[t]
  BY <1>1, <1>2 DEF PageOK
<1>5. /\ PollOK' /\ (Subscribed => Hears(t)')
      /\ \A q \in Topics : Hears(q) => Hears(q)'
  <2>1. CASE Subscribed
    <3>1. /\ poll \in [at : {"waiting", "draining", "answered"}, unread : Seq(Topics),
                      events : SUBSET Topics]
          /\ poll.at \in {"waiting", "draining"}
      BY <1>2, <2>1 DEF PollOK, Off, Subscribed
    <3>2. /\ poll' = [poll EXCEPT !.unread = Append(@, t)]
          /\ Append(poll.unread, t) \in Seq(Topics)
          /\ ToSet(Append(poll.unread, t)) = ToSet(poll.unread) \cup {t}
      BY <1>1, <2>1, <3>1, EventsOf
    <3>3. /\ poll' \in [at : {"waiting", "draining", "answered"}, unread : Seq(Topics),
                       events : SUBSET Topics]
          /\ poll'.unread = Append(poll.unread, t) /\ poll'.events = poll.events
          /\ poll'.at = poll.at
      BY <3>1, <3>2
    <3>4. poll' # Off
      BY <3>1, <3>3 DEF Off
    <3>5. PollOK'
      BY <1>2, <3>1, <3>3 DEF PollOK, Off
    <3>6. QED
      BY <3>2, <3>3, <3>4, <3>5 DEF Hears
  <2>2. CASE ~ Subscribed
    BY <1>1, <1>2, <2>2 DEF PollOK, Hears
  <2>3. QED
    BY <2>1, <2>2
<1>6. ASSUME NEW q \in Topics
      PROVE  /\ unsent'[q] <= unsent[q]
             /\ unsent[q] > 0 => unsent'[q] > 0 \/ Hears(q)' \/ missed'[q]
  BY <1>3, <1>4, <1>5
<1>7. editing' \in BOOLEAN /\ faults' \in 0 .. MaxFaults
  BY <1>1, <1>2 DEF PageOK
<1>8. QED
  BY <1>1, <1>3, <1>4, <1>5, <1>6, <1>7, PollStep

(* A change whose handler is dropped is missed. *)
LEMMA UnannouncedStep ==
  ASSUME Inv, Unannounced
  PROVE  Inv'
<1> DEFINE t == "requests"
<1>1. /\ unsent[t] > 0 /\ unsent' = [unsent EXCEPT ![t] = @ - 1]
      /\ missed' = [missed EXCEPT ![t] = TRUE]
      /\ poll' = poll /\ version' = version /\ loads' = loads /\ shown' = shown
      /\ editing' = editing /\ faults' = faults
  BY DEF Unannounced
<1>2. Changed /\ PollOK /\ PageOK /\ t \in Topics
  BY DEF Inv, Topics
<1> HIDE DEF t
<1>3. /\ unsent' \in [Topics -> Nat]
      /\ \A q \in Topics :
           /\ unsent[q] \in Nat
           /\ unsent'[q] = IF q = t THEN unsent[q] - 1 ELSE unsent[q]
  BY <1>1, <1>2 DEF Changed
<1>4. /\ missed' \in [Topics -> BOOLEAN] /\ missed'[t]
      /\ \A q \in Topics : missed[q] => missed'[q]
  BY <1>1, <1>2 DEF PageOK
<1>5. PollOK' /\ \A q \in Topics : Hears(q) => Hears(q)'
  BY <1>1, <1>2 DEF PollOK, Hears
<1>6. ASSUME NEW q \in Topics
      PROVE  /\ unsent'[q] <= unsent[q]
             /\ unsent[q] > 0 => unsent'[q] > 0 \/ Hears(q)' \/ missed'[q]
  BY <1>3, <1>4
<1>7. editing' \in BOOLEAN /\ faults' \in 0 .. MaxFaults
  BY <1>1, <1>2 DEF PageOK
<1>8. QED
  BY <1>1, <1>3, <1>4, <1>5, <1>6, <1>7, PollStep

(* The steps of the poll, on the server and on the page: whatever event    *)
(* they lose is counted as missed.                                         *)
LEMMA ReceiverSteps ==
  ASSUME Inv, Subscribe \/ Receive \/ Timeout \/ Drain \/ PollFails
  PROVE  Inv'
<1> DEFINE Polls == [at : {"waiting", "draining", "answered"}, unread : Seq(Topics),
                     events : SUBSET Topics]
<1> USE NotifyAssumption
<1>1. Changed /\ PollOK /\ PageOK
  BY DEF Inv
<1>2. /\ version' = version /\ loads' = loads /\ shown' = shown /\ unsent' = unsent
      /\ editing' = editing
  BY DEF Subscribe, Receive, Timeout, Drain, PollFails
<1>3. faults' \in 0 .. MaxFaults
  BY <1>1 DEF PageOK, Subscribe, Receive, Timeout, Drain, PollFails
<1>4. /\ missed' \in [Topics -> BOOLEAN]
      /\ \A t \in Topics : missed[t] => missed'[t]
  BY <1>1 DEF PageOK, Subscribe, Receive, Timeout, Drain, PollFails, Miss
<1>5. PollOK' /\ \A t \in Topics : Hears(t) => Hears(t)' \/ missed'[t]
  <2>1. CASE Subscribe
    <3>1. poll' = [at |-> "waiting", unread |-> << >>, events |-> {}] /\ poll.at = "off"
      BY <2>1 DEF Subscribe
    <3>2. poll = Off
      BY <1>1, <3>1 DEF PollOK
    <3>3. QED
      BY <3>1, <3>2, EmptySeq DEF PollOK, Hears
  <2>2. CASE Timeout
    <3>1. poll \in Polls /\ poll' = [poll EXCEPT !.at = "draining"]
      BY <1>1, <2>2 DEF PollOK, Timeout, Off
    <3>2. QED
      BY <3>1 DEF PollOK, Hears, Off
  <2>3. CASE PollFails
    <3>1. poll' = Off /\ Miss(poll.events \cup ToSet(poll.unread))
      BY <2>3 DEF PollFails
    <3>2. QED
      BY <3>1 DEF PollOK, Hears, Miss
  <2>4. CASE Receive /\ Lagged
    <3> DEFINE s == poll.unread
               k == Len(s) - Capacity
    <3>1. /\ poll \in Polls
          /\ poll' = [poll EXCEPT !.at = "draining", !.unread = SubSeq(s, k + 1, Len(s))]
          /\ Miss(ToSet(SubSeq(s, 1, k))) /\ Len(s) > Capacity
      BY <1>1, <2>4 DEF PollOK, Receive, Lagged, Lost, Off
    <3>2. s \in Seq(Topics) /\ k \in 0 .. Len(s)
      BY <3>1, LenProperties
    <3>3. /\ SubSeq(s, k + 1, Len(s)) \in Seq(Topics)
          /\ ToSet(s) = ToSet(SubSeq(s, 1, k)) \cup ToSet(SubSeq(s, k + 1, Len(s)))
      BY <3>2, EventsCut
    <3>4. /\ poll' \in Polls /\ poll'.at = "draining" /\ poll'.events = poll.events
          /\ poll'.unread = SubSeq(s, k + 1, Len(s))
      BY <3>1, <3>3
    <3>5. \A t \in ToSet(SubSeq(s, 1, k)) : t \in Topics => missed'[t]
      BY <3>1 DEF Miss
    <3> HIDE DEF k
    <3>6. QED
      BY <3>3, <3>4, <3>5 DEF PollOK, Hears, Off
  <2>5. CASE Receive /\ ~ Lagged
    <3> DEFINE s == poll.unread
    <3>1. /\ poll \in Polls /\ poll.at = "waiting" /\ s # << >>
          /\ poll' = [at |-> "draining", unread |-> Tail(s), events |-> {Head(s)}]
      BY <1>1, <2>5 DEF PollOK, Receive, Off
    <3>2. /\ Head(s) \in Topics /\ Tail(s) \in Seq(Topics)
          /\ ToSet(s) = ToSet(Tail(s)) \cup {Head(s)}
      BY <3>1, EventsOf
    <3>3. /\ poll' \in Polls /\ poll'.at = "draining" /\ poll'.unread = Tail(s)
          /\ poll'.events = {Head(s)}
      BY <3>1, <3>2
    <3>4. PollOK'
      BY <3>3 DEF PollOK
    <3>5. poll' # Off
      BY <3>3 DEF Off
    <3>6. poll.events = {}
      BY <1>1, <3>1 DEF PollOK, Off
    <3>7. QED
      BY <3>2, <3>3, <3>4, <3>5, <3>6 DEF Hears
  <2>6. CASE Drain /\ poll.unread # << >> /\ ~ Lagged
    <3> DEFINE s == poll.unread
    <3>1. /\ poll \in Polls /\ poll.at = "draining" /\ s # << >>
          /\ poll' = [poll EXCEPT !.unread = Tail(s), !.events = @ \cup {Head(s)}]
      BY <1>1, <2>6 DEF PollOK, Drain, Off
    <3>2. /\ Head(s) \in Topics /\ Tail(s) \in Seq(Topics)
          /\ ToSet(s) = ToSet(Tail(s)) \cup {Head(s)}
      BY <3>1, EventsOf
    <3>3. /\ poll' \in Polls /\ poll'.at = "draining" /\ poll'.unread = Tail(s)
          /\ poll'.events = poll.events \cup {Head(s)}
      BY <3>1, <3>2
    <3>4. PollOK'
      BY <3>3 DEF PollOK
    <3>5. poll' # Off
      BY <3>3 DEF Off
    <3>6. QED
      BY <3>2, <3>3, <3>4, <3>5 DEF Hears
  <2>7. CASE Drain /\ ~ (poll.unread # << >> /\ ~ Lagged)
    <3>1. /\ poll \in Polls /\ Miss(ToSet(poll.unread))
          /\ poll' = [poll EXCEPT !.at = "answered", !.unread = << >>]
      BY <1>1, <2>7 DEF PollOK, Drain, Off
    <3>2. << >> \in Seq(Topics)
      BY EmptySeq
    <3>3. /\ poll' \in Polls /\ poll'.unread = << >> /\ poll'.events = poll.events
          /\ poll'.at = "answered"
          /\ \A t \in ToSet(poll.unread) : t \in Topics => missed'[t]
      BY <3>1, <3>2 DEF Miss
    <3>4. QED
      BY <3>3 DEF PollOK, Hears, Off
  <2>8. QED
    BY <2>1, <2>2, <2>3, <2>4, <2>5, <2>6, <2>7
<1>6. /\ unsent' \in [Topics -> Nat] /\ editing' \in BOOLEAN
      /\ \A t \in Topics : unsent'[t] <= unsent[t]
  BY <1>1, <1>2 DEF Changed, PageOK
<1>7. QED
  BY <1>2, <1>3, <1>4, <1>5, <1>6, PollStep

(* The loads of some topics begin: each will read what the server has, or  *)
(* is held back and counted as missed.                                     *)
LEMMA LoadBegins ==
  ASSUME Inv, NEW topics \in SUBSET Topics, NEW forced \in BOOLEAN,
         Load(topics, forced), version' = version
  PROVE  /\ loads' = [t \in Topics |-> loads'[t]]
         /\ missed' \in [Topics -> BOOLEAN]
         /\ \A t \in Topics :
              /\ LoadsOK(t)'
              /\ missed[t] => missed'[t]
              /\ WillRead(t) => WillRead(t)'
              /\ t \in topics => WillRead(t)' \/ missed'[t]
<1> USE NotifyAssumption
<1> DEFINE begun == {t \in topics : ~ Held(t, forced)}
<1>1. /\ \A t \in begun : UnderWay(t) < MaxLoads[t]
      /\ loads' = [t \in Topics |->
           IF t \in begun THEN loads[t] (+) One(Loading(t, forced)) ELSE loads[t]]
      /\ Miss(topics \ begun)
  BY DEF Load
<1> HIDE DEF begun
<1>2. loads' = [t \in Topics |-> loads'[t]]
  BY <1>1
<1>3. missed' \in [Topics -> BOOLEAN] /\ \A t \in Topics : missed[t] => missed'[t]
  BY <1>1 DEF Miss, Inv, PageOK
<1>4. ASSUME NEW t \in begun, t \in Topics
      PROVE  LoadsOK(t)' /\ WillRead(t)' /\ BagToSet(loads[t]) \subseteq BagToSet(loads'[t])
  <2> DEFINE load == Loading(t, forced)
  <2>1. load \in LoadUpTo(version[t]) /\ load.read = None
    BY DEF Loading, LoadUpTo
  <2> HIDE DEF load
  <2>2. loads'[t] = loads[t] (+) One(load)
    BY <1>1, <1>4 DEF load
  <2>3. /\ IsABag(loads[t]) /\ IsFiniteSet(Copies(loads[t]))
        /\ BagToSet(loads[t]) \subseteq LoadUpTo(version[t])
    BY <1>4 DEF Inv, LoadsOK
  <2>4. /\ IsABag(loads'[t]) /\ BagToSet(loads'[t]) = BagToSet(loads[t]) \cup {load}
        /\ IsFiniteSet(Copies(loads'[t]))
        /\ Cardinality(Copies(loads'[t])) = Cardinality(Copies(loads[t])) + 1
    BY <2>2, <2>3, AddCopy
  <2>5. UnderWay(t)' <= MaxLoads[t]
    <3>1. Cardinality(Copies(loads[t])) \in Nat /\ MaxLoads[t] \in Nat
      BY <1>4, <2>3, FS_CardinalityType
    <3>2. Cardinality(Copies(loads[t])) < MaxLoads[t]
      BY <1>1, <1>4 DEF UnderWay
    <3>3. QED
      BY <2>4, <3>1, <3>2 DEF UnderWay
  <2>6. LoadsOK(t)'
    BY <2>1, <2>3, <2>4, <2>5 DEF LoadsOK
  <2>7. WillRead(t)'
    BY <2>1, <2>4 DEF WillRead
  <2>8. QED
    BY <2>4, <2>6, <2>7
<1>5. ASSUME NEW t \in Topics, t \notin begun
      PROVE  LoadsOK(t)' /\ loads'[t] = loads[t]
  BY <1>1, <1>5 DEF Inv, LoadsOK, UnderWay
<1>6. ASSUME NEW t \in Topics
      PROVE  LoadsOK(t)' /\ (WillRead(t) => WillRead(t)')
  BY <1>4, <1>5 DEF WillRead
<1>7. ASSUME NEW t \in topics PROVE WillRead(t)' \/ missed'[t]
  <2>1. CASE t \in begun
    BY <1>4, <2>1
  <2>2. CASE t \notin begun
    BY <1>1, <2>2 DEF Miss
  <2>3. QED
    BY <2>1, <2>2
<1>8. QED
  BY <1>2, <1>3, <1>6, <1>7

(* The page acts on the answer of its poll, on its timer, or reloads. *)
LEMMA LoadSteps ==
  ASSUME Inv, Answer \/ Fallback \/ Reload
  PROVE  Inv'
<1>1. Changed /\ PollOK /\ PageOK
  BY DEF Inv
<1>2. /\ version' = version /\ unsent' = unsent /\ shown' = shown
      /\ editing' = editing /\ faults' = faults
  BY DEF Answer, Fallback, Reload
<1>3. PICK topics \in SUBSET Topics, forced \in BOOLEAN :
        /\ Load(topics, forced)
        /\ \/ poll' = poll
           \/ poll.at = "answered" /\ poll' = Off /\ topics = poll.events
  <2>1. CASE Answer
    <3>1. poll.events \in SUBSET Topics
      BY <1>1, <2>1 DEF PollOK, Answer, Off
    <3>2. QED
      BY <2>1, <3>1 DEF Answer
  <2>2. CASE Fallback \/ Reload
    BY <2>2 DEF Fallback, Reload
  <2>3. QED
    BY <2>1, <2>2
<1>4. /\ loads' = [t \in Topics |-> loads'[t]]
      /\ missed' \in [Topics -> BOOLEAN]
      /\ \A t \in Topics :
           /\ LoadsOK(t)'
           /\ missed[t] => missed'[t]
           /\ WillRead(t) => WillRead(t)'
           /\ t \in topics => WillRead(t)' \/ missed'[t]
  BY <1>2, <1>3, LoadBegins
<1>5. PollOK'
  BY <1>1, <1>3 DEF PollOK
<1>6. ASSUME NEW t \in Topics PROVE Told(t)'
  <2>1. Told(t)
    BY DEF Inv
  <2>2. Hears(t) => Hears(t)' \/ t \in topics
    <3>1. CASE poll' = poll
      BY <3>1 DEF Hears
    <3>2. CASE poll.at = "answered" /\ topics = poll.events
      <4>1. poll.unread = << >>
        BY <1>1, <3>2 DEF PollOK, Off
      <4>2. ToSet(poll.unread) = {}
        BY <4>1 DEF ToSet
      <4>3. QED
        BY <3>2, <4>2 DEF Hears
    <3>3. QED
      BY <1>3, <3>1, <3>2
  <2>3. QED
    BY <1>2, <1>4, <2>1, <2>2 DEF Told
<1>7. Changed' /\ PageOK'
  BY <1>1, <1>2, <1>4 DEF Changed, PageOK
<1>8. QED
  BY <1>4, <1>5, <1>6, <1>7 DEF Inv

(* The other topic's loads and what it knows are as they were. *)
LEMMA OtherTopic ==
  ASSUME Inv, NEW t \in Topics, version' = version, unsent' = unsent, poll' = poll,
         loads'[t] = loads[t], shown'[t] = shown[t], missed[t] => missed'[t]
  PROVE  LoadsOK(t)' /\ Told(t)'
BY DEF Inv, LoadsOK, UnderWay, Told, Hears, WillRead

(* A step of one load of t. *)
LEMMA OneLoad ==
  ASSUME Inv, NEW t \in Topics, NEW new,
         version' = version, unsent' = unsent, poll' = poll, editing' = editing,
         loads' = [loads EXCEPT ![t] = new], LoadsOK(t)', Told(t)',
         shown' \in [Topics -> Versions \cup {None}], missed' \in [Topics -> BOOLEAN],
         faults' \in 0 .. MaxFaults,
         \A q \in Topics \ {t} : shown'[q] = shown[q] /\ (missed[q] => missed'[q])
  PROVE  Inv'
<1>1. Changed' /\ PollOK' /\ PageOK'
  BY DEF Inv, Changed, PollOK, PageOK
<1>2. /\ loads' = [q \in Topics |-> loads'[q]]
      /\ \A q \in Topics \ {t} : loads'[q] = loads[q]
  BY DEF Inv
<1>3. ASSUME NEW q \in Topics, q # t PROVE LoadsOK(q)' /\ Told(q)'
  BY <1>2, <1>3, OtherTopic
<1>4. QED
  BY <1>1, <1>2, <1>3 DEF Inv

(* One request less is under way. *)
LEMMA LoadGone ==
  ASSUME Inv, NEW t \in Topics, NEW load \in BagToSet(loads[t])
  PROVE  LET rest == loads[t] (-) One(load) IN
         /\ IsABag(rest) /\ IsFiniteSet(Copies(rest))
         /\ BagToSet(rest) \subseteq LoadUpTo(version[t])
         /\ BagToSet(loads[t]) \subseteq BagToSet(rest) \cup {load}
         /\ Cardinality(Copies(rest)) + 1 <= MaxLoads[t]
         /\ Cardinality(Copies(rest)) \in Nat
<1> DEFINE rest == loads[t] (-) One(load)
<1>1. /\ IsABag(loads[t]) /\ IsFiniteSet(Copies(loads[t]))
      /\ BagToSet(loads[t]) \subseteq LoadUpTo(version[t])
      /\ Cardinality(Copies(loads[t])) <= MaxLoads[t]
  BY DEF Inv, LoadsOK, UnderWay
<1>2. /\ IsABag(rest) /\ BagToSet(rest) \subseteq BagToSet(loads[t])
      /\ BagToSet(loads[t]) \subseteq BagToSet(rest) \cup {load}
      /\ IsFiniteSet(Copies(rest))
      /\ Cardinality(Copies(rest)) = Cardinality(Copies(loads[t])) - 1
  BY <1>1, RemoveCopy
<1> HIDE DEF rest
<1>3. Cardinality(Copies(rest)) \in Nat /\ Cardinality(Copies(loads[t])) \in Nat
  BY <1>1, <1>2, FS_CardinalityType
<1>4. MaxLoads[t] \in Nat
  BY NotifyAssumption
<1>5. Cardinality(Copies(rest)) + 1 <= MaxLoads[t]
  BY <1>1, <1>2, <1>3, <1>4
<1>6. QED
  BY <1>1, <1>2, <1>3, <1>5 DEF rest

(* A load reads what the server has. *)
LEMMA ReadStep ==
  ASSUME Inv, NEW t \in Topics, Read(t)
  PROVE  Inv'
<1>1. PICK load \in BagToSet(loads[t]) :
        /\ load.read = None
        /\ loads' = [loads EXCEPT ![t] =
             (@ (-) One(load)) (+) One([load EXCEPT !.read = version[t]])]
  BY DEF Read
<1>2. /\ version' = version /\ unsent' = unsent /\ poll' = poll /\ shown' = shown
      /\ editing' = editing /\ faults' = faults /\ missed' = missed
  BY DEF Read
<1> DEFINE rest == loads[t] (-) One(load)
           back == [load EXCEPT !.read = version[t]]
           new == rest (+) One(back)
<1>3. back \in LoadUpTo(version[t]) /\ back.read = version[t]
  <2>1. load \in LoadUpTo(version[t]) /\ version[t] \in Nat
    BY DEF Inv, LoadsOK, Changed
  <2>2. QED
    BY <2>1 DEF LoadUpTo
<1>4. loads' = [loads EXCEPT ![t] = new] /\ loads'[t] = new
  BY <1>1 DEF Inv
<1>5. /\ IsABag(rest) /\ IsFiniteSet(Copies(rest))
      /\ BagToSet(rest) \subseteq LoadUpTo(version[t])
      /\ Cardinality(Copies(rest)) + 1 <= MaxLoads[t]
  BY LoadGone
<1> HIDE DEF rest, back
<1>6. /\ IsABag(new) /\ BagToSet(new) = BagToSet(rest) \cup {back}
      /\ IsFiniteSet(Copies(new))
      /\ Cardinality(Copies(new)) = Cardinality(Copies(rest)) + 1
  BY <1>5, AddCopy
<1> HIDE DEF new
<1>7. LoadsOK(t)'
  BY <1>2, <1>3, <1>4, <1>5, <1>6 DEF LoadsOK, UnderWay
<1>8. Told(t)'
  BY <1>2, <1>3, <1>4, <1>6 DEF Told, WillRead
<1>9. shown' \in [Topics -> Versions \cup {None}] /\ missed' \in [Topics -> BOOLEAN]
      /\ faults' \in 0 .. MaxFaults
  BY <1>2 DEF Inv, PageOK
<1>10. QED
  BY <1>2, <1>4, <1>7, <1>8, <1>9, OneLoad

(* An answer arrives: a page that showed the last version and is made to   *)
(* show an older one has been overtaken.                                   *)
LEMMA DeliverStep ==
  ASSUME Inv, NEW t \in Topics, Deliver(t)
  PROVE  Inv'
<1> USE NotifyAssumption
<1>1. PICK load \in BagToSet(loads[t]) :
        /\ load.read # None
        /\ IF Held(t, load.forced)
           THEN Miss({t}) /\ UNCHANGED shown
           ELSE /\ shown' = [shown EXCEPT ![t] = load.read]
                /\ missed' = [missed EXCEPT ![t] =
                     IF load.read = version[t] THEN FALSE
                     ELSE @ \/ shown[t] \in load.read + 1 .. MaxChanges]
        /\ loads' = [loads EXCEPT ![t] = @ (-) One(load)]
  BY DEF Deliver
<1>2. /\ version' = version /\ unsent' = unsent /\ poll' = poll
      /\ editing' = editing /\ faults' = faults
  BY DEF Deliver
<1> DEFINE rest == loads[t] (-) One(load)
<1>3. load.read \in 0 .. version[t] /\ version[t] \in 0 .. MaxChanges
  <2>1. load \in LoadUpTo(version[t])
    BY DEF Inv, LoadsOK
  <2>2. /\ version["requests"] \in Nat /\ version["backends"] \in Nat
        /\ version["requests"] + version["backends"] <= MaxChanges
        /\ t \in {"requests", "backends"}
    BY DEF Inv, Changed, Topics
  <2>3. QED
    BY <1>1, <2>1, <2>2 DEF LoadUpTo
<1>4. loads' = [loads EXCEPT ![t] = rest] /\ loads'[t] = rest
  BY <1>1 DEF Inv
<1>5. /\ IsABag(rest) /\ IsFiniteSet(Copies(rest))
      /\ BagToSet(rest) \subseteq LoadUpTo(version[t])
      /\ BagToSet(loads[t]) \subseteq BagToSet(rest) \cup {load}
      /\ Cardinality(Copies(rest)) + 1 <= MaxLoads[t]
      /\ Cardinality(Copies(rest)) \in Nat
  BY LoadGone
<1> HIDE DEF rest
<1>6. LoadsOK(t)'
  <2>1. MaxLoads[t] \in Nat
    OBVIOUS
  <2>2. Cardinality(Copies(rest)) <= MaxLoads[t]
    BY <1>5, <2>1
  <2>3. QED
    BY <1>2, <1>4, <1>5, <2>2 DEF LoadsOK, UnderWay
<1>7. /\ shown \in [Topics -> Versions \cup {None}] /\ missed \in [Topics -> BOOLEAN]
      /\ faults' \in 0 .. MaxFaults
  BY <1>2 DEF Inv, PageOK
<1>8. CASE Held(t, load.forced)
  <2>1. /\ shown' = shown /\ missed' \in [Topics -> BOOLEAN] /\ missed'[t]
        /\ \A q \in Topics : missed[q] => missed'[q]
    BY <1>1, <1>7, <1>8 DEF Miss
  <2>2. Told(t)'
    BY <2>1 DEF Told
  <2>3. QED
    BY <1>2, <1>4, <1>6, <1>7, <2>1, <2>2, OneLoad
<1>9. CASE ~ Held(t, load.forced)
  <2> DEFINE late == shown[t] \in load.read + 1 .. MaxChanges
  <2>1. /\ shown' = [shown EXCEPT ![t] = load.read]
        /\ missed' = [missed EXCEPT ![t] =
             IF load.read = version[t] THEN FALSE ELSE missed[t] \/ late]
    BY <1>1, <1>9
  <2>2. load.read \in Versions /\ late \in BOOLEAN
    BY <1>3 DEF Versions
  <2>3. shown[t] = version[t] /\ load.read # version[t] => late
    BY <1>3
  <2> HIDE DEF late
  <2>4. /\ shown' \in [Topics -> Versions \cup {None}] /\ shown'[t] = load.read
        /\ \A q \in Topics \ {t} : shown'[q] = shown[q]
    BY <1>7, <2>1, <2>2
  <2>5. /\ missed' \in [Topics -> BOOLEAN]
        /\ load.read # version[t] => missed'[t] = (missed[t] \/ late)
        /\ \A q \in Topics \ {t} : missed'[q] = missed[q]
    BY <1>7, <2>1, <2>2
  <2>6. Told(t)'
    <3>1. CASE load.read = version[t]
      BY <1>2, <2>4, <3>1 DEF Told
    <3>2. CASE load.read # version[t]
      <4>1. Told(t)
        BY DEF Inv
      <4>2. WillRead(t) => WillRead(t)'
        BY <1>1, <1>2, <1>4, <1>5, <3>2 DEF WillRead
      <4>3. Hears(t) => Hears(t)'
        BY <1>2 DEF Hears
      <4>4. QED
        BY <1>2, <2>3, <2>5, <3>2, <4>1, <4>2, <4>3 DEF Told
    <3>3. QED
      BY <3>1, <3>2
  <2>7. QED
    BY <1>2, <1>4, <1>6, <1>7, <2>4, <2>5, <2>6, OneLoad
<1>10. QED
  BY <1>8, <1>9

(* A load fails, and the page has missed what it was to show. *)
LEMMA LoadFailsStep ==
  ASSUME Inv, NEW t \in Topics, LoadFails(t)
  PROVE  Inv'
<1> USE NotifyAssumption
<1>1. PICK load \in BagToSet(loads[t]) :
        loads' = [loads EXCEPT ![t] = @ (-) One(load)]
  BY DEF LoadFails
<1>2. /\ version' = version /\ unsent' = unsent /\ poll' = poll
      /\ editing' = editing /\ faults' = faults + 1 /\ faults < MaxFaults
      /\ shown' = [shown EXCEPT ![t] = None] /\ Miss({t})
  BY DEF LoadFails
<1> DEFINE rest == loads[t] (-) One(load)
<1>3. loads' = [loads EXCEPT ![t] = rest] /\ loads'[t] = rest
  BY <1>1 DEF Inv
<1>4. /\ IsABag(rest) /\ IsFiniteSet(Copies(rest))
      /\ BagToSet(rest) \subseteq LoadUpTo(version[t])
      /\ Cardinality(Copies(rest)) + 1 <= MaxLoads[t]
      /\ Cardinality(Copies(rest)) \in Nat
  BY LoadGone
<1> HIDE DEF rest
<1>5. LoadsOK(t)'
  <2>1. MaxLoads[t] \in Nat
    OBVIOUS
  <2>2. Cardinality(Copies(rest)) <= MaxLoads[t]
    BY <1>4, <2>1
  <2>3. QED
    BY <1>2, <1>3, <1>4, <2>2 DEF LoadsOK, UnderWay
<1>6. /\ shown' \in [Topics -> Versions \cup {None}]
      /\ missed' \in [Topics -> BOOLEAN] /\ missed'[t]
      /\ faults' \in 0 .. MaxFaults
      /\ \A q \in Topics \ {t} : shown'[q] = shown[q] /\ (missed[q] => missed'[q])
  <2>1. PageOK
    BY DEF Inv
  <2>2. /\ missed' \in [Topics -> BOOLEAN] /\ missed'[t]
        /\ \A q \in Topics \ {t} : missed[q] => missed'[q]
    BY <1>2, <2>1 DEF PageOK, Miss
  <2>3. /\ shown' \in [Topics -> Versions \cup {None}]
        /\ \A q \in Topics \ {t} : shown'[q] = shown[q]
    BY <1>2, <2>1 DEF PageOK
  <2>4. faults' \in 0 .. MaxFaults
    BY <1>2, <2>1 DEF PageOK
  <2>5. QED
    BY <2>2, <2>3, <2>4
<1>7. Told(t)'
  BY <1>6 DEF Told
<1>8. QED
  BY <1>2, <1>3, <1>5, <1>6, <1>7, OneLoad

(* Every step keeps the invariant. *)
LEMMA NextInv == Inv /\ [Next]_vars => Inv'
<1> SUFFICES ASSUME Inv, [Next]_vars PROVE Inv'
  OBVIOUS
<1>1. CASE UNCHANGED vars
  BY <1>1 DEF vars, Inv, Changed, PollOK, PageOK, LoadsOK, UnderWay, Told, Hears,
              WillRead
<1>2. CASE Focus
  BY <1>2 DEF Focus, Inv, Changed, PollOK, PageOK, LoadsOK, UnderWay, Told, Hears,
              WillRead
<1>3. CASE \E t \in Topics : \/ Change(t) \/ Announce(t)
                             \/ Read(t) \/ Deliver(t) \/ LoadFails(t)
  BY <1>3, ChangeStep, AnnounceStep, ReadStep, DeliverStep, LoadFailsStep
<1>4. CASE Unannounced
  BY <1>4, UnannouncedStep
<1>5. CASE Subscribe \/ Receive \/ Timeout \/ Drain \/ PollFails
  BY <1>5, ReceiverSteps
<1>6. CASE Answer \/ Fallback \/ Reload
  BY <1>6, LoadSteps
<1>7. QED
  BY <1>1, <1>2, <1>3, <1>4, <1>5, <1>6 DEF Next

(* Whatever the page shows of a topic is the last version, or it is going  *)
(* to be told of that one, or it has missed a change.                      *)
THEOREM InvHolds == Spec => []Inv
<1>1. QED
  BY InitInv, NextInv, PTL DEF Spec

(* Type correctness, for any bounds: the channel's receiver, the requests  *)
(* under way and the versions shown.                                       *)
THEOREM TypeCorrect == Spec => []TypeOK
<1>1. Inv => TypeOK
  <2> SUFFICES ASSUME Inv PROVE TypeOK
    OBVIOUS
  <2> USE NotifyAssumption
  <2>1. \A t \in Topics : version[t] \in Versions /\ unsent[t] \in Versions
    <3>1. /\ \A t \in Topics : version[t] \in Nat /\ unsent[t] \in Nat
                              /\ unsent[t] <= version[t]
          /\ version["requests"] + version["backends"] <= MaxChanges
      BY DEF Inv, Changed
    <3>2. "requests" \in Topics /\ "backends" \in Topics
      BY DEF Topics
    <3>3. version["requests"] <= MaxChanges /\ version["backends"] <= MaxChanges
      BY <3>1, <3>2
    <3>4. \A t \in Topics : version[t] <= MaxChanges
      BY <3>3 DEF Topics
    <3>5. QED
      BY <3>1, <3>4 DEF Versions
  <2>2. version \in [Topics -> Versions] /\ unsent \in [Topics -> Versions]
    BY <2>1 DEF Inv, Changed
  <2>3. ASSUME NEW t \in Topics
        PROVE  LoadUpTo(version[t]) \subseteq [forced : BOOLEAN, read : Versions \cup {None}]
    <3>1. 0 .. version[t] \subseteq Versions
      BY <2>1 DEF Versions
    <3>2. QED
      BY <3>1 DEF LoadUpTo
  <2>4. QED
    BY <2>2, <2>3 DEF Inv, PollOK, PageOK, LoadsOK, TypeOK
<1>2. QED
  BY <1>1, InvHolds, PTL

(* There is no other way to be stale than the ways the model names, for    *)
(* any capacity of the channel and any overlap of loads.                   *)
THEOREM StaleOnlyForAReason == Spec => []StaleForAReason
<1>1. Inv => StaleForAReason
  <2> SUFFICES ASSUME Inv, NEW t \in Topics, shown[t] # version[t], ~ Coming(t)
               PROVE  missed[t]
    BY DEF StaleForAReason
  <2>1. Told(t) /\ unsent[t] \in Nat
    BY DEF Inv, Changed
  <2>2. loads[t] = EmptyBag /\ ~ (unsent[t] > 0) /\ ~ Hears(t)
    BY DEF Coming, Hears
  <2>3. BagToSet(loads[t]) = {}
    BY <2>2 DEF EmptyBag, SetToBag, BagToSet
  <2>4. ~ WillRead(t)
    BY <2>3 DEF WillRead
  <2>5. QED
    BY <2>1, <2>2, <2>4 DEF Told
<1>2. QED
  BY <1>1, InvHolds, PTL

----------------------------------------------------------------------------
(* Sums *)

(* What holds at 0, and at each number if it holds at the one before, it   *)
(* holds up to k.                                                          *)
LEMMA Upwards ==
  ASSUME NEW k \in Nat, NEW P, 0 \in P, \A n \in 0 .. k - 1 : n \in P => n + 1 \in P
  PROVE  \A n \in 0 .. k : n \in P
<1> DEFINE I == {n \in 0 .. k : n \notin P}
<1>1. SUFFICES ASSUME I # {} PROVE FALSE
  OBVIOUS
<1>2. I \in SUBSET Nat
  OBVIOUS
<1>3. PICK i \in I : \A j \in I : i <= j
  <2> HIDE DEF I
  <2>1. QED
    BY <1>1, <1>2, LeastOf
<1>4. i \in 0 .. k /\ i \notin P /\ i # 0
  OBVIOUS
<1>5. i - 1 \in 0 .. k - 1 /\ i - 1 \in 0 .. k /\ ~ (i <= i - 1) /\ (i - 1) + 1 = i
  BY <1>4
<1>6. i - 1 \in P
  BY <1>3, <1>5
<1>7. QED
  BY <1>4, <1>5, <1>6

(* f adds up v from its beginning. *)
Sums(f, v) ==
  /\ f \in [0 .. Len(v) -> Int] /\ f[0] = 0
  /\ \A n \in 1 .. Len(v) : f[n] = f[n - 1] + v[n]

(* Such a function exists. *)
LEMMA SumsExist ==
  ASSUME NEW v \in Seq(Int)
  PROVE  \E f : Sums(f, v)
<1> DEFINE m == Len(v)
           Upto(f, k) == /\ f \in [0 .. k -> Int] /\ f[0] = 0
                         /\ \A n \in 1 .. k : f[n] = f[n - 1] + v[n]
           P == {k \in 0 .. m : \E f : Upto(f, k)}
<1>1. m \in Nat /\ \A n \in 1 .. m : v[n] \in Int
  BY LenProperties, ElementOfSeq
<1>2. 0 \in P
  <2>1. Upto([n \in 0 .. 0 |-> 0], 0)
    OBVIOUS
  <2> HIDE DEF Upto
  <2>2. QED
    BY <1>1, <2>1
<1> HIDE DEF m
<1>3. ASSUME NEW k \in 0 .. m - 1, k \in P PROVE k + 1 \in P
  <2>1. PICK f : Upto(f, k)
    BY <1>3
  <2> DEFINE g == [n \in 0 .. k + 1 |-> IF n = k + 1 THEN f[k] + v[k + 1] ELSE f[n]]
  <2>2. k \in Nat /\ k + 1 \in 1 .. m /\ k + 1 \in 0 .. m /\ k \in 0 .. k
    BY <1>1
  <2>3. \A n \in 0 .. k + 1 : n \in 0 .. k \/ n = k + 1
    BY <2>2
  <2>4. g \in [0 .. k + 1 -> Int]
    <3>1. f[k] + v[k + 1] \in Int
      BY <1>1, <2>1, <2>2
    <3>2. \A n \in 0 .. k : f[n] \in Int
      BY <2>1
    <3>3. QED
      BY <2>3, <3>1, <3>2
  <2>5. \A n \in 0 .. k : g[n] = f[n]
    BY <2>2
  <2>6. g[k + 1] = f[k] + v[k + 1]
    BY <2>2
  <2> HIDE DEF g
  <2>7. g[0] = 0
    BY <2>1, <2>2, <2>5
  <2>8. ASSUME NEW n \in 1 .. k + 1 PROVE g[n] = g[n - 1] + v[n]
    <3>1. CASE n = k + 1
      BY <2>2, <2>5, <2>6, <3>1
    <3>2. CASE n # k + 1
      <4>1. n \in 1 .. k /\ n \in 0 .. k /\ n - 1 \in 0 .. k
        BY <2>2, <3>2
      <4>2. QED
        BY <2>1, <2>5, <4>1
    <3>3. QED
      BY <3>1, <3>2
  <2>9. Upto(g, k + 1)
    BY <2>4, <2>7, <2>8
  <2> HIDE DEF Upto
  <2>10. QED
    BY <2>2, <2>9
<1> HIDE DEF P
<1>4. m \in P
  <2>1. \A n \in 0 .. m : n \in P
    BY <1>1, <1>2, <1>3, Upwards
  <2>2. QED
    BY <1>1, <2>1
<1>5. PICK f : Upto(f, m)
  BY <1>4 DEF P
<1>6. QED
  BY <1>5 DEF Sums, m

(* SumOf is what such a function has at the end. *)
LEMMA SumOfIs ==
  ASSUME NEW v \in Seq(Int)
  PROVE  \E f : Sums(f, v) /\ SumOf(v) = f[Len(v)]
<1> DEFINE m == Len(v)
           Eq(f) == f = [n \in 0 .. m |-> IF n = 0 THEN 0 ELSE f[n - 1] + v[n]]
           sum == CHOOSE f : Eq(f)
<1>1. m \in Nat /\ \A n \in 1 .. m : v[n] \in Int
  BY LenProperties, ElementOfSeq
<1>2. SumOf(v) = sum[m]
  BY DEF SumOf
<1> HIDE DEF m
<1>3. \E f : Eq(f)
  <2>1. PICK f : Sums(f, v)
    BY SumsExist
  <2>2. f \in [0 .. m -> Int] /\ f[0] = 0 /\ \A n \in 1 .. m : f[n] = f[n - 1] + v[n]
    BY <2>1 DEF Sums, m
  <2>3. \A n \in 0 .. m : n = 0 \/ n \in 1 .. m
    BY <1>1
  <2>4. \A n \in 0 .. m : f[n] = IF n = 0 THEN 0 ELSE f[n - 1] + v[n]
    BY <2>2, <2>3
  <2>5. Eq(f)
    BY <2>2, <2>4
  <2> HIDE DEF Eq
  <2>6. QED
    BY <2>5
<1>4. Eq(sum)
  <2> HIDE DEF Eq
  <2>1. QED
    BY <1>3 DEF sum
<1> HIDE DEF sum
<1>5. /\ sum = [n \in 0 .. m |-> sum[n]] /\ sum[0] = 0
      /\ \A n \in 1 .. m : sum[n] = sum[n - 1] + v[n]
  <2>1. \A n \in 0 .. m : sum[n] = IF n = 0 THEN 0 ELSE sum[n - 1] + v[n]
    BY <1>4
  <2>2. 0 \in 0 .. m /\ \A n \in 1 .. m : n \in 0 .. m /\ n # 0
    BY <1>1
  <2>3. DOMAIN sum = 0 .. m
    BY <1>4
  <2>4. sum = [n \in DOMAIN sum |-> sum[n]]
    BY <1>4
  <2>5. QED
    BY <2>1, <2>2, <2>3, <2>4
<1>6. \A n \in 0 .. m : sum[n] \in Int
  <2> DEFINE P == {n \in 0 .. m : sum[n] \in Int}
  <2>1. 0 \in P
    BY <1>1, <1>5
  <2>2. ASSUME NEW n \in 0 .. m - 1, n \in P PROVE n + 1 \in P
    <3>1. n + 1 \in 1 .. m /\ n + 1 \in 0 .. m /\ (n + 1) - 1 = n
      BY <1>1
    <3>2. sum[n + 1] = sum[n] + v[n + 1]
      BY <1>5, <3>1
    <3>3. QED
      BY <1>1, <2>2, <3>1, <3>2
  <2> HIDE DEF P
  <2>3. \A n \in 0 .. m : n \in P
    BY <1>1, <2>1, <2>2, Upwards
  <2>4. QED
    BY <2>3 DEF P
<1>7. sum \in [0 .. m -> Int]
  BY <1>5, <1>6
<1>8. Sums(sum, v)
  BY <1>5, <1>7 DEF Sums, m
<1>9. QED
  BY <1>2, <1>8 DEF m

(* A sum is a number; that of nothing is 0. *)
LEMMA SumIsInt ==
  ASSUME NEW v \in Seq(Int)
  PROVE  SumOf(v) \in Int /\ (Len(v) = 0 => SumOf(v) = 0)
<1>1. PICK f : Sums(f, v) /\ SumOf(v) = f[Len(v)]
  BY SumOfIs
<1>2. Len(v) \in Nat /\ Len(v) \in 0 .. Len(v)
  BY LenProperties
<1>3. QED
  BY <1>1, <1>2 DEF Sums

(* Where sequences differ by d at the place i, their sums do. *)
LEMMA SumChanges ==
  ASSUME NEW v \in Seq(Int), NEW w \in Seq(Int), Len(w) = Len(v),
         NEW i \in 1 .. Len(v), NEW d \in Int, w[i] = v[i] + d,
         \A j \in 1 .. Len(v) : j # i => w[j] = v[j]
  PROVE  SumOf(w) = SumOf(v) + d
<1> DEFINE m == Len(v)
<1>1. m \in Nat /\ \A n \in 1 .. m : v[n] \in Int
  BY LenProperties, ElementOfSeq
<1>2. PICK f : Sums(f, v) /\ SumOf(v) = f[m]
  BY SumOfIs
<1>3. PICK g : Sums(g, w) /\ SumOf(w) = g[m]
  BY SumOfIs
<1>4. f \in [0 .. m -> Int] /\ f[0] = 0 /\ \A n \in 1 .. m : f[n] = f[n - 1] + v[n]
  BY <1>2 DEF Sums
<1>5. g \in [0 .. m -> Int] /\ g[0] = 0 /\ \A n \in 1 .. m : g[n] = g[n - 1] + w[n]
  BY <1>3 DEF Sums
<1>6. i \in 1 .. m /\ \A j \in 1 .. m : j # i => w[j] = v[j]
  OBVIOUS
<1> HIDE DEF m
<1> DEFINE P == {n \in 0 .. m : g[n] = f[n] + IF i <= n THEN d ELSE 0}
<1>7. 0 \in P
  BY <1>1, <1>4, <1>5, <1>6
<1>8. ASSUME NEW n \in 0 .. m - 1, n \in P PROVE n + 1 \in P
  <2>1. n + 1 \in 1 .. m /\ n + 1 \in 0 .. m /\ (n + 1) - 1 = n /\ n \in 0 .. m
    BY <1>1
  <2>2. f[n + 1] = f[n] + v[n + 1] /\ g[n + 1] = g[n] + w[n + 1]
    BY <1>4, <1>5, <2>1
  <2>3. PICK x \in Int, y \in Int, z \in Int : x = f[n] /\ y = g[n] /\ z = v[n + 1]
    BY <1>1, <1>4, <1>5, <2>1
  <2>4. y = x + IF i <= n THEN d ELSE 0
    BY <1>8, <2>3
  <2>5. CASE n + 1 = i
    <3>1. ~ (i <= n) /\ i <= n + 1
      BY <1>1, <2>5
    <3>2. w[n + 1] = z + d /\ y = x
      BY <2>3, <2>4, <2>5, <3>1
    <3>3. f[n + 1] = x + z /\ g[n + 1] = x + (z + d)
      BY <2>2, <2>3, <3>2
    <3>4. x + (z + d) = x + z + d
      OBVIOUS
    <3>5. QED
      BY <2>1, <3>1, <3>3, <3>4
  <2>6. CASE n + 1 # i
    <3>1. PICK e \in Int : e = (IF i <= n THEN d ELSE 0) /\ e = (IF i <= n + 1 THEN d ELSE 0)
      <4>1. i <= n <=> i <= n + 1
        BY <1>1, <1>6, <2>6
      <4>2. QED
        BY <4>1
    <3>2. w[n + 1] = z /\ y = x + e
      BY <1>6, <2>1, <2>3, <2>4, <2>6, <3>1
    <3>3. f[n + 1] = x + z /\ g[n + 1] = x + e + z
      BY <2>2, <2>3, <3>2
    <3>4. x + e + z = x + z + e
      OBVIOUS
    <3>5. g[n + 1] = f[n + 1] + e
      BY <3>3, <3>4
    <3>6. QED
      BY <2>1, <3>1, <3>5
  <2>7. QED
    BY <2>5, <2>6
<1> HIDE DEF P
<1>9. m \in P
  <2>1. \A n \in 0 .. m : n \in P
    BY <1>1, <1>7, <1>8, Upwards
  <2>2. QED
    BY <1>1, <2>1
<1>10. i <= m
  BY <1>1, <1>6
<1>11. QED
  BY <1>2, <1>3, <1>9, <1>10 DEF P

(* The sum of one more number. *)
LEMMA SumAppended ==
  ASSUME NEW v \in Seq(Int), NEW x \in Int
  PROVE  SumOf(Append(v, x)) = SumOf(v) + x
<1> DEFINE m == Len(v)
           w == Append(v, x)
<1>1. m \in Nat /\ w \in Seq(Int) /\ Len(w) = m + 1 /\ w[m + 1] = x
      /\ \A n \in 1 .. m : w[n] = v[n]
  BY LenProperties, AppendProperties
<1>2. PICK f : Sums(f, v) /\ SumOf(v) = f[m]
  BY SumOfIs
<1> HIDE DEF w
<1>3. PICK g : Sums(g, w) /\ SumOf(w) = g[m + 1]
  BY <1>1, SumOfIs
<1>4. f \in [0 .. m -> Int] /\ f[0] = 0 /\ \A n \in 1 .. m : f[n] = f[n - 1] + v[n]
  BY <1>2 DEF Sums
<1>5. g \in [0 .. m + 1 -> Int] /\ g[0] = 0 /\ \A n \in 1 .. m + 1 : g[n] = g[n - 1] + w[n]
  BY <1>1, <1>3 DEF Sums
<1> HIDE DEF m
<1> DEFINE P == {n \in 0 .. m : g[n] = f[n]}
<1>6. 0 \in P
  BY <1>1, <1>4, <1>5
<1>7. ASSUME NEW n \in 0 .. m - 1, n \in P PROVE n + 1 \in P
  <2>1. n + 1 \in 1 .. m /\ n + 1 \in 0 .. m /\ (n + 1) - 1 = n /\ n + 1 \in 1 .. m + 1
    BY <1>1
  <2>2. f[n + 1] = f[n] + v[n + 1] /\ g[n + 1] = g[n] + w[n + 1] /\ w[n + 1] = v[n + 1]
    BY <1>1, <1>4, <1>5, <2>1
  <2>3. QED
    BY <1>7, <2>1, <2>2
<1> HIDE DEF P
<1>8. m \in P
  <2>1. \A n \in 0 .. m : n \in P
    BY <1>1, <1>6, <1>7, Upwards
  <2>2. QED
    BY <1>1, <2>1
<1>9. g[m + 1] = g[m] + x
  <2>1. m + 1 \in 1 .. m + 1 /\ (m + 1) - 1 = m
    BY <1>1
  <2>2. QED
    BY <1>1, <1>5, <2>1
<1>10. QED
  BY <1>2, <1>3, <1>8, <1>9 DEF P, w

(* The sum of a sequence that has got one more number. *)
LEMMA SumGrows ==
  ASSUME NEW s \in Seq(Int), NEW t \in Seq(Int), NEW n \in Nat, Len(s) = n, Len(t) = n + 1,
         \A i \in 1 .. n : t[i] = s[i]
  PROVE  SumOf(t) = SumOf(s) + t[n + 1]
<1> DEFINE x == t[n + 1]
           u == Append(s, x)
<1>1. x \in Int
  <2>1. n + 1 \in 1 .. Len(t)
    OBVIOUS
  <2>2. QED
    BY <2>1, ElementOfSeq
<1> HIDE DEF x
<1>2. u \in Seq(Int) /\ Len(u) = n + 1 /\ u[n + 1] = x /\ \A i \in 1 .. n : u[i] = s[i]
  BY <1>1, AppendProperties
<1>3. \A i \in 1 .. n + 1 : i \in 1 .. n \/ i = n + 1
  OBVIOUS
<1>4. \A i \in 1 .. Len(t) : t[i] = u[i]
  BY <1>2, <1>3 DEF x
<1>5. t = u
  <2> HIDE DEF u
  <2>1. QED
    BY <1>2, <1>4, SeqEqual
<1>6. SumOf(u) = SumOf(s) + x
  BY <1>1, SumAppended
<1>7. QED
  BY <1>5, <1>6 DEF x

(* The sum of one that has got a zero, and that differs by d at a place. *)
LEMMA SumGrowsWithin ==
  ASSUME NEW s \in Seq(Int), NEW t \in Seq(Int), NEW n \in Nat, Len(s) = n, Len(t) = n + 1,
         NEW k \in 1 .. n, NEW d \in Int, t[k] = s[k] + d, t[n + 1] = 0,
         \A i \in 1 .. n : i # k => t[i] = s[i]
  PROVE  SumOf(t) = SumOf(s) + d
<1> DEFINE w == [s EXCEPT ![k] = s[k] + d]
<1>1. s[k] + d \in Int
  BY ElementOfSeq
<1>2. w \in Seq(Int) /\ Len(w) = n /\ \A i \in 1 .. n : w[i] = IF i = k THEN s[k] + d ELSE s[i]
  BY <1>1, ExceptSeq
<1> HIDE DEF w
<1>3. SumOf(w) = SumOf(s) + d
  <2>1. /\ Len(w) = Len(s) /\ k \in 1 .. Len(s) /\ w[k] = s[k] + d
        /\ \A j \in 1 .. Len(s) : j # k => w[j] = s[j]
    BY <1>2
  <2>2. QED
    BY <1>2, <2>1, SumChanges
<1>4. \A i \in 1 .. n : t[i] = w[i]
  BY <1>2
<1>5. SumOf(t) = SumOf(w) + t[n + 1]
  BY <1>2, <1>4, SumGrows
<1>6. SumOf(w) \in Int
  BY <1>2, SumIsInt
<1>7. QED
  BY <1>3, <1>5, <1>6

(* The sum of zeros. *)
LEMMA SumOfZeros ==
  ASSUME NEW v \in Seq(Int), \A n \in 1 .. Len(v) : v[n] = 0
  PROVE  SumOf(v) = 0
<1> DEFINE m == Len(v)
<1>1. m \in Nat /\ \A n \in 1 .. m : v[n] = 0
  BY LenProperties
<1>2. PICK f : Sums(f, v) /\ SumOf(v) = f[m]
  BY SumOfIs
<1>3. f \in [0 .. m -> Int] /\ f[0] = 0 /\ \A n \in 1 .. m : f[n] = f[n - 1] + v[n]
  BY <1>2 DEF Sums
<1> HIDE DEF m
<1> DEFINE P == {n \in 0 .. m : f[n] = 0}
<1>4. 0 \in P
  BY <1>1, <1>3
<1>5. ASSUME NEW n \in 0 .. m - 1, n \in P PROVE n + 1 \in P
  <2>1. n + 1 \in 1 .. m /\ n + 1 \in 0 .. m /\ (n + 1) - 1 = n
    BY <1>1
  <2>2. f[n + 1] = f[n] + v[n + 1] /\ v[n + 1] = 0
    BY <1>1, <1>3, <2>1
  <2>3. QED
    BY <1>5, <2>1, <2>2
<1> HIDE DEF P
<1>6. m \in P
  <2>1. \A n \in 0 .. m : n \in P
    BY <1>1, <1>4, <1>5, Upwards
  <2>2. QED
    BY <1>1, <2>1
<1>7. QED
  BY <1>2, <1>6 DEF P

----------------------------------------------------------------------------
(* Remainders *)

(* Numbers that differ by a multiple have the same remainder. *)
LEMMA SameRemainder ==
  ASSUME NEW a \in Nat \ {0}, NEW x \in Int, NEW y \in Int, NEW q \in Int, y = x + a * q
  PROVE  y % a = x % a
<1>1. PICK p \in Int, r \in 0 .. a - 1 : x = a * p + r /\ x % a = r
  <2>1. x \div a \in Int /\ x % a \in 0 .. a - 1 /\ x = a * (x \div a) + (x % a)
    OBVIOUS
  <2>2. QED
    BY <2>1
<1>2. y = a * (p + q) + r
  BY <1>1
<1>3. (a * (p + q) + r) % a = r
  <2>1. p + q \in Int
    OBVIOUS
  <2>2. QED
    BY <2>1, Remainder
<1>4. QED
  BY <1>1, <1>2, <1>3

(* A sum with one of its terms changed by wrapping addition is, but for    *)
(* multiples, what wrapping addition makes of it.                          *)
LEMMA WrapsAlike ==
  ASSUME NEW a \in Nat \ {0}, NEW x \in Int, NEW y \in Int, NEW t \in Int
  PROVE  (x + (((y + t) % a) - y)) % a = ((x % a) + t) % a
<1>1. PICK p \in Int, r \in Int : x = a * p + r /\ r = x % a
  <2>1. x \div a \in Int /\ x % a \in Int /\ x = a * (x \div a) + (x % a)
    OBVIOUS
  <2>2. QED
    BY <2>1
<1>2. PICK q \in Int, s \in Int : y + t = a * q + s /\ s = (y + t) % a
  <2>1. (y + t) \div a \in Int /\ (y + t) % a \in Int
        /\ y + t = a * ((y + t) \div a) + ((y + t) % a)
    <3>1. y + t \in Int
      OBVIOUS
    <3>2. \A z \in Int : z \div a \in Int /\ z % a \in Int /\ z = a * (z \div a) + (z % a)
      OBVIOUS
    <3>3. QED
      BY <3>1, <3>2
  <2>2. QED
    BY <2>1
<1> DEFINE z == x + (s - y)
           u == r + t
<1>3. z = u + a * (p - q)
  <2>1. a * (p - q) = a * p - a * q
    OBVIOUS
  <2>2. PICK b \in Int, c \in Int : b = a * p /\ c = a * q
    OBVIOUS
  <2>3. x = b + r /\ y + t = c + s
    BY <1>1, <1>2, <2>2
  <2>4. x + (s - y) = r + t + (b - c)
    BY <2>3
  <2>5. QED
    BY <2>1, <2>2, <2>4
<1>4. z \in Int /\ u \in Int /\ p - q \in Int
  OBVIOUS
<1> HIDE DEF z, u
<1>5. z % a = u % a
  BY <1>3, <1>4, SameRemainder
<1>6. QED
  BY <1>1, <1>2, <1>5 DEF z, u

(* What is added before or after wrapping. *)
LEMMA WrapsOnce ==
  ASSUME NEW a \in Nat \ {0}, NEW x \in Int, NEW t \in Int
  PROVE  (x + t) % a = ((x % a) + t) % a
<1>1. PICK p \in Int, r \in Int : x = a * p + r /\ r = x % a
  <2>1. x \div a \in Int /\ x % a \in Int /\ x = a * (x \div a) + (x % a)
    OBVIOUS
  <2>2. QED
    BY <2>1
<1> DEFINE z == x + t
           u == r + t
<1>2. z = u + a * p
  <2>1. PICK b \in Int : b = a * p
    OBVIOUS
  <2>2. x = b + r
    BY <1>1, <2>1
  <2>3. x + t = r + t + b
    BY <2>2
  <2>4. QED
    BY <2>1, <2>3
<1>3. z \in Int /\ u \in Int
  OBVIOUS
<1> HIDE DEF z, u
<1>4. z % a = u % a
  BY <1>2, <1>3, SameRemainder
<1>5. QED
  BY <1>1, <1>4 DEF z, u

(* A quotient, by what is left. *)
LEMMA Quotient ==
  ASSUME NEW a \in Nat \ {0}, NEW q \in Int, NEW r \in 0 .. a - 1
  PROVE  (a * q + r) \div a = q
<1> DEFINE x == a * q + r
           p == x \div a
           s == x % a
<1>1. x \in Int /\ p \in Int /\ s \in 0 .. a - 1 /\ x = a * p + s
  OBVIOUS
<1>2. ~ (p < q)
  <2>1. ASSUME p < q PROVE a * p + a <= a * q
    BY <1>1, <2>1, Multiples
  <2>2. a * p \in Int /\ a * q \in Int
    BY <1>1
  <2>3. QED
    BY <1>1, <2>1, <2>2
<1>3. ~ (q < p)
  <2>1. ASSUME q < p PROVE a * q + a <= a * p
    BY <1>1, <2>1, Multiples
  <2>2. a * p \in Int /\ a * q \in Int
    BY <1>1
  <2>3. QED
    BY <1>1, <2>1, <2>2
<1>4. QED
  BY <1>1, <1>2, <1>3

----------------------------------------------------------------------------
(* The log *)

(* Only one task runs, and no step changes which. *)
LEMMA OneTask ==
  ASSUME [Step]_loops
  PROVE  /\ task' = task
         /\ task = "log" => Count \/ UNCHANGED loops
         /\ task = "stream" => Feed \/ UNCHANGED loops
         /\ task = "models" => AddModel \/ AddRule \/ Merge \/ UNCHANGED loops
BY DEF Step, loops, Count, Feed, AddModel, AddRule, Merge

(* A record of the log. *)
Logged ==
  [id : Nat, at : Nat, backend : {r.backend : r \in Records},
   tokens : Nat \cup {NoTokens}, hit : BOOLEAN]

(* The n-th record was pushed as the n-th. *)
LogOK == task = "log" => input \in Seq(Logged) /\ \A i \in DOMAIN input : input[i].id = i

(* What is pushed is a record, with the next number. *)
LEMMA RecordPushed ==
  ASSUME LogOK, task = "log", NEW r \in Records
  PROVE  /\ NewRecordOf(r) \in Logged /\ NewRecordOf(r).id = Len(input) + 1
         /\ Append(input, NewRecordOf(r)) \in Seq(Logged)
         /\ Len(Append(input, NewRecordOf(r))) = Len(input) + 1
         /\ Append(input, NewRecordOf(r))[Len(input) + 1] = NewRecordOf(r)
         /\ \A i \in 1 .. Len(input) : Append(input, NewRecordOf(r))[i] = input[i]
<1>1. input \in Seq(Logged) /\ Len(input) \in Nat
  BY LenProperties DEF LogOK
<1>2. r.at \in Nat /\ r.tokens \in Nat \cup {NoTokens} /\ r.hit \in BOOLEAN
  BY AlgorithmsAssumption
<1>3. NewRecordOf(r) \in Logged /\ NewRecordOf(r).id = Len(input) + 1
  BY <1>1, <1>2 DEF NewRecordOf, Logged
<1>4. QED
  BY <1>1, <1>3, AppendProperties

(* The log stays in order. *)
LEMMA LogStaysOK == LogOK /\ [Step]_loops => LogOK'
<1> SUFFICES ASSUME LogOK, [Step]_loops, task' = "log"
             PROVE  input' \in Seq(Logged) /\ \A i \in DOMAIN input' : input'[i].id = i
  BY DEF LogOK
<1>1. task = "log" /\ (Count \/ UNCHANGED loops)
  BY OneTask
<1>2. CASE UNCHANGED loops
  BY <1>1, <1>2 DEF LogOK, loops
<1>3. CASE Count
  <2>1. PICK r \in Records : input' = Append(input, NewRecordOf(r))
    BY <1>3 DEF Count
  <2>2. /\ input' \in Seq(Logged) /\ Len(input') = Len(input) + 1
        /\ input'[Len(input) + 1].id = Len(input) + 1
        /\ \A i \in 1 .. Len(input) : input'[i] = input[i]
    BY <1>1, <2>1, RecordPushed
  <2>3. Len(input) \in Nat /\ \A i \in 1 .. Len(input) : input[i].id = i
    BY <1>1, LenProperties DEF LogOK
  <2>4. DOMAIN input' = 1 .. Len(input) + 1
    BY <2>2, LenProperties
  <2>5. QED
    BY <2>2, <2>3, <2>4
<1>4. QED
  BY <1>1, <1>2, <1>3

----------------------------------------------------------------------------
(* Searches *)

(* The newest record comes first. *)
LEMMA NewestOf ==
  ASSUME NEW S, NEW s \in Seq(S)
  PROVE  /\ NewestFirst(s) \in Seq(S) /\ Len(NewestFirst(s)) = Len(s) /\ Len(s) \in Nat
         /\ \A i \in 1 .. Len(s) : NewestFirst(s)[i] = s[Len(s) + 1 - i]
<1>1. Len(s) \in Nat /\ \A i \in 1 .. Len(s) : s[i] \in S
  BY LenProperties, ElementOfSeq
<1>2. \A i \in 1 .. Len(s) : Len(s) + 1 - i \in 1 .. Len(s)
  BY <1>1
<1>3. QED
  BY <1>1, <1>2, IsASeq, LenProperties DEF NewestFirst

(* What is listed: the newest of the log, up to the limit. *)
LEMMA Listed ==
  ASSUME NEW S, NEW s \in Seq(S), NEW limit \in Nat
  PROVE  LET n == IF Len(s) > limit THEN limit ELSE Len(s) IN
         /\ DOMAIN List(s, limit) = 1 .. n
         /\ \A i \in 1 .. n : List(s, limit)[i] = s[Len(s) + 1 - i]
<1> DEFINE m == Len(s)
           n == IF m > limit THEN limit ELSE m
           start == IF m > limit THEN m - limit ELSE 0
           sub == SubSeq(s, start + 1, m)
<1>1. m \in Nat /\ n \in Nat /\ start \in Nat /\ start + n = m
  BY LenProperties
<1>2. /\ sub \in Seq(S) /\ Len(sub) = n
      /\ \A i \in 1 .. n : sub[i] = s[start + i]
  <2>1. \A i \in start + 1 .. m : s[i] \in S
    <3>1. \A i \in 1 .. m : s[i] \in S
      BY ElementOfSeq
    <3> HIDE DEF m, n, start, sub
    <3>2. QED
      BY <1>1, <3>1
  <2>2. start + 1 \in Int /\ m \in Int
    BY <1>1
  <2>3. /\ sub \in Seq(S) /\ Len(sub) = IF start + 1 <= m THEN m - (start + 1) + 1 ELSE 0
        /\ \A i \in 1 .. m - (start + 1) + 1 : sub[i] = s[(start + 1) + i - 1]
    <3> HIDE DEF m, n, start
    <3>1. QED
      BY <2>1, <2>2, SubSeqProperties
  <2> HIDE DEF m, n, start, sub
  <2>4. m - (start + 1) + 1 = n /\ \A i \in 1 .. n : (start + 1) + i - 1 = start + i
    BY <1>1
  <2>5. (IF start + 1 <= m THEN n ELSE 0) = n
    BY <1>1
  <2>6. QED
    BY <2>3, <2>4, <2>5
<1>6. List(s, limit) = NewestFirst(sub)
  BY DEF List
<1>7. /\ DOMAIN NewestFirst(sub) = 1 .. n
      /\ \A i \in 1 .. n : NewestFirst(sub)[i] = sub[n + 1 - i]
  <2> HIDE DEF m, n, start, sub
  <2>1. QED
    BY <1>2, NewestOf, LenProperties
<1>8. \A i \in 1 .. n : sub[n + 1 - i] = s[m + 1 - i]
  <2> HIDE DEF m, n, start, sub
  <2>1. \A i \in 1 .. n : n + 1 - i \in 1 .. n /\ start + (n + 1 - i) = m + 1 - i
    BY <1>1
  <2>2. QED
    BY <1>2, <2>1
<1> HIDE DEF sub
<1>9. QED
  BY <1>6, <1>7, <1>8

(* The n-th of places is given by any way to count them upwards. *)
LEMMA NthIsCounted ==
  ASSUME NEW n, NEW f, NEW I \in SUBSET Nat, CountsUp(f, n, I)
  PROVE  Cardinality(I) = n /\ \A a \in 1 .. n : Nth(I, a) = f[a]
BY CountedUpwards

(* Where all of the places are kept, the n-th is n. *)
LEMMA NthOfAll ==
  ASSUME NEW n \in Nat
  PROVE  Cardinality(1 .. n) = n /\ \A a \in 1 .. n : Nth(1 .. n, a) = a
<1> DEFINE f == [a \in 1 .. n |-> a]
<1>1. /\ \A a \in 1 .. n : f[a] \in 1 .. n
      /\ \A i \in 1 .. n : \E a \in 1 .. n : f[a] = i
      /\ \A a, b \in 1 .. n : a < b => f[a] < f[b]
      /\ \A a \in 1 .. n : f[a] = a
  OBVIOUS
<1> HIDE DEF f
<1>2. ASSUME NEW R \in SUBSET Nat, R = 1 .. n
      PROVE  Cardinality(R) = n /\ \A a \in 1 .. n : Nth(R, a) = f[a]
  <2>1. CountsUp(f, n, R)
    BY <1>1, <1>2 DEF CountsUp
  <2>2. QED
    BY <2>1, NthIsCounted
<1>3. 1 .. n \in SUBSET Nat
  OBVIOUS
<1>4. QED
  BY <1>1, <1>2, <1>3

(* What a search finds, by the places among the newest first that are hits *)
(* and their number c.                                                     *)
LEMMA Found ==
  ASSUME LogOK, task = "log", NEW limit \in Nat
  PROVE  \E I \in SUBSET (1 .. Len(input)), c \in Nat, n \in Nat, lim \in Nat \ {0} :
           /\ lim = (IF limit = 0 THEN 1 ELSE limit) /\ n = (IF c > lim THEN lim ELSE c)
           /\ c = Cardinality(I)
           /\ I = {i \in 1 .. Len(input) : input[Len(input) + 1 - i].hit}
           /\ Search(input, limit).matched = c
           /\ Search(input, limit).truncated = (c > lim)
           /\ Search(input, limit).ids = [a \in 1 .. n |-> Len(input) + 1 - Nth(I, a)]
<1> DEFINE m == Len(input)
           newest == NewestFirst(input)
           I == {i \in DOMAIN newest : newest[i].hit}
           matched == Sift(newest, I)
           c == Len(matched)
           lim == IF limit = 0 THEN 1 ELSE limit
           n == IF c > lim THEN lim ELSE c
<1>1. /\ m \in Nat /\ input \in Seq(Logged)
      /\ \A i \in 1 .. m : input[i].id = i
  BY LenProperties DEF LogOK
<1>2. /\ newest \in Seq(Logged) /\ Len(newest) = m /\ DOMAIN newest = 1 .. m
      /\ \A i \in 1 .. m : newest[i] = input[m + 1 - i]
  BY <1>1, NewestOf, LenProperties
<1> HIDE DEF newest, m
<1>3. I = {i \in 1 .. m : input[m + 1 - i].hit} /\ I \in SUBSET (1 .. m)
  BY <1>2
<1> HIDE DEF I
<1>4. /\ c = Cardinality(I) /\ c \in 0 .. m
      /\ \A a \in 1 .. c : Nth(I, a) \in I /\ matched[a] = newest[Nth(I, a)]
  <2> HIDE DEF c
  <2>1. I \in SUBSET (1 .. Len(newest))
    BY <1>2, <1>3
  <2>2. newest \in Seq(Logged)
    BY <1>2
  <2>3. /\ Len(matched) = Cardinality(I) /\ Cardinality(I) \in 0 .. Len(newest)
        /\ \A a \in 1 .. Cardinality(I) : Nth(I, a) \in I /\ matched[a] = newest[Nth(I, a)]
    BY <2>1, <2>2, SiftFacts
  <2> HIDE DEF matched
  <2>4. QED
    BY <1>2, <2>3 DEF c
<1>5. c \in Nat /\ lim \in Nat \ {0} /\ n \in Nat /\ n <= c
  BY <1>1, <1>4
<1>6. \A a \in 1 .. n : a \in 1 .. c
  BY <1>5
<1>7. Search(input, limit) =
        [ids |-> [a \in 1 .. n |-> matched[a].id], matched |-> c,
         truncated |-> c > lim]
  BY DEF Search, Truncated, I, newest
<1> HIDE DEF c, matched, lim, n
<1>8. \A a \in 1 .. n : matched[a].id = m + 1 - Nth(I, a)
  <2> SUFFICES ASSUME NEW a \in 1 .. n PROVE matched[a].id = m + 1 - Nth(I, a)
    OBVIOUS
  <2>1. Nth(I, a) \in 1 .. m /\ matched[a] = input[m + 1 - Nth(I, a)]
    BY <1>2, <1>3, <1>4, <1>6
  <2>2. m + 1 - Nth(I, a) \in 1 .. m
    BY <1>1, <2>1
  <2>3. QED
    BY <1>1, <2>1, <2>2
<1>9. Search(input, limit).ids = [a \in 1 .. n |-> m + 1 - Nth(I, a)]
  BY <1>7, <1>8
<1>10. Search(input, limit).matched = c /\ Search(input, limit).truncated = (c > lim)
  BY <1>7
<1>11. lim = (IF limit = 0 THEN 1 ELSE limit) /\ n = (IF c > lim THEN lim ELSE c)
  BY DEF lim, n
<1>12. c = Cardinality(I)
  BY <1>4
<1>13. I \in SUBSET (1 .. Len(input))
  BY <1>3 DEF m
<1> I \in SUBSET (1 .. Len(input)) /\ c \in Nat /\ n \in Nat /\ lim \in Nat \ {0}
  BY <1>5, <1>13
<1> WITNESS I \in SUBSET (1 .. Len(input)), c \in Nat, n \in Nat, lim \in Nat \ {0}
<1>14. QED
  BY <1>3, <1>9, <1>10, <1>11, <1>12 DEF m

(* A search tells all, where the log is in order. *)
LEMMA LogSearched == LogOK => SearchTellsAll
<1> SUFFICES ASSUME LogOK, task = "log", NEW limit \in Limits
             PROVE
    LET found == Search(input, limit)
        told  == {found.ids[i] : i \in DOMAIN found.ids}
        hits  == {input[i].id : i \in {i \in DOMAIN input : input[i].hit}}
    IN  /\ found.matched = Cardinality(hits)
        /\ told \subseteq hits
        /\ \A i \in DOMAIN found.ids : i > 1 => found.ids[i] < found.ids[i - 1]
        /\ \A id \in hits \ told : /\ Len(found.ids) = IF limit = 0 THEN 1 ELSE limit
                                   /\ \A n \in told : id < n
        /\ found.truncated <=> hits # told
        /\ limit > 0 /\ (\A i \in DOMAIN input : input[i].hit) =>
             found.ids = [i \in DOMAIN List(input, limit) |-> List(input, limit)[i].id]
  BY DEF SearchTellsAll
<1> DEFINE m == Len(input)
           found == Search(input, limit)
           told  == {found.ids[i] : i \in DOMAIN found.ids}
           hits  == {input[i].id : i \in {i \in DOMAIN input : input[i].hit}}
<1>1. limit \in Nat
  BY AlgorithmsAssumption
<1>2. PICK I \in SUBSET (1 .. m), c \in Nat, n \in Nat, lim \in Nat \ {0} :
           /\ lim = (IF limit = 0 THEN 1 ELSE limit) /\ n = (IF c > lim THEN lim ELSE c)
           /\ c = Cardinality(I)
           /\ I = {i \in 1 .. m : input[m + 1 - i].hit}
           /\ found.matched = c
           /\ found.truncated = (c > lim)
           /\ found.ids = [a \in 1 .. n |-> m + 1 - Nth(I, a)]
  BY <1>1, Found
<1>3. m \in Nat /\ input \in Seq(Logged) /\ DOMAIN input = 1 .. m /\ \A i \in 1 .. m : input[i].id = i
  BY LenProperties DEF LogOK
<1>4. /\ \A a \in 1 .. c : Nth(I, a) \in I
      /\ \A i \in I : \E a \in 1 .. c : Nth(I, a) = i
      /\ \A a, b \in 1 .. c : a < b => Nth(I, a) < Nth(I, b)
  <2>1. /\ \A a \in 1 .. Cardinality(I) : Nth(I, a) \in I
        /\ \A i \in I : \E a \in 1 .. Cardinality(I) : Nth(I, a) = i
        /\ \A a, b \in 1 .. Cardinality(I) : a < b => Nth(I, a) < Nth(I, b)
    <3> HIDE DEF m
    <3>1. QED
      BY <1>3, NthCounts
  <2>2. QED
    BY <1>2, <2>1
<1>5. n <= c /\ n <= lim /\ (c > n => n = lim)
  BY <1>2
<1>6. \A a \in 1 .. n : a \in 1 .. c
  BY <1>5
<1> DEFINE g == [a \in 1 .. c |-> m + 1 - Nth(I, a)]
<1>7. \A a \in 1 .. c : g[a] = m + 1 - Nth(I, a) /\ g[a] \in 1 .. m /\ input[g[a]].hit
  <2> SUFFICES ASSUME NEW a \in 1 .. c PROVE g[a] \in 1 .. m /\ input[g[a]].hit
    OBVIOUS
  <2>1. Nth(I, a) \in 1 .. m /\ input[m + 1 - Nth(I, a)].hit
    BY <1>2, <1>4
  <2>2. QED
    BY <1>3, <2>1
<1>8. hits = {i \in 1 .. m : input[i].hit}
  BY <1>3
<1>9. DOMAIN found.ids = 1 .. n /\ \A a \in 1 .. n : found.ids[a] = g[a]
  BY <1>2, <1>6
<1>10. told = {g[a] : a \in 1 .. n}
  BY <1>9
<1> HIDE DEF g, m, found, told, hits
<1>11. \A i \in hits : \E a \in 1 .. c : g[a] = i
  <2> SUFFICES ASSUME NEW i \in hits PROVE \E a \in 1 .. c : g[a] = i
    OBVIOUS
  <2>1. i \in 1 .. m /\ input[i].hit
    BY <1>8
  <2>2. m + 1 - i \in 1 .. m /\ m + 1 - (m + 1 - i) = i
    BY <1>3, <2>1
  <2>3. m + 1 - i \in I
    BY <1>2, <2>1, <2>2
  <2>4. PICK a \in 1 .. c : Nth(I, a) = m + 1 - i
    BY <1>4, <2>3
  <2>5. QED
    BY <1>7, <2>2, <2>4
<1>12. \A a, b \in 1 .. c : a < b => g[b] < g[a]
  <2> SUFFICES ASSUME NEW a \in 1 .. c, NEW b \in 1 .. c, a < b PROVE g[b] < g[a]
    OBVIOUS
  <2>1. Nth(I, a) < Nth(I, b) /\ Nth(I, a) \in 1 .. m /\ Nth(I, b) \in 1 .. m
    BY <1>4
  <2>2. QED
    BY <1>3, <1>7, <2>1
<1>13. \A a, b \in 1 .. c : g[a] = g[b] => a = b
  <2> SUFFICES ASSUME NEW a \in 1 .. c, NEW b \in 1 .. c, g[a] = g[b] PROVE a = b
    OBVIOUS
  <2>1. ~ (a < b) /\ ~ (b < a)
    <3>1. g[a] \in Nat /\ g[b] \in Nat /\ ~ (g[a] < g[b]) /\ ~ (g[b] < g[a])
      BY <1>7
    <3>2. QED
      BY <1>12, <3>1
  <2>2. QED
    BY <2>1
<1>14. \A a \in 1 .. c : g[a] \in hits
  BY <1>7, <1>8
<1>15. found.matched = Cardinality(hits)
  <2>1. Cardinality(hits) = c
    BY <1>11, <1>13, <1>14, Counted
  <2>2. QED
    BY <1>2, <2>1
<1>16. told \subseteq hits
  BY <1>6, <1>10, <1>14
<1>17. \A i \in DOMAIN found.ids : i > 1 => found.ids[i] < found.ids[i - 1]
  <2> SUFFICES ASSUME NEW i \in 1 .. n, i > 1 PROVE found.ids[i] < found.ids[i - 1]
    BY <1>9
  <2>1. i - 1 \in 1 .. n /\ i - 1 < i
    OBVIOUS
  <2>2. QED
    BY <1>6, <1>9, <1>12, <2>1
<1>18. ASSUME NEW id \in hits \ told
       PROVE  /\ Len(found.ids) = IF limit = 0 THEN 1 ELSE limit
              /\ \A k \in told : id < k
  <2>1. PICK a \in 1 .. c : g[a] = id
    BY <1>11
  <2>2. a \notin 1 .. n
    BY <1>10, <2>1
  <2>3. n < a /\ n = lim
    BY <1>5, <2>2
  <2>4. Len(found.ids) = n
    BY <1>2, LenProperties
  <2>5. \A b \in 1 .. n : b \in 1 .. c /\ b < a
    BY <1>6, <2>3
  <2>6. \A b \in 1 .. n : id < g[b]
    BY <1>12, <2>1, <2>5
  <2>7. QED
    BY <1>2, <1>10, <2>3, <2>4, <2>6
<1>19. found.truncated <=> hits # told
  <2>1. CASE c > lim
    <3>1. c \in 1 .. c /\ n = lim /\ ~ (c <= n)
      BY <1>2, <2>1
    <3>2. \A a \in 1 .. n : a # c
      BY <3>1
    <3>3. g[c] \in hits /\ g[c] \notin told
      BY <1>6, <1>10, <1>13, <1>14, <3>1, <3>2
    <3>4. QED
      BY <1>2, <2>1, <3>3
  <2>2. CASE ~ (c > lim)
    <3>1. n = c
      BY <1>2, <2>2
    <3>2. hits \subseteq told
      BY <1>10, <1>11, <3>1
    <3>3. QED
      BY <1>2, <1>16, <2>2, <3>2
  <2>3. QED
    BY <2>1, <2>2
<1>20. ASSUME limit > 0, \A i \in DOMAIN input : input[i].hit
       PROVE  found.ids = [i \in DOMAIN List(input, limit) |-> List(input, limit)[i].id]
  <2>1. I = 1 .. m
    <3>1. \A i \in 1 .. m : m + 1 - i \in 1 .. m
      BY <1>3
    <3>2. QED
      BY <1>2, <1>3, <1>20, <3>1
  <2>2. c = m /\ \A a \in 1 .. m : Nth(I, a) = a
    BY <1>2, <1>3, <2>1, NthOfAll
  <2>3. n = (IF m > limit THEN limit ELSE m)
    <3>1. lim = limit
      BY <1>1, <1>2, <1>20
    <3>2. QED
      BY <1>2, <2>2, <3>1
  <2>4. /\ DOMAIN List(input, limit) = 1 .. n
        /\ \A i \in 1 .. n : List(input, limit)[i] = input[m + 1 - i]
    <3>1. n = (IF Len(input) > limit THEN limit ELSE Len(input))
      BY <2>3 DEF m
    <3>2. /\ DOMAIN List(input, limit) = 1 .. n
          /\ \A i \in 1 .. n : List(input, limit)[i] = input[Len(input) + 1 - i]
      BY <1>1, <1>3, <3>1, Listed
    <3>3. QED
      BY <3>2 DEF m
  <2>5. \A i \in 1 .. n : input[m + 1 - i].id = found.ids[i]
    <3> SUFFICES ASSUME NEW i \in 1 .. n PROVE input[m + 1 - i].id = found.ids[i]
      OBVIOUS
    <3>1. i \in 1 .. m /\ m + 1 - i \in 1 .. m
      BY <1>3, <1>5, <2>2
    <3>2. QED
      BY <1>2, <1>3, <2>2, <3>1
  <2>6. found.ids = [i \in 1 .. n |-> found.ids[i]]
    BY <1>2
  <2>7. QED
    BY <2>4, <2>5, <2>6
<1>21. QED
  BY <1>15, <1>16, <1>17, <1>18, <1>19, <1>20 DEF m, found, told, hits

----------------------------------------------------------------------------
(* The statistics *)

(* One more record. *)
Pushed(r) == input \in Seq(Logged) /\ r \in Logged /\ input' = Append(input, r)

(* The records as they were, and the new one. *)
LEMMA PushedInput ==
  ASSUME NEW r, Pushed(r)
  PROVE  /\ Len(input) \in Nat /\ DOMAIN input = 1 .. Len(input)
         /\ DOMAIN input' = 1 .. Len(input) + 1
         /\ Len(input') = Len(input) + 1 /\ input'[Len(input) + 1] = r
         /\ \A i \in 1 .. Len(input) : input'[i] = input[i] /\ input[i] \in Logged
         /\ \A i \in 1 .. Len(input) + 1 : i \in 1 .. Len(input) \/ i = Len(input) + 1
         /\ \A i \in 1 .. Len(input) : i \in 1 .. Len(input) + 1 /\ i # Len(input) + 1
         /\ Len(input) + 1 \in 1 .. Len(input) + 1 /\ Len(input) + 1 \notin 1 .. Len(input)
<1>1. Len(input) \in Nat
  BY LenProperties DEF Pushed
<1>2. QED
  BY <1>1, LenProperties, ElementOfSeq, AppendProperties DEF Pushed

(* What a record counts is a number. *)
LEMMA TokensAreNat ==
  ASSUME NEW r \in Logged
  PROVE  Tokens(r) \in Nat /\ r.at \in Nat
BY DEF Tokens, Logged

(* The records that are asked for, and the first of them of each backend. *)
Asked(since) == {i \in DOMAIN input : input[i].at >= since}
Firsts(since) ==
  {i \in Asked(since) :
     \A j \in Asked(since) : input[j].backend = input[i].backend => i <= j}

(* The one more is asked for if it is late enough. *)
LEMMA AskedGrow ==
  ASSUME NEW r, Pushed(r), NEW since \in Nat
  PROVE  Asked(since)' = IF r.at >= since THEN Asked(since) \cup {Len(input) + 1}
                         ELSE Asked(since)
<1>1. PICK n \in Nat : n = Len(input)
  BY PushedInput
<1>2. /\ DOMAIN input = 1 .. n /\ DOMAIN input' = 1 .. n + 1 /\ input'[n + 1] = r
      /\ \A i \in 1 .. n : input'[i] = input[i] /\ i \in 1 .. n + 1 /\ i # n + 1
      /\ \A i \in 1 .. n + 1 : i \in 1 .. n \/ i = n + 1
      /\ n + 1 \in 1 .. n + 1 /\ n + 1 \notin 1 .. n
  BY <1>1, PushedInput
<1>3. Asked(since) = {i \in 1 .. n : input[i].at >= since}
  BY <1>2 DEF Asked
<1>4. Asked(since)' = {i \in 1 .. n + 1 : input'[i].at >= since}
  BY <1>2 DEF Asked
<1>5. CASE r.at >= since
  <2>1. {i \in 1 .. n + 1 : input'[i].at >= since} = {i \in 1 .. n : input[i].at >= since} \cup {n + 1}
    BY <1>2, <1>5
  <2>2. QED
    BY <1>1, <1>3, <1>4, <1>5, <2>1
<1>6. CASE ~ (r.at >= since)
  <2>1. {i \in 1 .. n + 1 : input'[i].at >= since} = {i \in 1 .. n : input[i].at >= since}
    BY <1>2, <1>6
  <2>2. QED
    BY <1>3, <1>4, <1>6, <2>1
<1>7. QED
  BY <1>5, <1>6

(* It is a first if its backend is new. *)
LEMMA FirstsGrow ==
  ASSUME NEW r, Pushed(r), NEW since \in Nat
  PROVE  Firsts(since)' = IF r.at >= since /\ \A j \in Asked(since) : input[j].backend # r.backend
                          THEN Firsts(since) \cup {Len(input) + 1} ELSE Firsts(since)
<1>1. PICK n \in Nat : n = Len(input)
  BY PushedInput
<1>2. /\ DOMAIN input = 1 .. n /\ input'[n + 1] = r
      /\ \A i \in 1 .. n : input'[i] = input[i]
      /\ n + 1 \notin 1 .. n
  BY <1>1, PushedInput
<1>3. PICK A : A = Asked(since)
  OBVIOUS
<1>4. PICK B : B = Asked(since)'
  OBVIOUS
<1>5. B = IF r.at >= since THEN A \cup {n + 1} ELSE A
  BY <1>1, <1>3, <1>4, AskedGrow
<1>6. \A i \in A : i \in 1 .. n /\ input'[i] = input[i] /\ i <= n + 1 /\ ~ (n + 1 <= i)
  BY <1>2, <1>3 DEF Asked
<1>7. Firsts(since) = {i \in A : \A j \in A : input[j].backend = input[i].backend => i <= j}
  BY <1>3 DEF Firsts
<1>8. Firsts(since)' = {i \in B : \A j \in B : input'[j].backend = input'[i].backend => i <= j}
  BY <1>4 DEF Firsts
<1>9. CASE ~ (r.at >= since)
  BY <1>5, <1>6, <1>7, <1>8, <1>9
<1>10. CASE r.at >= since
  <2> DEFINE F == {i \in A : \A j \in A : input[j].backend = input[i].backend => i <= j}
             G == {i \in B : \A j \in B : input'[j].backend = input'[i].backend => i <= j}
             new == \A j \in A : input[j].backend # r.backend
  <2>1. B = A \cup {n + 1} /\ n + 1 <= n + 1
    BY <1>5, <1>10
  <2>2. ASSUME NEW i \in A PROVE i \in G <=> i \in F
    <3>1. \A j \in A : input'[j].backend = input'[i].backend <=> input[j].backend = input[i].backend
      BY <1>6
    <3>2. i <= n + 1 /\ i \in B
      BY <1>6, <2>1
    <3>3. (\A j \in B : input'[j].backend = input'[i].backend => i <= j) <=>
          (\A j \in A : input[j].backend = input[i].backend => i <= j)
      BY <2>1, <3>1, <3>2
    <3>4. QED
      BY <3>2, <3>3
  <2>3. n + 1 \in G <=> new
    <3>1. \A j \in A : input'[j].backend = input'[n + 1].backend <=> input[j].backend = r.backend
      BY <1>2, <1>6
    <3>2. n + 1 \in B
      BY <2>1
    <3>3. (\A j \in B : input'[j].backend = input'[n + 1].backend => n + 1 <= j) <=> new
      BY <1>6, <2>1, <3>1
    <3>4. QED
      BY <3>2, <3>3
  <2>4. F \subseteq A /\ G \subseteq A \cup {n + 1} /\ n + 1 \notin A
    BY <1>6, <2>1
  <2> HIDE DEF F, G, new
  <2>5. CASE new
    <3>1. G = F \cup {n + 1}
      BY <2>2, <2>3, <2>4, <2>5
    <3>2. QED
      BY <1>1, <1>3, <1>7, <1>8, <1>10, <2>5, <3>1 DEF F, G, new
  <2>6. CASE ~ new
    <3>1. G = F
      BY <2>2, <2>3, <2>4, <2>6
    <3>2. QED
      BY <1>3, <1>7, <1>8, <2>6, <3>1 DEF F, G, new
  <2>7. QED
    BY <2>5, <2>6
<1>11. QED
  BY <1>9, <1>10

(* Each backend that is asked for has one first record. *)
LEMMA OneFirst ==
  ASSUME input \in Seq(Logged), NEW since
  PROVE  /\ Asked(since) \in SUBSET (1 .. Len(input)) /\ Firsts(since) \in SUBSET Asked(since)
         /\ \A i \in Asked(since) : \E j \in Firsts(since) : input[j].backend = input[i].backend
         /\ \A i, j \in Firsts(since) : input[i].backend = input[j].backend => i = j
<1>1. Len(input) \in Nat /\ DOMAIN input = 1 .. Len(input)
  BY LenProperties
<1>2. Asked(since) \in SUBSET (1 .. Len(input)) /\ Firsts(since) \in SUBSET Asked(since)
  BY <1>1 DEF Asked, Firsts
<1>3. Asked(since) \in SUBSET Nat
  BY <1>1, <1>2
<1>4. ASSUME NEW i \in Asked(since)
      PROVE  \E j \in Firsts(since) : input[j].backend = input[i].backend
  <2> DEFINE I == {j \in Asked(since) : input[j].backend = input[i].backend}
  <2>1. i \in I /\ I \in SUBSET Nat
    BY <1>3
  <2> HIDE DEF I
  <2>2. PICK j \in I : \A k \in I : j <= k
    BY <2>1, LeastOf
  <2>3. j \in Asked(since) /\ input[j].backend = input[i].backend
    BY DEF I
  <2>4. \A k \in Asked(since) : input[k].backend = input[j].backend => j <= k
    BY <2>2, <2>3 DEF I
  <2>5. QED
    BY <2>3, <2>4 DEF Firsts
<1>5. ASSUME NEW i \in Firsts(since), NEW j \in Firsts(since), input[i].backend = input[j].backend
      PROVE  i = j
  <2>1. i \in Asked(since) /\ j \in Asked(since) /\ i \in Nat /\ j \in Nat
    BY <1>2, <1>3
  <2>2. i <= j /\ j <= i
    BY <1>5, <2>1 DEF Firsts
  <2>3. QED
    BY <2>1, <2>2
<1>6. QED
  BY <1>2, <1>4, <1>5

(* The figures of a backend. *)
Figures == [count : Nat, tokens : Nat, last_at : Nat]

(* The backends that are met have figures. *)
MeetsOK(st, since) ==
  /\ DOMAIN st.by_backend = {input[i].backend : i \in Asked(since)}
  /\ \A b \in DOMAIN st.by_backend : st.by_backend[b] \in Figures

(* A figure of each backend, at its first record. *)
AtFirsts(st, since, f) ==
  [i \in DOMAIN input |-> IF i \in Firsts(since) THEN st.by_backend[input[i].backend][f] ELSE 0]

(* What one more record does to the figures of its backend. *)
LEMMA FiguresGrow ==
  ASSUME NEW r, Pushed(r), NEW since \in Nat, NEW st, MeetsOK(st, since), r.at >= since
  PROVE  /\ FiguresOf(st, r.backend) \in Figures
         /\ WithRecord(FiguresOf(st, r.backend), r) \in Figures
         /\ r.backend \notin DOMAIN st.by_backend => FiguresOf(st, r.backend) = NoFigures
         /\ MeetsOK(Tallied(st, r, since), since)'
         /\ Tallied(st, r, since).by_backend[r.backend] = WithRecord(FiguresOf(st, r.backend), r)
         /\ \A b \in DOMAIN st.by_backend :
              b # r.backend => Tallied(st, r, since).by_backend[b] = st.by_backend[b]
<1> DEFINE old == FiguresOf(st, r.backend)
           new == WithRecord(old, r)
           D == DOMAIN st.by_backend
<1>1. Tokens(r) \in Nat /\ r.at \in Nat
  BY TokensAreNat DEF Pushed
<1>2. old \in Figures /\ (r.backend \notin D => old = NoFigures)
  BY DEF MeetsOK, FiguresOf, NoFigures, Figures
<1>3. new \in Figures
  <2> HIDE DEF old
  <2>1. Add(old.tokens, Tokens(r)) \in Nat
    <3>1. old.tokens + Tokens(r) \in Nat /\ Width \in Nat \ {0}
      BY <1>1, <1>2, LogQueriesAssumption DEF Figures
    <3>2. QED
      BY <3>1 DEF Add
  <2>2. LastAt(old, r) \in Nat /\ old.count + 1 \in Nat
    BY <1>1, <1>2 DEF LastAt, Figures
  <2>3. QED
    BY <2>1, <2>2 DEF WithRecord, Figures
<1> HIDE DEF old, new
<1>4. Tallied(st, r, since).by_backend =
        [b \in D \cup {r.backend} |-> IF b = r.backend THEN new ELSE st.by_backend[b]]
  <2>1. ~ (r.at < since)
    BY <1>1
  <2>2. QED
    BY <2>1 DEF Tallied, new, old
<1>5. MeetsOK(Tallied(st, r, since), since)'
  <2>1. PICK n \in Nat : n = Len(input)
    BY PushedInput
  <2>2. Asked(since)' = Asked(since) \cup {n + 1}
    BY <2>1, AskedGrow
  <2>3. input'[n + 1] = r /\ \A i \in 1 .. n : input'[i] = input[i]
    BY <2>1, PushedInput
  <2>4. Asked(since) \subseteq 1 .. n
    BY <2>1, OneFirst DEF Pushed
  <2>5. D = {input[i].backend : i \in Asked(since)}
    BY DEF MeetsOK
  <2>6. D \cup {r.backend} = {input'[i].backend : i \in Asked(since)'}
    BY <2>2, <2>3, <2>4, <2>5
  <2>7. \A b \in D \cup {r.backend} :
          (IF b = r.backend THEN new ELSE st.by_backend[b]) \in Figures
    BY <1>3 DEF MeetsOK
  <2> HIDE DEF D
  <2>8. PICK st2 : st2 = Tallied(st, r, since)
    OBVIOUS
  <2>9. MeetsOK(st2, since)'
    BY <1>4, <2>6, <2>7, <2>8 DEF MeetsOK
  <2>10. QED
    BY <2>8, <2>9
<1>6. QED
  BY <1>2, <1>3, <1>4, <1>5 DEF old, new

(* A figure, summed over the backends, grows by what it grows by for the   *)
(* backend of the record.                                                  *)
LEMMA SumsGrow ==
  ASSUME NEW r, Pushed(r), NEW since \in Nat, NEW st, MeetsOK(st, since),
         NEW f \in {"count", "tokens"}
  PROVE  /\ SumOf(AtFirsts(st, since, f)) \in Int
         /\ r.at >= since => FiguresOf(st, r.backend)[f] \in Nat
         /\ SumOf(AtFirsts(Tallied(st, r, since), since, f)') =
              SumOf(AtFirsts(st, since, f)) +
              IF r.at >= since
              THEN WithRecord(FiguresOf(st, r.backend), r)[f] - FiguresOf(st, r.backend)[f]
              ELSE 0
<1>1. PICK n \in Nat : n = Len(input)
  BY PushedInput
<1>2. /\ DOMAIN input = 1 .. n /\ DOMAIN input' = 1 .. n + 1 /\ input'[n + 1] = r
      /\ \A i \in 1 .. n : input'[i] = input[i]
      /\ \A i \in 1 .. n + 1 : i \in 1 .. n \/ i = n + 1
      /\ \A i \in 1 .. n : i \in 1 .. n + 1
      /\ n + 1 \in 1 .. n + 1 /\ n + 1 \notin 1 .. n
  BY <1>1, PushedInput
<1>3. \A g \in Figures : g[f] \in Nat
  <2>1. CASE f = "count"
    BY <2>1 DEF Figures
  <2>2. CASE f = "tokens"
    BY <2>2 DEF Figures
  <2>3. QED
    BY <2>1, <2>2
<1>4. PICK st2 : st2 = Tallied(st, r, since)
  OBVIOUS
<1>5. PICK F : F = Firsts(since)
  OBVIOUS
<1>6. PICK G : G = Firsts(since)'
  OBVIOUS
<1>7. /\ F \subseteq Asked(since) /\ Asked(since) \subseteq 1 .. n
      /\ \A i \in Asked(since) : \E j \in F : input[j].backend = input[i].backend
      /\ \A i, j \in F : input[i].backend = input[j].backend => i = j
  BY <1>1, <1>5, OneFirst DEF Pushed
<1>8. G = IF r.at >= since /\ \A j \in Asked(since) : input[j].backend # r.backend
          THEN F \cup {n + 1} ELSE F
  BY <1>1, <1>5, <1>6, FirstsGrow
<1> DEFINE v == [i \in 1 .. n |-> IF i \in F THEN st.by_backend[input[i].backend][f] ELSE 0]
           w == [i \in 1 .. n + 1 |->
                   IF i \in G THEN st2.by_backend[input'[i].backend][f] ELSE 0]
<1>9. v = AtFirsts(st, since, f)
  BY <1>2, <1>5 DEF AtFirsts
<1>10. w = AtFirsts(st2, since, f)'
  BY <1>2, <1>6 DEF AtFirsts
<1>11. \A i \in F : input[i].backend \in DOMAIN st.by_backend
  BY <1>7 DEF MeetsOK
<1>12. \A i \in 1 .. n : v[i] \in Int
  BY <1>3, <1>11 DEF MeetsOK
<1>13. v \in Seq(Int) /\ Len(v) = n
  BY <1>12, IsASeq, LenProperties
<1>14. CASE ~ (r.at >= since)
  <2>1. st2 = st /\ G = F
    <3>1. r.at < since
      BY <1>14, TokensAreNat DEF Pushed
    <3>2. QED
      BY <1>4, <1>8, <1>14, <3>1 DEF Tallied
  <2>2. \A i \in 1 .. n : w[i] = v[i]
    BY <1>2, <2>1
  <2>3. w[n + 1] = 0
    BY <1>2, <1>7, <2>1
  <2>4. \A i \in 1 .. n + 1 : w[i] \in Int
    <3> HIDE DEF v, w
    <3>1. QED
      BY <1>2, <1>12, <2>2, <2>3
  <2>5. w \in Seq(Int) /\ Len(w) = n + 1
    BY <2>4, IsASeq, LenProperties
  <2> HIDE DEF v, w
  <2>6. SumOf(w) = SumOf(v) + w[n + 1]
    BY <1>13, <2>2, <2>5, SumGrows
  <2>7. SumOf(v) \in Int
    BY <1>13, SumIsInt
  <2>8. QED
    BY <1>4, <1>9, <1>10, <1>14, <2>3, <2>6, <2>7
<1>15. CASE r.at >= since
  <2> DEFINE old == FiguresOf(st, r.backend)
             new == WithRecord(old, r)
  <2>1. /\ old \in Figures /\ new \in Figures
        /\ r.backend \notin DOMAIN st.by_backend => old = NoFigures
        /\ st2.by_backend[r.backend] = new
        /\ \A b \in DOMAIN st.by_backend : b # r.backend => st2.by_backend[b] = st.by_backend[b]
    BY <1>4, <1>15, FiguresGrow
  <2>2. r.backend \in DOMAIN st.by_backend => old = st.by_backend[r.backend]
    BY DEF FiguresOf
  <2> HIDE DEF old, new
  <2>3. old[f] \in Nat /\ new[f] \in Nat
    BY <1>3, <2>1
  <2>4. SumOf(v) \in Int
    <3> HIDE DEF v
    <3>1. QED
      BY <1>13, SumIsInt
  <2>5. CASE r.backend \in DOMAIN st.by_backend
    <3>1. PICK j \in Asked(since) : input[j].backend = r.backend
      BY <2>5 DEF MeetsOK
    <3>2. G = F
      BY <1>8, <3>1
    <3>3. PICK k \in F : input[k].backend = r.backend
      BY <1>7, <3>1
    <3>4. k \in 1 .. n /\ n + 1 \notin F
      BY <1>2, <1>7
    <3>5. v[k] = old[f] /\ w[k] = new[f]
      BY <1>2, <2>1, <2>2, <2>5, <3>2, <3>3, <3>4
    <3>6. \A i \in 1 .. n : i # k => w[i] = v[i]
      <4> SUFFICES ASSUME NEW i \in 1 .. n, i # k PROVE w[i] = v[i]
        OBVIOUS
      <4>1. CASE i \in F
        <5>1. input[i].backend # r.backend /\ input[i].backend \in DOMAIN st.by_backend
          BY <1>7, <1>11, <3>3, <4>1
        <5>2. QED
          BY <1>2, <2>1, <3>2, <4>1, <5>1
      <4>2. CASE i \notin F
        BY <1>2, <3>2, <4>2
      <4>3. QED
        BY <4>1, <4>2
    <3>7. w[n + 1] = 0
      BY <1>2, <3>2, <3>4
    <3>8. \A i \in 1 .. n + 1 : w[i] \in Int
      <4> HIDE DEF v, w
      <4>1. QED
        BY <1>2, <1>12, <2>3, <3>5, <3>6, <3>7
    <3>9. w \in Seq(Int) /\ Len(w) = n + 1
      BY <3>8, IsASeq, LenProperties
    <3> DEFINE d == new[f] - old[f]
    <3>10. d \in Int /\ w[k] = v[k] + d
      BY <2>3, <3>5
    <3> HIDE DEF v, w, d
    <3>11. SumOf(w) = SumOf(v) + d
      BY <1>13, <3>4, <3>6, <3>7, <3>9, <3>10, SumGrowsWithin
    <3>12. QED
      BY <1>4, <1>9, <1>10, <1>15, <2>3, <2>4, <3>11 DEF old, new, d
  <2>6. CASE r.backend \notin DOMAIN st.by_backend
    <3>1. \A j \in Asked(since) : input[j].backend # r.backend
      BY <2>6 DEF MeetsOK
    <3>2. G = F \cup {n + 1}
      BY <1>8, <1>15, <3>1
    <3>3. \A i \in 1 .. n : w[i] = v[i]
      <4> SUFFICES ASSUME NEW i \in 1 .. n PROVE w[i] = v[i]
        OBVIOUS
      <4>1. CASE i \in F
        <5>1. input[i].backend # r.backend /\ input[i].backend \in DOMAIN st.by_backend
          BY <1>7, <1>11, <3>1, <4>1
        <5>2. QED
          BY <1>2, <2>1, <3>2, <4>1, <5>1
      <4>2. CASE i \notin F
        BY <1>2, <3>2, <4>2
      <4>3. QED
        BY <4>1, <4>2
    <3>4. w[n + 1] = new[f]
      BY <1>2, <2>1, <3>2
    <3>5. \A i \in 1 .. n + 1 : w[i] \in Int
      <4> HIDE DEF v, w
      <4>1. QED
        BY <1>2, <1>12, <2>3, <3>3, <3>4
    <3>6. w \in Seq(Int) /\ Len(w) = n + 1
      BY <3>5, IsASeq, LenProperties
    <3>7. old[f] = 0
      <4>1. old = NoFigures
        BY <2>1, <2>6
      <4>2. CASE f = "count"
        BY <4>1, <4>2 DEF NoFigures
      <4>3. CASE f = "tokens"
        BY <4>1, <4>3 DEF NoFigures
      <4>4. QED
        BY <4>2, <4>3
    <3> HIDE DEF v, w
    <3>8. SumOf(w) = SumOf(v) + w[n + 1]
      BY <1>13, <3>3, <3>6, SumGrows
    <3>9. new[f] - old[f] = w[n + 1]
      BY <2>3, <3>4, <3>7
    <3>10. QED
      BY <1>4, <1>9, <1>10, <1>15, <2>3, <2>4, <3>8, <3>9 DEF old, new
  <2>7. QED
    BY <2>5, <2>6
<1>16. QED
  BY <1>14, <1>15

(* The tokens of some records, and of those and the new one. *)
LEMMA TokensGrow ==
  ASSUME NEW r, Pushed(r), NEW n \in Nat, n = Len(input), NEW I \in SUBSET (1 .. n)
  PROVE  /\ TokensAt(I) \in Int /\ TokensAt(I)' = TokensAt(I)
         /\ TokensAt(I \cup {n + 1})' = TokensAt(I) + Tokens(r)
<1>1. /\ DOMAIN input = 1 .. n /\ DOMAIN input' = 1 .. n + 1 /\ input'[n + 1] = r
      /\ \A i \in 1 .. n : input'[i] = input[i] /\ input[i] \in Logged
      /\ \A i \in 1 .. n + 1 : i \in 1 .. n \/ i = n + 1
      /\ \A i \in 1 .. n : i \in 1 .. n + 1 /\ i # n + 1
      /\ n + 1 \in 1 .. n + 1 /\ n + 1 \notin 1 .. n
  BY PushedInput
<1>2. Tokens(r) \in Int /\ \A i \in 1 .. n : Tokens(input[i]) \in Int
  <2>1. \A q \in Logged : Tokens(q) \in Int
    BY TokensAreNat
  <2>2. QED
    BY <1>1, <2>1 DEF Pushed
<1> DEFINE v == [i \in 1 .. n |-> IF i \in I THEN Tokens(input[i]) ELSE 0]
           w == [i \in 1 .. n + 1 |-> IF i \in I THEN Tokens(input'[i]) ELSE 0]
           u == [i \in 1 .. n + 1 |-> IF i \in I \cup {n + 1} THEN Tokens(input'[i]) ELSE 0]
<1>3. /\ \A i \in 1 .. n : v[i] \in Int /\ w[i] = v[i] /\ u[i] = v[i]
      /\ w[n + 1] = 0 /\ u[n + 1] = Tokens(r)
  BY <1>1, <1>2
<1>4. v \in Seq(Int) /\ Len(v) = n
  <2>1. \A i \in 1 .. n : v[i] \in Int
    BY <1>3
  <2>2. QED
    BY <2>1, IsASeq, LenProperties
<1>5. \A i \in 1 .. n + 1 : w[i] \in Int /\ u[i] \in Int
  <2> HIDE DEF v, w, u
  <2>1. w[n + 1] \in Int /\ u[n + 1] \in Int
    BY <1>2, <1>3
  <2>2. \A i \in 1 .. n : w[i] \in Int /\ u[i] \in Int
    BY <1>3
  <2>3. QED
    BY <1>1, <2>1, <2>2
<1>6. w \in Seq(Int) /\ Len(w) = n + 1
  BY <1>5, IsASeq, LenProperties
<1>7. u \in Seq(Int) /\ Len(u) = n + 1
  BY <1>5, IsASeq, LenProperties
<1>8. TokensAt(I) = SumOf(v)
  BY <1>1 DEF TokensAt
<1>9. TokensAt(I)' = SumOf(w)
  BY <1>1 DEF TokensAt
<1>10. TokensAt(I \cup {n + 1})' = SumOf(u)
  BY <1>1 DEF TokensAt
<1> HIDE DEF v, w, u
<1>11. SumOf(w) = SumOf(v) + w[n + 1]
  BY <1>3, <1>4, <1>6, SumGrows
<1>12. SumOf(u) = SumOf(v) + u[n + 1]
  BY <1>3, <1>4, <1>7, SumGrows
<1>13. SumOf(v) \in Int
  BY <1>4, SumIsInt
<1>14. QED
  BY <1>3, <1>8, <1>9, <1>10, <1>11, <1>12, <1>13

(* What the statistics of a since are. *)
StatsOK(st, since) ==
  /\ MeetsOK(st, since)
  /\ SumOf(AtFirsts(st, since, "count")) = st.total
  /\ SumOf(AtFirsts(st, since, "tokens")) % Width = st.tokens
  /\ st.total = Cardinality(Asked(since))
  /\ st.tokens = TokensAt(Asked(since)) % Width
  /\ \A i \in Asked(since) : input[i].at <= st.by_backend[input[i].backend].last_at
  /\ \A b \in DOMAIN st.by_backend :
       \E i \in Asked(since) : /\ input[i].backend = b
                               /\ input[i].at = st.by_backend[b].last_at

(* So they stay. *)
LEMMA StatsGrow ==
  ASSUME NEW r, Pushed(r), NEW since \in Nat, NEW st, StatsOK(st, since)
  PROVE  StatsOK(Tallied(st, r, since), since)'
<1>1. PICK n \in Nat : n = Len(input)
  BY PushedInput
<1>2. PICK st2 : st2 = Tallied(st, r, since)
  OBVIOUS
<1>3. PICK A : A = Asked(since)
  OBVIOUS
<1>4. PICK B : B = Asked(since)'
  OBVIOUS
<1>5. B = IF r.at >= since THEN A \cup {n + 1} ELSE A
  BY <1>1, <1>3, <1>4, AskedGrow
<1>6. A \in SUBSET (1 .. n)
  BY <1>1, <1>3, OneFirst DEF Pushed
<1>7. /\ input'[n + 1] = r /\ n + 1 \notin 1 .. n
      /\ \A i \in 1 .. n : input'[i] = input[i] /\ input[i].at \in Nat
  <2>1. \A q \in Logged : q.at \in Nat
    BY TokensAreNat
  <2>2. QED
    BY <1>1, <2>1, PushedInput
<1>8. TokensAt(Asked(since))' = TokensAt(B)' /\ TokensAt(Asked(since)) = TokensAt(A)
  BY <1>3, <1>4 DEF TokensAt
<1>9. /\ TokensAt(A) \in Int /\ TokensAt(A)' = TokensAt(A)
      /\ TokensAt(A \cup {n + 1})' = TokensAt(A) + Tokens(r)
  BY <1>1, <1>6, TokensGrow
<1> DEFINE count(q) == SumOf(AtFirsts(q, since, "count"))
           tokens(q) == SumOf(AtFirsts(q, since, "tokens"))
           old == FiguresOf(st, r.backend)
           new == WithRecord(old, r)
<1>10. MeetsOK(st, since)
  BY DEF StatsOK
<1>11. /\ count(st) = st.total /\ tokens(st) % Width = st.tokens
       /\ st.total = Cardinality(A) /\ st.tokens = TokensAt(A) % Width
       /\ \A i \in A : input[i].at <= st.by_backend[input[i].backend].last_at
       /\ \A b \in DOMAIN st.by_backend :
            \E i \in A : input[i].backend = b /\ input[i].at = st.by_backend[b].last_at
  BY <1>3, <1>8 DEF StatsOK
<1>12. /\ count(st) \in Int
       /\ count(st2)' = count(st) + IF r.at >= since THEN new["count"] - old["count"] ELSE 0
  BY <1>2, <1>10, SumsGrow
<1>13. /\ tokens(st) \in Int
       /\ tokens(st2)' = tokens(st) + IF r.at >= since THEN new["tokens"] - old["tokens"] ELSE 0
  BY <1>2, <1>10, SumsGrow
<1> HIDE DEF count, tokens
<1>14. Width \in Nat \ {0} /\ Tokens(r) \in Nat /\ r.at \in Nat
  BY LogQueriesAssumption, TokensAreNat DEF Pushed
<1>15. CASE ~ (r.at >= since)
  <2>1. st2 = st /\ B = A
    BY <1>2, <1>5, <1>14, <1>15 DEF Tallied
  <2>2. count(st2)' = count(st) /\ tokens(st2)' = tokens(st)
    BY <1>12, <1>13, <1>15
  <2>3. MeetsOK(st2, since)'
    BY <1>3, <1>4, <1>6, <1>7, <1>10, <2>1 DEF MeetsOK
  <2>4. TokensAt(B)' = TokensAt(A)
    BY <1>9, <2>1
  <2>5. \A i \in B : input'[i] = input[i]
    BY <1>6, <1>7, <2>1
  <2>6. /\ \A i \in B : input'[i].at <= st2.by_backend[input'[i].backend].last_at
        /\ \A b \in DOMAIN st2.by_backend :
             \E i \in B : input'[i].backend = b /\ input'[i].at = st2.by_backend[b].last_at
    BY <1>11, <2>1, <2>5
  <2>7. /\ count(st2)' = st2.total /\ tokens(st2)' % Width = st2.tokens
        /\ st2.total = Cardinality(B) /\ st2.tokens = TokensAt(B)' % Width
    BY <1>11, <2>1, <2>2, <2>4
  <2>8. StatsOK(st2, since)'
    BY <1>4, <1>8, <2>3, <2>6, <2>7 DEF StatsOK, count, tokens
  <2>9. QED
    BY <1>2, <2>8
<1>16. CASE r.at >= since
  <2>1. /\ old \in Figures /\ new \in Figures
        /\ r.backend \notin DOMAIN st.by_backend => old = NoFigures
        /\ MeetsOK(st2, since)'
        /\ st2.by_backend[r.backend] = new
        /\ \A b \in DOMAIN st.by_backend : b # r.backend => st2.by_backend[b] = st.by_backend[b]
    BY <1>2, <1>10, <1>16, FiguresGrow
  <2>2. /\ st2.total = st.total + 1 /\ st2.tokens = Add(st.tokens, Tokens(r))
        /\ DOMAIN st2.by_backend = DOMAIN st.by_backend \cup {r.backend}
    BY <1>2, <1>14, <1>16 DEF Tallied
  <2>3. B = A \cup {n + 1} /\ n + 1 \notin A
    BY <1>5, <1>6, <1>7, <1>16
  <2>4. old.count \in Nat /\ old.tokens \in Nat /\ old.last_at \in Nat
    BY <2>1 DEF Figures
  <2>5. new.count = old.count + 1 /\ new.tokens = (old.tokens + Tokens(r)) % Width
        /\ new.last_at = IF r.at > old.last_at THEN r.at ELSE old.last_at
    BY DEF WithRecord, Add, LastAt
  <2>6. r.backend \in DOMAIN st.by_backend => old = st.by_backend[r.backend]
    BY DEF FiguresOf
  <2> HIDE DEF old, new
  <2>7. count(st2)' = st2.total
    <3>1. new["count"] = new.count /\ old["count"] = old.count
      OBVIOUS
    <3>2. count(st2)' = count(st) + 1
      BY <1>12, <1>16, <2>4, <2>5, <3>1
    <3>3. QED
      BY <1>11, <2>2, <3>2
  <2>8. tokens(st2)' % Width = st2.tokens
    <3>1. new["tokens"] = new.tokens /\ old["tokens"] = old.tokens
      OBVIOUS
    <3>2. tokens(st2)' = tokens(st) + (((old.tokens + Tokens(r)) % Width) - old.tokens)
      BY <1>13, <1>16, <2>5, <3>1
    <3>3. (tokens(st) + (((old.tokens + Tokens(r)) % Width) - old.tokens)) % Width
            = ((tokens(st) % Width) + Tokens(r)) % Width
      <4>1. PICK x \in Int, y \in Int, t \in Int :
              x = tokens(st) /\ y = old.tokens /\ t = Tokens(r)
        BY <1>13, <1>14, <2>4
      <4>2. (x + (((y + t) % Width) - y)) % Width = ((x % Width) + t) % Width
        BY <1>14, WrapsAlike
      <4>3. QED
        BY <4>1, <4>2
    <3>4. QED
      BY <1>11, <2>2, <3>2, <3>3 DEF Add
  <2>9. st2.total = Cardinality(B)
    <3>1. IsFiniteSet(A)
      <4>1. n \in Int /\ IsFiniteSet(1 .. n)
        BY FS_Interval
      <4>2. QED
        BY <1>6, <4>1, FS_Subset
    <3>2. Cardinality(A \cup {n + 1}) = Cardinality(A) + 1
      BY <2>3, <3>1, FS_AddElement
    <3>3. QED
      BY <1>11, <2>2, <2>3, <3>2
  <2>10. st2.tokens = TokensAt(B)' % Width
    <3>1. TokensAt(B)' = TokensAt(A) + Tokens(r)
      BY <1>9, <2>3
    <3>2. (TokensAt(A) + Tokens(r)) % Width = ((TokensAt(A) % Width) + Tokens(r)) % Width
      <4>1. Tokens(r) \in Int
        BY <1>14
      <4>2. QED
        BY <1>9, <1>14, <4>1, WrapsOnce
    <3>3. QED
      BY <1>11, <2>2, <3>1, <3>2 DEF Add
  <2>11. \A i \in A : input'[i] = input[i] /\ input[i].backend \in DOMAIN st.by_backend
                      /\ input[i].at \in Nat
    BY <1>3, <1>6, <1>7, <1>10 DEF MeetsOK
  <2>12. \A i \in B : input'[i].at <= st2.by_backend[input'[i].backend].last_at
    <3> SUFFICES ASSUME NEW i \in B
                 PROVE  input'[i].at <= st2.by_backend[input'[i].backend].last_at
      OBVIOUS
    <3>1. CASE i = n + 1
      <4>1. r.at <= new.last_at
        BY <1>14, <2>4, <2>5
      <4>2. QED
        BY <1>7, <2>1, <3>1, <4>1
    <3>2. CASE i \in A /\ input[i].backend = r.backend
      <4>1. old = st.by_backend[r.backend]
        BY <2>6, <2>11, <3>2
      <4>2. input[i].at <= old.last_at
        BY <1>11, <3>2, <4>1
      <4>3. input[i].at <= new.last_at
        <5>1. input[i].at \in Nat
          BY <2>11, <3>2
        <5>2. QED
          BY <1>14, <2>4, <2>5, <4>2, <5>1
      <4>4. QED
        BY <2>1, <2>11, <3>2, <4>3
    <3>3. CASE i \in A /\ input[i].backend # r.backend
      BY <1>11, <2>1, <2>11, <3>3
    <3>4. QED
      BY <2>3, <3>1, <3>2, <3>3
  <2>13. \A b \in DOMAIN st2.by_backend :
           \E i \in B : input'[i].backend = b /\ input'[i].at = st2.by_backend[b].last_at
    <3> SUFFICES ASSUME NEW b \in DOMAIN st2.by_backend
                 PROVE  \E i \in B : /\ input'[i].backend = b
                                     /\ input'[i].at = st2.by_backend[b].last_at
      OBVIOUS
    <3>1. CASE b # r.backend
      <4>1. PICK i \in A : input[i].backend = b /\ input[i].at = st.by_backend[b].last_at
        BY <1>11, <2>2, <3>1
      <4>2. QED
        BY <2>1, <2>2, <2>3, <2>11, <3>1, <4>1
    <3>2. CASE b = r.backend /\ r.at > old.last_at
      <4>1. n + 1 \in B /\ input'[n + 1].backend = b /\ input'[n + 1].at = r.at
        BY <1>7, <2>3, <3>2
      <4>2. st2.by_backend[b].last_at = r.at
        BY <2>1, <2>5, <3>2
      <4>3. QED
        BY <4>1, <4>2
    <3>3. CASE b = r.backend /\ ~ (r.at > old.last_at) /\ b \in DOMAIN st.by_backend
      <4>1. PICK i \in A : input[i].backend = b /\ input[i].at = old.last_at
        BY <1>11, <2>6, <3>3
      <4>2. st2.by_backend[b].last_at = old.last_at
        BY <2>1, <2>5, <3>3
      <4>3. QED
        BY <2>3, <2>11, <4>1, <4>2
    <3>4. CASE b = r.backend /\ ~ (r.at > old.last_at) /\ b \notin DOMAIN st.by_backend
      <4>1. old.last_at = 0
        BY <2>1, <3>4 DEF NoFigures
      <4>2. r.at = 0 /\ new.last_at = 0
        BY <1>14, <2>5, <3>4, <4>1
      <4>3. n + 1 \in B /\ input'[n + 1].backend = b /\ input'[n + 1].at = 0
        BY <1>7, <2>3, <3>4, <4>2
      <4>4. QED
        BY <2>1, <3>4, <4>2, <4>3
    <3>5. QED
      BY <3>1, <3>2, <3>3, <3>4
  <2>14. StatsOK(st2, since)'
    BY <1>4, <1>8, <2>1, <2>7, <2>8, <2>9, <2>10, <2>12, <2>13 DEF StatsOK, count, tokens
  <2>15. QED
    BY <1>2, <2>14
<1>17. QED
  BY <1>15, <1>16

(* The sum of nothing. *)
LEMMA NothingSums ==
  ASSUME input = << >>
  PROVE  TokensAt({}) = 0 /\ \A st, since, f : SumOf(AtFirsts(st, since, f)) = 0
<1>1. << >> \in Seq(Int) /\ Len(<< >>) = 0 /\ DOMAIN input = {}
  BY EmptySeq
<1>2. SumOf(<< >>) = 0
  BY <1>1, SumIsInt
<1>3. TokensAt({}) = SumOf(<< >>)
  BY <1>1 DEF TokensAt
<1>4. \A st, since, f : AtFirsts(st, since, f) = << >>
  BY <1>1 DEF AtFirsts
<1>5. QED
  BY <1>2, <1>3, <1>4

(* The statistics of each since are. *)
AllStatsOK == task = "log" => \A since \in Sinces : StatsOK(stats[since], since)

(* Of no record. *)
LEMMA StatsBegin == Start => AllStatsOK
<1> SUFFICES ASSUME Start, NEW since \in Sinces PROVE StatsOK(NoStats, since)
  BY DEF Start, AllStatsOK
<1>1. DOMAIN input = {} /\ input = << >>
  BY DEF Start
<1>2. Asked(since) = {}
  BY <1>1 DEF Asked
<1>3. DOMAIN NoStats.by_backend = {} /\ NoStats.total = 0 /\ NoStats.tokens = 0
  BY DEF NoStats
<1>4. \A f : SumOf(AtFirsts(NoStats, since, f)) = 0
  BY <1>1, NothingSums
<1>5. TokensAt({}) = 0
  BY <1>1, NothingSums
<1>6. 0 % Width = 0
  <2>1. PICK W \in Nat \ {0} : W = Width
    BY LogQueriesAssumption
  <2>2. 0 % W = 0
    OBVIOUS
  <2>3. QED
    BY <2>1, <2>2
<1>7. Cardinality({}) = 0
  BY FS_EmptySet
<1>8. MeetsOK(NoStats, since)
  BY <1>2, <1>3 DEF MeetsOK
<1>9. QED
  BY <1>2, <1>3, <1>4, <1>5, <1>6, <1>7, <1>8 DEF StatsOK

(* So they stay. *)
LEMMA StatsStayOK == LogOK /\ AllStatsOK /\ [Step]_loops => AllStatsOK'
<1> SUFFICES ASSUME LogOK, AllStatsOK, [Step]_loops, task' = "log", NEW since \in Sinces
             PROVE  StatsOK(stats[since], since)'
  BY DEF AllStatsOK
<1>1. task = "log" /\ (Count \/ UNCHANGED loops)
  BY OneTask
<1>2. PICK st : st = stats[since]
  OBVIOUS
<1>3. StatsOK(st, since)
  BY <1>1, <1>2 DEF AllStatsOK
<1>4. CASE UNCHANGED loops
  <2>1. stats' = stats /\ input' = input
    BY <1>4 DEF loops
  <2>2. StatsOK(st, since)'
    BY <1>3, <2>1 DEF StatsOK, MeetsOK, AtFirsts, Firsts, Asked, TokensAt
  <2>3. QED
    BY <1>2, <2>1, <2>2
<1>5. CASE Count
  <2>1. PICK r \in Records :
          /\ input' = Append(input, NewRecordOf(r))
          /\ stats' = [s \in Sinces |-> Tallied(stats[s], NewRecordOf(r), s)]
    BY <1>5 DEF Count
  <2>2. PICK q : q = NewRecordOf(r)
    OBVIOUS
  <2>3. Pushed(q)
    BY <1>1, <2>1, <2>2, RecordPushed DEF Pushed, LogOK
  <2>4. since \in Nat
    BY AlgorithmsAssumption
  <2>5. PICK st2 : st2 = Tallied(st, q, since)
    OBVIOUS
  <2>6. StatsOK(st2, since)'
    <3>1. StatsOK(Tallied(st, q, since), since)'
      BY <1>3, <2>3, <2>4, StatsGrow
    <3>2. QED
      BY <2>5, <3>1
  <2>7. stats'[since] = st2
    BY <1>2, <2>1, <2>2, <2>5
  <2>8. QED
    BY <2>6, <2>7
<1>6. QED
  BY <1>1, <1>4, <1>5

(* What the figures add up to. *)
LEMMA StatsShown == AllStatsOK => StatsAddUp
<1> SUFFICES ASSUME AllStatsOK, task = "log", NEW since \in Sinces
             PROVE
    LET asked == {i \in DOMAIN input : input[i].at >= since}
        first == {i \in asked : \A j \in asked : input[j].backend = input[i].backend => i <= j}
        figures == stats[since].by_backend
        ByBackend(f) == SumOf([i \in DOMAIN input |->
                                 IF i \in first THEN figures[input[i].backend][f] ELSE 0])
    IN  /\ DOMAIN figures = {input[i].backend : i \in asked}
        /\ ByBackend("count") = stats[since].total
        /\ ByBackend("tokens") % Width = stats[since].tokens
        /\ stats[since].total = Cardinality(asked)
        /\ stats[since].tokens = TokensAt(asked) % Width
        /\ \A i \in asked : input[i].at <= figures[input[i].backend].last_at
        /\ \A b \in DOMAIN figures :
             \E i \in asked : input[i].backend = b /\ input[i].at = figures[b].last_at
  BY DEF StatsAddUp
<1>1. StatsOK(stats[since], since)
  BY DEF AllStatsOK
<1>2. QED
  BY <1>1 DEF StatsOK, MeetsOK, AtFirsts, Firsts, Asked

----------------------------------------------------------------------------
(* The series *)

(* The period of s seconds a time is in. *)
LEMMA PeriodOf ==
  ASSUME NEW s \in Nat \ {0}, NEW t \in Nat
  PROVE  /\ t \div s \in Nat /\ s * (t \div s) <= t /\ t < s * (t \div s) + s
         /\ t \div s <= t
         /\ \A p \in Int : p <= t \div s <=> s * p <= t
<1>1. PICK q \in Int, r \in 0 .. s - 1 : q = t \div s /\ t = s * q + r
  <2>1. t \div s \in Int /\ t % s \in 0 .. s - 1 /\ t = s * (t \div s) + (t % s)
    OBVIOUS
  <2>2. QED
    BY <2>1
<1>2. PICK b \in Int : b = s * q
  OBVIOUS
<1>3. b <= t /\ t < b + s
  BY <1>1, <1>2
<1>4. ASSUME NEW p \in Int PROVE p <= q <=> s * p <= t
  <2>1. PICK c \in Int : c = s * p
    OBVIOUS
  <2>2. p < q => c + s <= b
    BY <1>2, <2>1, Multiples
  <2>3. q < p => b + s <= c
    BY <1>2, <2>1, Multiples
  <2>4. p = q => c = b
    BY <1>2, <2>1
  <2>5. QED
    BY <1>3, <2>1, <2>2, <2>3, <2>4
<1>5. q \in Nat
  <2>1. 0 <= q <=> s * 0 <= t
    BY <1>4
  <2>2. QED
    BY <2>1
<1>6. q <= t
  <2>1. s * q = q + (s - 1) * q /\ (s - 1) * q >= 0
    BY <1>5
  <2>2. PICK c \in Int : c = (s - 1) * q
    OBVIOUS
  <2>3. QED
    BY <1>2, <1>3, <2>1, <2>2
<1>7. QED
  BY <1>1, <1>2, <1>3, <1>4, <1>5, <1>6

(* What does not wrap. *)
LEMMA NoWrap ==
  ASSUME NEW x \in Nat, x < Width
  PROVE  x % Width = x
<1>1. PICK W \in Nat \ {0} : W = Width
  BY LogQueriesAssumption
<1>2. x \in 0 .. W - 1
  BY <1>1
<1>3. (W * 0 + x) % W = x
  BY <1>2, Remainder
<1>4. QED
  BY <1>1, <1>3

(* The number of buckets, the first of them, and when each one begins. *)
LEMMA BucketsBegin ==
  ASSUME NEW hours \in Hours, NEW secs \in Secs,
         NEW n, n = NumBuckets(hours, secs), NEW q, q = Now \div secs,
         NEW first, first = FirstBucket(Now, hours, secs)
  PROVE  /\ n \in Nat /\ q \in Nat /\ first \in Int
         /\ n > 0 => /\ first = secs * (q + 1 - n) /\ first \in Nat
                     /\ \A i \in 1 .. n : Add(first, (i - 1) * secs) = secs * (q + i - n)
<1>1. PICK s \in Nat \ {0}, W \in Nat \ {0} : s = secs /\ W = Width
  BY AlgorithmsAssumption, LogQueriesAssumption
<1>2. PICK a \in Nat, t \in Nat : a = hours * Hour /\ t = Now /\ a <= t /\ t + s < W
  <2>1. hours \in Nat /\ Hour \in Nat /\ Now \in Nat /\ hours * Hour <= Now /\ Now + secs < Width
    BY AlgorithmsAssumption, LogQueriesAssumption
  <2>2. hours * Hour \in Nat
    BY <2>1
  <2>3. QED
    BY <1>1, <2>1, <2>2
<1>3. n \in Nat /\ n <= a /\ s * n <= a
  <2>1. n = a \div s
    BY <1>1, <1>2 DEF NumBuckets
  <2>2. QED
    BY <2>1, PeriodOf
<1>4. q \in Nat /\ s * q <= t /\ t < s * q + s
  <2>1. q = t \div s
    BY <1>1, <1>2
  <2>2. QED
    BY <2>1, PeriodOf
<1>5. first = ((q * s) - (((((n - 1) % W) * s)) % W)) % W
  BY <1>1 DEF FirstBucket, Sub, Mul
<1>6. first \in Int
  <2>1. n - 1 \in Int /\ \A x \in Int : x % W \in Int
    BY <1>3
  <2>2. PICK y \in Int : y = (n - 1) % W
    BY <2>1
  <2>3. PICK z \in Int : z = (y * s) % W
    BY <2>1
  <2>4. (q * s) - z \in Int
    BY <1>4
  <2>5. QED
    BY <1>5, <2>1, <2>2, <2>3, <2>4
<1>7. ASSUME n > 0
      PROVE  /\ first = s * (q + 1 - n) /\ first \in Nat
             /\ \A i \in 1 .. n : Add(first, (i - 1) * s) = s * (q + i - n)
  <2>1. PICK x \in Int, y \in Int : x = s * q /\ y = s * n
    BY <1>3, <1>4
  <2>2. n - 1 \in Nat /\ n - 1 < W
    BY <1>2, <1>3, <1>7
  <2>3. (n - 1) % W = n - 1
    BY <1>1, <2>2, NoWrap
  <2>4. (n - 1) * s = y - s /\ y - s \in Nat
    <3>1. (n - 1) * s = s * n - s
      BY <1>3
    <3>2. (n - 1) * s >= 0
      BY <2>2
    <3>3. QED
      BY <2>1, <3>1, <3>2
  <2>5. (y - s) % W = y - s
    <3>1. y - s < W
      BY <1>2, <1>3, <2>1
    <3>2. QED
      BY <1>1, <2>4, <3>1, NoWrap
  <2>6. x - (y - s) \in Nat /\ x - (y - s) < W
    BY <1>2, <1>3, <1>4, <2>1, <2>4
  <2>7. first = x - (y - s)
    <3>1. q * s = x
      BY <1>4, <2>1
    <3>2. first = (x - (y - s)) % W
      BY <1>5, <2>3, <2>4, <2>5, <3>1
    <3>3. QED
      BY <1>1, <2>6, <3>2, NoWrap
  <2>8. s * (q + 1 - n) = x - (y - s)
    <3>1. s * (q + 1 - n) = s * q + s - s * n
      BY <1>3, <1>4
    <3>2. QED
      BY <2>1, <3>1
  <2>9. ASSUME NEW i \in 1 .. n PROVE Add(first, (i - 1) * s) = s * (q + i - n)
    <3>1. PICK z \in Int : z = (i - 1) * s
      OBVIOUS
    <3>2. z >= 0
      BY <3>1
    <3>3. PICK e \in Int : e = s * (q + i - n)
      BY <1>3, <1>4
    <3>4. e = x - (y - s) + z
      <4>1. s * (q + i - n) = s * q - (s * n - s) + (i - 1) * s
        BY <1>3, <1>4
      <4>2. QED
        BY <2>1, <3>1, <3>3, <4>1
    <3>5. e <= x
      <4>1. CASE i = n
        <5>1. q + i - n = q
          BY <1>3, <1>4, <4>1
        <5>2. QED
          BY <2>1, <3>3, <5>1
      <4>2. CASE i < n
        <5>1. q + i - n < q /\ q + i - n \in Int
          BY <1>3, <1>4, <4>2
        <5>2. s * (q + i - n) + s <= s * q
          BY <1>4, <5>1, Multiples
        <5>3. QED
          BY <2>1, <3>3, <5>2
      <4>3. QED
        BY <1>3, <4>1, <4>2
    <3>6. e \in Nat /\ e < W
      BY <1>2, <1>4, <2>1, <2>6, <3>2, <3>4, <3>5
    <3>7. e % W = e
      BY <1>1, <3>6, NoWrap
    <3>8. Add(first, (i - 1) * s) = e % W
      BY <1>1, <2>7, <3>1, <3>4 DEF Add
    <3>9. QED
      BY <3>3, <3>7, <3>8
  <2>10. QED
    BY <2>6, <2>7, <2>8, <2>9
<1>8. QED
  BY <1>1, <1>3, <1>4, <1>6, <1>7

(* The periods that have a bucket. *)
Window(hours, secs) == (Now \div secs) + 1 - NumBuckets(hours, secs) .. Now \div secs

(* The place of the period p among the n that end with q. *)
LEMMA IndexInWindow ==
  ASSUME NEW n \in Nat, NEW q \in Nat, NEW p \in Nat, NEW m \in Int, m = q + 1 - n
  PROVE  /\ p - m + 1 > n <=> p > q
         /\ m <= p /\ p <= q => p - m + 1 \in 1 .. n
         /\ p - m + 1 = p - q + n
OBVIOUS

(* A record of t tokens in the k-th bucket. *)
Grown(buckets, k, t) == [buckets EXCEPT ![k].requests = @ + 1, ![k].tokens = Add(@, t)]

(* A record of the window goes to the bucket of its period, no other goes  *)
(* anywhere.                                                               *)
LEMMA PlacedIn ==
  ASSUME NEW hours \in Hours, NEW secs \in Secs, NEW r \in Logged,
         NEW n, n = NumBuckets(hours, secs), NEW q, q = Now \div secs,
         NEW first, first = FirstBucket(Now, hours, secs),
         NEW buckets, Len(buckets) = n, NEW k, k = (r.at \div secs) - q + n
  PROVE  /\ r.at \div secs \in Window(hours, secs) =>
              /\ k \in 1 .. n
              /\ Placed(buckets, r, first, secs) = Grown(buckets, k, Tokens(r))
         /\ r.at \div secs \notin Window(hours, secs) => Placed(buckets, r, first, secs) = buckets
<1>1. /\ n \in Nat /\ q \in Nat /\ first \in Int
      /\ n > 0 => first = secs * (q + 1 - n) /\ first \in Nat
  BY BucketsBegin
<1>2. PICK s \in Nat \ {0}, at \in Nat : s = secs /\ at = r.at
  BY AlgorithmsAssumption, TokensAreNat
<1>3. PICK p \in Nat, start \in Int :
        /\ p = at \div s /\ start = p * s
        /\ \A m \in Int : m <= p <=> s * m <= at
  <2>1. PICK p \in Nat : p = at \div s /\ \A m \in Int : m <= p <=> s * m <= at
    BY PeriodOf
  <2>2. p * s \in Int
    OBVIOUS
  <2>3. QED
    BY <2>1, <2>2
<1> DEFINE idx == ((start - first) \div s) + 1
           new == Grown(buckets, idx, Tokens(r))
<1>4. Placed(buckets, r, first, secs) =
        IF at < first \/ start < first \/ idx > n THEN buckets ELSE new
  BY <1>2, <1>3 DEF Placed, Grown
<1>5. p \in Window(hours, secs) <=> q + 1 - n <= p /\ p <= q
  BY <1>1, <1>2, <1>3 DEF Window
<1>6. CASE n = 0
  <2>1. p \notin Window(hours, secs)
    BY <1>1, <1>5, <1>6
  <2>2. ASSUME ~ (start < first) PROVE idx > n
    <3>1. PICK z \in Nat : z = start - first
      BY <1>1, <2>2
    <3>2. z \div s \in Nat
      BY PeriodOf
    <3>3. QED
      BY <1>6, <3>1, <3>2
  <2> HIDE DEF idx, new
  <2>3. QED
    BY <1>2, <1>3, <1>4, <2>1, <2>2
<1>7. CASE n > 0
  <2>1. PICK m \in Int : m = q + 1 - n /\ first = s * m
    BY <1>1, <1>2, <1>7
  <2>2. n \in Nat /\ q \in Nat /\ first \in Int /\ m = q + 1 - n
    BY <1>1, <2>1
  <2>3. at < first <=> p < m
    <3>1. m <= p <=> first <= at
      BY <1>3, <2>1
    <3>2. QED
      BY <1>1, <3>1
  <2>4. start < first => p < m
    <3>1. ASSUME start < first PROVE p < m
      <4>1. p \in Int /\ s * p = start /\ ~ (first <= start)
        BY <1>3, <2>2, <3>1
      <4>2. m <= p => first <= start
        <5>1. m < p => s * m + s <= s * p
          BY <4>1, Multiples
        <5>2. m = p => first = start
          BY <2>1, <4>1
        <5>3. m < p => first + s <= start
          BY <2>1, <4>1, <5>1
        <5>4. QED
          BY <2>2, <4>1, <5>2, <5>3
      <4>3. QED
        BY <4>1, <4>2
    <3>2. QED
      BY <3>1
  <2>5. idx = p - m + 1
    <3>1. start - first = s * (p - m) + 0
      <4>1. s * (p - m) = p * s - s * m
        OBVIOUS
      <4>2. s * (p - m) \in Int
        OBVIOUS
      <4>3. start = p * s /\ first = s * m
        BY <1>3, <2>1
      <4>4. QED
        BY <4>1, <4>2, <4>3
    <3>2. p - m \in Int /\ 0 \in 0 .. s - 1
      BY <1>3, <2>1
    <3>3. (s * (p - m) + 0) \div s = p - m
      BY <3>2, Quotient
    <3>4. QED
      BY <3>1, <3>3
  <2>6. idx = k
    <3> HIDE DEF idx
    <3>1. k = p - q + n
      BY <1>2, <1>3
    <3>2. n \in Nat /\ q \in Nat /\ p \in Nat /\ m \in Int /\ m = q + 1 - n
      BY <2>2
    <3>3. p - m + 1 = p - q + n
      BY <3>2, IndexInWindow
    <3>4. QED
      BY <2>5, <3>1, <3>3
  <2>7. /\ p - m + 1 > n <=> p > q
        /\ m <= p /\ p <= q => p - m + 1 \in 1 .. n
    <3>1. n \in Nat /\ q \in Nat /\ p \in Nat /\ m \in Int /\ m = q + 1 - n
      BY <2>2
    <3>2. QED
      BY <3>1, IndexInWindow
  <2>8. (at < first \/ start < first \/ idx > n) <=> p \notin Window(hours, secs)
    <3> HIDE DEF idx, new
    <3>1. idx > n <=> p > q
      BY <2>5, <2>7
    <3>2. p \notin Window(hours, secs) <=> p < m \/ p > q
      BY <1>5, <2>2
    <3>3. QED
      BY <2>3, <2>4, <3>1, <3>2
  <2>9. p \in Window(hours, secs) => k \in 1 .. n
    <3> HIDE DEF idx, new
    <3>1. QED
      BY <1>5, <2>2, <2>5, <2>6, <2>7
  <2>10. new = Grown(buckets, k, Tokens(r))
    <3> HIDE DEF idx
    <3>1. QED
      BY <2>6
  <2> HIDE DEF idx, new
  <2>11. QED
    BY <1>2, <1>3, <1>4, <2>8, <2>9, <2>10
<1>8. QED
  BY <1>1, <1>6, <1>7

(* The records of the window. *)
InWindow(window, secs) == {i \in DOMAIN input : input[i].at \div secs \in window}

(* One more, if it is one. *)
LEMMA WindowGrows ==
  ASSUME NEW r, Pushed(r), NEW window, NEW secs
  PROVE  /\ InWindow(window, secs) \in SUBSET (1 .. Len(input))
         /\ InWindow(window, secs)' =
              IF r.at \div secs \in window THEN InWindow(window, secs) \cup {Len(input) + 1}
              ELSE InWindow(window, secs)
<1>1. PICK n \in Nat : n = Len(input)
  BY PushedInput
<1>2. /\ DOMAIN input = 1 .. n /\ DOMAIN input' = 1 .. n + 1 /\ input'[n + 1] = r
      /\ \A i \in 1 .. n : input'[i] = input[i] /\ i \in 1 .. n + 1 /\ i # n + 1
      /\ \A i \in 1 .. n + 1 : i \in 1 .. n \/ i = n + 1
      /\ n + 1 \in 1 .. n + 1 /\ n + 1 \notin 1 .. n
  BY <1>1, PushedInput
<1>3. InWindow(window, secs) = {i \in 1 .. n : input[i].at \div secs \in window}
  BY <1>2 DEF InWindow
<1>4. InWindow(window, secs)' = {i \in 1 .. n + 1 : input'[i].at \div secs \in window}
  BY <1>2 DEF InWindow
<1>5. CASE r.at \div secs \in window
  <2>1. {i \in 1 .. n + 1 : input'[i].at \div secs \in window}
          = {i \in 1 .. n : input[i].at \div secs \in window} \cup {n + 1}
    BY <1>2, <1>5
  <2>2. QED
    BY <1>1, <1>3, <1>4, <1>5, <2>1
<1>6. CASE r.at \div secs \notin window
  <2>1. {i \in 1 .. n + 1 : input'[i].at \div secs \in window}
          = {i \in 1 .. n : input[i].at \div secs \in window}
    BY <1>2, <1>6
  <2>2. QED
    BY <1>1, <1>3, <1>4, <1>6, <2>1
<1>7. QED
  BY <1>5, <1>6

(* The buckets of a series. *)
Buckets == [ts : Int, requests : Nat, tokens : Nat]
RequestsOf(buckets) == [i \in 1 .. Len(buckets) |-> buckets[i].requests]
TokensOf(buckets) == [i \in 1 .. Len(buckets) |-> buckets[i].tokens]

(* They can be added up. *)
LEMMA ColumnsAdd ==
  ASSUME NEW buckets \in Seq(Buckets)
  PROVE  /\ RequestsOf(buckets) \in Seq(Int) /\ Len(RequestsOf(buckets)) = Len(buckets)
         /\ TokensOf(buckets) \in Seq(Int) /\ Len(TokensOf(buckets)) = Len(buckets)
         /\ \A i \in 1 .. Len(buckets) : /\ RequestsOf(buckets)[i] = buckets[i].requests
                                         /\ TokensOf(buckets)[i] = buckets[i].tokens
<1>1. PICK n \in Nat : n = Len(buckets)
  BY LenProperties
<1>2. \A i \in 1 .. n : buckets[i] \in Buckets
  BY <1>1, ElementOfSeq
<1>3. \A i \in 1 .. n : buckets[i].requests \in Int /\ buckets[i].tokens \in Int
  BY <1>2 DEF Buckets
<1>4. /\ [i \in 1 .. n |-> buckets[i].requests] \in Seq(Int)
      /\ Len([i \in 1 .. n |-> buckets[i].requests]) = n
  BY <1>3, IsASeq, LenProperties
<1>5. /\ [i \in 1 .. n |-> buckets[i].tokens] \in Seq(Int)
      /\ Len([i \in 1 .. n |-> buckets[i].tokens]) = n
  BY <1>3, IsASeq, LenProperties
<1>6. QED
  BY <1>1, <1>4, <1>5 DEF RequestsOf, TokensOf

(* What the buckets add up to then. *)
LEMMA BucketGrows ==
  ASSUME NEW buckets \in Seq(Buckets), NEW k \in 1 .. Len(buckets), NEW t \in Nat, NEW b2,
         b2 = Grown(buckets, k, t)
  PROVE  /\ b2 \in Seq(Buckets) /\ Len(b2) = Len(buckets)
         /\ \A i \in 1 .. Len(buckets) : b2[i].ts = buckets[i].ts
         /\ SumOf(RequestsOf(b2)) = SumOf(RequestsOf(buckets)) + 1
         /\ SumOf(TokensOf(b2)) % Width = ((SumOf(TokensOf(buckets)) % Width) + t) % Width
<1>1. PICK n \in Nat : n = Len(buckets)
  BY LenProperties
<1>2. k \in 1 .. n /\ \A i \in 1 .. n : buckets[i] \in Buckets
  BY <1>1, ElementOfSeq
<1>3. PICK old \in Buckets : old = buckets[k]
  BY <1>2
<1>4. Width \in Nat \ {0} /\ old.tokens \in Nat /\ old.requests \in Nat /\ old.ts \in Int
  BY LogQueriesAssumption DEF Buckets
<1>5. Add(old.tokens, t) \in Nat
  <2>1. PICK x \in Nat, W \in Nat \ {0} : x = old.tokens + t /\ W = Width
    BY <1>4
  <2>2. x % W \in Nat
    OBVIOUS
  <2>3. QED
    BY <2>1, <2>2 DEF Add
<1>6. PICK c \in Nat, e \in Nat : c = old.requests + 1 /\ e = Add(old.tokens, t)
  BY <1>4, <1>5
<1>7. PICK new : /\ new = [old EXCEPT !.requests = c, !.tokens = e] /\ new \in Buckets
                  /\ new.ts = old.ts /\ new.requests = c /\ new.tokens = e
  <2>1. PICK new : new = [old EXCEPT !.requests = c, !.tokens = e]
    OBVIOUS
  <2>2. new \in Buckets
    BY <2>1 DEF Buckets
  <2>3. new.ts = old.ts /\ new.requests = c /\ new.tokens = e
    BY <2>1 DEF Buckets
  <2>4. QED
    BY <2>1, <2>2, <2>3
<1>8. new.ts = old.ts /\ new.requests = old.requests + 1 /\ new.tokens = Add(old.tokens, t)
  BY <1>6, <1>7
<1>9. b2 = [buckets EXCEPT ![k] = new]
  <2>1. new = [old EXCEPT !.requests = @ + 1, !.tokens = Add(@, t)]
    BY <1>6, <1>7 DEF Buckets
  <2>2. DOMAIN buckets = 1 .. n
    BY <1>1, LenProperties
  <2>3. Grown(buckets, k, t) =
          [buckets EXCEPT ![k] = [buckets[k] EXCEPT !.requests = @ + 1, !.tokens = Add(@, t)]]
    BY <1>2, <2>2 DEF Grown
  <2>4. QED
    BY <1>3, <2>1, <2>3
<1>10. /\ b2 \in Seq(Buckets) /\ Len(b2) = n
      /\ \A i \in 1 .. n : b2[i] = IF i = k THEN new ELSE buckets[i]
  BY <1>1, <1>7, <1>9, ExceptSeq
<1>11. \A i \in 1 .. n : b2[i].ts = buckets[i].ts
  BY <1>3, <1>8, <1>10
<1>12. PICK u, v, x, y : /\ u = RequestsOf(buckets) /\ v = RequestsOf(b2)
                         /\ x = TokensOf(buckets) /\ y = TokensOf(b2)
  OBVIOUS
<1>13. /\ u \in Seq(Int) /\ v \in Seq(Int) /\ Len(u) = n /\ Len(v) = Len(u)
       /\ x \in Seq(Int) /\ y \in Seq(Int) /\ Len(x) = n /\ Len(y) = Len(x)
       /\ \A i \in 1 .. n : /\ u[i] = buckets[i].requests /\ v[i] = b2[i].requests
                            /\ x[i] = buckets[i].tokens /\ y[i] = b2[i].tokens
  BY <1>1, <1>10, <1>12, ColumnsAdd
<1>14. SumOf(v) = SumOf(u) + 1
  <2>1. /\ k \in 1 .. Len(u) /\ 1 \in Int /\ v[k] = u[k] + 1
        /\ \A i \in 1 .. Len(u) : i # k => v[i] = u[i]
    <3>1. v[k] = old.requests + 1 /\ u[k] = old.requests
      BY <1>2, <1>3, <1>8, <1>10, <1>13
    <3>2. \A i \in 1 .. n : i # k => v[i] = u[i]
      BY <1>10, <1>13
    <3>3. QED
      BY <1>2, <1>13, <3>1, <3>2
  <2>2. QED
    BY <1>13, <2>1, SumChanges
<1>15. SumOf(y) % Width = ((SumOf(x) % Width) + t) % Width
  <2>1. PICK d \in Int : d = Add(old.tokens, t) - old.tokens
    BY <1>4, <1>5
  <2>2. /\ k \in 1 .. Len(x) /\ y[k] = x[k] + d
        /\ \A i \in 1 .. Len(x) : i # k => y[i] = x[i]
    <3>1. y[k] = Add(old.tokens, t) /\ x[k] = old.tokens
      BY <1>2, <1>3, <1>8, <1>10, <1>13
    <3>2. y[k] = x[k] + d
      BY <1>4, <1>5, <2>1, <3>1
    <3>3. \A i \in 1 .. n : i # k => y[i] = x[i]
      BY <1>10, <1>13
    <3>4. QED
      BY <1>2, <1>13, <3>2, <3>3
  <2>3. SumOf(y) = SumOf(x) + d
    BY <1>13, <2>2, SumChanges
  <2>4. PICK z \in Int, o \in Int : z = SumOf(x) /\ o = old.tokens
    BY <1>4, <1>13, SumIsInt
  <2>5. (z + (((o + t) % Width) - o)) % Width = ((z % Width) + t) % Width
    <3>1. t \in Int /\ Width \in Nat \ {0}
      BY <1>4
    <3>2. QED
      BY <3>1, WrapsAlike
  <2>6. QED
    BY <2>1, <2>3, <2>4, <2>5 DEF Add
<1>16. QED
  BY <1>1, <1>10, <1>11, <1>12, <1>14, <1>15

(* What a series is. *)
SeriesOK(buckets, hours, secs) ==
  /\ buckets \in Seq(Buckets) /\ Len(buckets) = NumBuckets(hours, secs)
  /\ \A i \in 1 .. Len(buckets) :
       buckets[i].ts = secs * ((Now \div secs) + i - NumBuckets(hours, secs))
  /\ SumOf(RequestsOf(buckets)) = Cardinality(InWindow(Window(hours, secs), secs))
  /\ SumOf(TokensOf(buckets)) % Width = TokensAt(InWindow(Window(hours, secs), secs)) % Width

(* So it stays. *)
LEMMA SeriesGrow ==
  ASSUME NEW r, Pushed(r), NEW hours \in Hours, NEW secs \in Secs,
         NEW buckets, SeriesOK(buckets, hours, secs)
  PROVE  SeriesOK(Placed(buckets, r, FirstBucket(Now, hours, secs), secs), hours, secs)'
<1>1. PICK n \in Nat : n = Len(input)
  BY PushedInput
<1>2. PICK b2, first : first = FirstBucket(Now, hours, secs) /\ b2 = Placed(buckets, r, first, secs)
  OBVIOUS
<1>3. PICK window : window = Window(hours, secs)
  OBVIOUS
<1>4. PICK A, B : A = InWindow(window, secs) /\ B = InWindow(window, secs)'
  OBVIOUS
<1>5. /\ A \in SUBSET (1 .. n) /\ n + 1 \notin A
      /\ B = IF r.at \div secs \in window THEN A \cup {n + 1} ELSE A
  BY <1>1, <1>4, WindowGrows
<1>6. /\ TokensAt(A) \in Int /\ TokensAt(A)' = TokensAt(A)
      /\ TokensAt(A \cup {n + 1})' = TokensAt(A) + Tokens(r)
  BY <1>1, <1>5, TokensGrow
<1>7. TokensAt(InWindow(window, secs))' = TokensAt(B)'
  BY <1>4 DEF TokensAt
<1>8. /\ buckets \in Seq(Buckets) /\ Len(buckets) = NumBuckets(hours, secs)
      /\ \A i \in 1 .. Len(buckets) :
           buckets[i].ts = secs * ((Now \div secs) + i - NumBuckets(hours, secs))
      /\ SumOf(RequestsOf(buckets)) = Cardinality(A)
      /\ SumOf(TokensOf(buckets)) % Width = TokensAt(A) % Width
  BY <1>3, <1>4 DEF SeriesOK
<1>9. r \in Logged /\ Tokens(r) \in Nat
  BY TokensAreNat DEF Pushed
<1>10. SUFFICES
         /\ b2 \in Seq(Buckets) /\ Len(b2) = NumBuckets(hours, secs)
         /\ \A i \in 1 .. Len(b2) :
              b2[i].ts = secs * ((Now \div secs) + i - NumBuckets(hours, secs))
         /\ SumOf(RequestsOf(b2)) = Cardinality(B)
         /\ SumOf(TokensOf(b2)) % Width = TokensAt(B)' % Width
  <2>1. SeriesOK(b2, hours, secs)'
    BY <1>3, <1>4, <1>7, <1>10 DEF SeriesOK
  <2>2. QED
    BY <1>2, <2>1
<1>11. PICK nb, q, k : nb = NumBuckets(hours, secs) /\ q = Now \div secs
                       /\ k = (r.at \div secs) - q + nb
  OBVIOUS
<1>12. /\ r.at \div secs \in Window(hours, secs) =>
            k \in 1 .. nb /\ Placed(buckets, r, first, secs) = Grown(buckets, k, Tokens(r))
       /\ r.at \div secs \notin Window(hours, secs) => Placed(buckets, r, first, secs) = buckets
  <2>1. Len(buckets) = nb
    BY <1>8, <1>11
  <2>2. QED
    BY <1>2, <1>9, <1>11, <2>1, PlacedIn
<1>13. CASE r.at \div secs \in window
  <2>1. k \in 1 .. Len(buckets) /\ b2 = Grown(buckets, k, Tokens(r))
    BY <1>2, <1>3, <1>8, <1>13, <1>11, <1>12
  <2>2. /\ b2 \in Seq(Buckets) /\ Len(b2) = Len(buckets)
        /\ \A i \in 1 .. Len(buckets) : b2[i].ts = buckets[i].ts
        /\ SumOf(RequestsOf(b2)) = SumOf(RequestsOf(buckets)) + 1
        /\ SumOf(TokensOf(b2)) % Width = ((SumOf(TokensOf(buckets)) % Width) + Tokens(r)) % Width
    BY <1>8, <1>9, <2>1, BucketGrows
  <2>3. Cardinality(B) = Cardinality(A) + 1
    <3>1. n \in Int /\ IsFiniteSet(1 .. n)
      BY FS_Interval
    <3>2. IsFiniteSet(A)
      BY <1>5, <3>1, FS_Subset
    <3>3. QED
      BY <1>5, <1>13, <3>2, FS_AddElement
  <2>4. TokensAt(B)' = TokensAt(A) + Tokens(r)
    BY <1>5, <1>6, <1>13
  <2>5. (TokensAt(A) + Tokens(r)) % Width = ((TokensAt(A) % Width) + Tokens(r)) % Width
    <3>1. Tokens(r) \in Int /\ Width \in Nat \ {0}
      BY <1>9, LogQueriesAssumption
    <3>2. QED
      BY <1>6, <3>1, WrapsOnce
  <2>6. QED
    BY <1>8, <2>2, <2>3, <2>4, <2>5
<1>14. CASE r.at \div secs \notin window
  <2>1. b2 = buckets
    BY <1>2, <1>3, <1>12, <1>14
  <2>2. B = A /\ TokensAt(B)' = TokensAt(A)
    BY <1>5, <1>6, <1>14
  <2>3. QED
    BY <1>8, <2>1, <2>2
<1>15. QED
  BY <1>13, <1>14

(* The series of each number of hours and of seconds. *)
AllSeriesOK ==
  task = "log" => /\ DOMAIN series = Hours \X Secs
                  /\ \A hours \in Hours, secs \in Secs : SeriesOK(series[<<hours, secs>>], hours, secs)

(* Of no record. *)
LEMMA SeriesBegin == Start => AllSeriesOK
<1> SUFFICES ASSUME Start, NEW hours \in Hours, NEW secs \in Secs
             PROVE  SeriesOK(EmptyBuckets(Now, hours, secs), hours, secs)
  BY DEF Start, AllSeriesOK
<1>1. PICK n, q, first : /\ n = NumBuckets(hours, secs) /\ q = Now \div secs
                         /\ first = FirstBucket(Now, hours, secs)
  OBVIOUS
<1>2. /\ n \in Nat /\ q \in Nat
      /\ n > 0 => \A i \in 1 .. n : Add(first, (i - 1) * secs) = secs * (q + i - n)
  BY <1>1, BucketsBegin
<1>3. PICK f : f = [i \in 1 .. n |-> Add(first, (i - 1) * secs)]
  OBVIOUS
<1>4. \A i \in 1 .. n : f[i] = secs * (q + i - n)
  BY <1>2, <1>3
<1>5. secs \in Nat /\ \A i \in 1 .. n : secs * (q + i - n) \in Int
  <2>1. PICK s \in Nat : s = secs
    BY AlgorithmsAssumption
  <2>2. \A i \in 1 .. n : s * (q + i - n) \in Int
    BY <1>2
  <2>3. QED
    BY <2>1, <2>2
<1>6. \A i \in 1 .. n : [ts |-> f[i], requests |-> 0, tokens |-> 0] \in Buckets
  BY <1>4, <1>5 DEF Buckets
<1>7. PICK buckets : buckets = [i \in 1 .. n |-> [ts |-> f[i], requests |-> 0, tokens |-> 0]]
  OBVIOUS
<1>8. buckets = EmptyBuckets(Now, hours, secs)
  BY <1>1, <1>3, <1>7 DEF EmptyBuckets
<1>9. buckets \in Seq(Buckets) /\ Len(buckets) = n
  BY <1>2, <1>6, <1>7, IsASeq, LenProperties
<1>10. \A i \in 1 .. n : /\ buckets[i].ts = f[i]
                         /\ buckets[i].requests = 0 /\ buckets[i].tokens = 0
  BY <1>7
<1>11. SumOf(RequestsOf(buckets)) = 0
  <2>1. PICK v : v = RequestsOf(buckets)
    OBVIOUS
  <2>2. v \in Seq(Int) /\ Len(v) = n /\ \A i \in 1 .. n : v[i] = 0
    BY <1>9, <1>10, <2>1, ColumnsAdd
  <2>3. QED
    BY <2>1, <2>2, SumOfZeros
<1>12. SumOf(TokensOf(buckets)) = 0
  <2>1. PICK v : v = TokensOf(buckets)
    OBVIOUS
  <2>2. v \in Seq(Int) /\ Len(v) = n /\ \A i \in 1 .. n : v[i] = 0
    BY <1>9, <1>10, <2>1, ColumnsAdd
  <2>3. QED
    BY <2>1, <2>2, SumOfZeros
<1>13. InWindow(Window(hours, secs), secs) = {} /\ input = << >>
  BY DEF Start, InWindow
<1>14. TokensAt({}) = 0 /\ Cardinality({}) = 0
  BY <1>13, NothingSums, FS_EmptySet
<1>15. QED
  BY <1>1, <1>4, <1>8, <1>9, <1>10, <1>11, <1>12, <1>13, <1>14 DEF SeriesOK

(* So they stay. *)
LEMMA SeriesStayOK == LogOK /\ AllSeriesOK /\ [Step]_loops => AllSeriesOK'
<1> SUFFICES ASSUME LogOK, AllSeriesOK, [Step]_loops, task' = "log"
             PROVE  /\ DOMAIN series' = Hours \X Secs
                    /\ \A hours \in Hours, secs \in Secs :
                         SeriesOK(series[<<hours, secs>>], hours, secs)'
  BY DEF AllSeriesOK
<1>1. task = "log" /\ (Count \/ UNCHANGED loops)
  BY OneTask
<1>2. CASE UNCHANGED loops
  <2>1. series' = series /\ input' = input
    BY <1>2 DEF loops
  <2>2. ASSUME NEW hours \in Hours, NEW secs \in Secs
        PROVE  SeriesOK(series[<<hours, secs>>], hours, secs)'
    <3>1. PICK buckets : buckets = series[<<hours, secs>>]
      OBVIOUS
    <3>2. SeriesOK(buckets, hours, secs)
      BY <1>1, <3>1 DEF AllSeriesOK
    <3>3. SeriesOK(buckets, hours, secs)'
      BY <2>1, <3>2 DEF SeriesOK, InWindow, TokensAt
    <3>4. QED
      BY <2>1, <3>1, <3>3
  <2>3. QED
    BY <1>1, <2>1, <2>2 DEF AllSeriesOK
<1>3. CASE Count
  <2>1. PICK r \in Records :
          /\ input' = Append(input, NewRecordOf(r))
          /\ series' = [q \in Hours \X Secs |->
                          Placed(series[q], NewRecordOf(r), FirstBucket(Now, q[1], q[2]), q[2])]
    BY <1>3 DEF Count
  <2>2. PICK p : p = NewRecordOf(r)
    OBVIOUS
  <2>3. Pushed(p)
    BY <1>1, <2>1, <2>2, RecordPushed DEF Pushed, LogOK
  <2>4. ASSUME NEW hours \in Hours, NEW secs \in Secs
        PROVE  SeriesOK(series[<<hours, secs>>], hours, secs)'
    <3>1. PICK buckets : buckets = series[<<hours, secs>>]
      OBVIOUS
    <3>2. SeriesOK(buckets, hours, secs)
      BY <1>1, <3>1 DEF AllSeriesOK
    <3>3. PICK b2 : b2 = Placed(buckets, p, FirstBucket(Now, hours, secs), secs)
      OBVIOUS
    <3>4. SeriesOK(Placed(buckets, p, FirstBucket(Now, hours, secs), secs), hours, secs)'
      BY <2>3, <3>2, SeriesGrow
    <3>5. SeriesOK(b2, hours, secs)'
      BY <3>3, <3>4
    <3>6. series'[<<hours, secs>>] = b2
      BY <2>1, <2>2, <3>1, <3>3
    <3>7. QED
      BY <3>5, <3>6
  <2>5. QED
    BY <2>1, <2>4
<1>4. QED
  BY <1>1, <1>2, <1>3

(* What the buckets say. *)
LEMMA SeriesShown == LogOK /\ AllSeriesOK => SeriesAgreesWithStats
<1> SUFFICES ASSUME LogOK, AllSeriesOK, task = "log", NEW hours \in Hours, NEW secs \in Secs
             PROVE
    LET buckets == series[<<hours, secs>>]
        n       == Len(buckets)
        inView  == {i \in DOMAIN input : /\ input[i].at >= buckets[1].ts
                                         /\ input[i].at < ((Now \div secs) + 1) * secs}
    IN  /\ n = NumBuckets(hours, secs)
        /\ n > 0 => /\ \A i \in 2 .. n : buckets[i].ts = buckets[i - 1].ts + secs
                    /\ Now \in buckets[n].ts .. buckets[n].ts + secs - 1
                    /\ SumOf([i \in 1 .. n |-> buckets[i].requests]) = Cardinality(inView)
                    /\ SumOf([i \in 1 .. n |-> buckets[i].tokens]) % Width
                         = TokensAt(inView) % Width
  BY DEF SeriesAgreesWithStats
<1>1. PICK b, n, q : /\ b = series[<<hours, secs>>] /\ n = NumBuckets(hours, secs)
                     /\ q = Now \div secs
  OBVIOUS
<1>2. n \in Nat /\ q \in Nat
  BY <1>1, BucketsBegin
<1>3. PICK s \in Nat \ {0} : s = secs
  BY AlgorithmsAssumption
<1>4. /\ b \in Seq(Buckets) /\ Len(b) = n
      /\ \A i \in 1 .. n : b[i].ts = s * (q + i - n)
      /\ SumOf(RequestsOf(b)) = Cardinality(InWindow(Window(hours, s), s))
      /\ SumOf(TokensOf(b)) % Width = TokensAt(InWindow(Window(hours, s), s)) % Width
  BY <1>1, <1>3 DEF AllSeriesOK, SeriesOK
<1>5. ASSUME n > 0, NEW i \in 2 .. n PROVE b[i].ts = b[i - 1].ts + s
  <2>1. i \in 1 .. n /\ i - 1 \in 1 .. n
    BY <1>2
  <2>2. b[i].ts = s * (q + i - n) /\ b[i - 1].ts = s * (q + (i - 1) - n)
    BY <1>4, <2>1
  <2>3. s * (q + i - n) = s * (q + (i - 1) - n) + s
    BY <1>2
  <2>4. QED
    BY <2>2, <2>3
<1>6. Now \in Nat /\ s * q <= Now /\ Now < s * q + s
  <2>1. Now \in Nat /\ q = Now \div s
    BY <1>1, <1>3, AlgorithmsAssumption
  <2>2. QED
    BY <2>1, PeriodOf
<1>7. ASSUME n > 0 PROVE Now \in b[n].ts .. b[n].ts + s - 1
  <2>1. n \in 1 .. n /\ q + n - n = q
    BY <1>2, <1>7
  <2>2. b[n].ts = s * q
    BY <1>4, <2>1
  <2>3. s * q \in Int
    BY <1>2
  <2>4. QED
    BY <1>6, <2>2, <2>3
<1>8. ASSUME n > 0
      PROVE  InWindow(Window(hours, s), s) =
               {i \in DOMAIN input : input[i].at >= b[1].ts /\ input[i].at < (q + 1) * s}
  <2>1. Window(hours, s) = q + 1 - n .. q
    BY <1>1, <1>3 DEF Window
  <2>2. 1 \in 1 .. n
    BY <1>2, <1>8
  <2>3. PICK m \in Int, h \in Int : m = q + 1 - n /\ h = q + 1
    BY <1>2
  <2>4. b[1].ts = s * m
    BY <1>4, <2>2, <2>3
  <2>5. ASSUME NEW i \in DOMAIN input
        PROVE  input[i].at \div s \in q + 1 - n .. q
                 <=> input[i].at >= b[1].ts /\ input[i].at < (q + 1) * s
    <3>1. PICK t \in Nat : t = input[i].at
      <4>1. input \in Seq(Logged) /\ i \in 1 .. Len(input)
        BY LenProperties DEF LogOK
      <4>2. input[i] \in Logged
        BY <4>1, ElementOfSeq
      <4>3. QED
        BY <4>2, TokensAreNat
    <3>2. PICK p \in Nat : p = t \div s /\ \A c \in Int : c <= p <=> s * c <= t
      BY PeriodOf
    <3>3. PICK x \in Int, y \in Int : x = s * m /\ y = s * h
      OBVIOUS
    <3>4. (m <= p <=> x <= t) /\ (h <= p <=> y <= t)
      BY <3>2, <3>3
    <3>5. p \in q + 1 - n .. q <=> m <= p /\ ~ (h <= p)
      BY <1>2, <2>3
    <3>6. p \in q + 1 - n .. q <=> t >= x /\ t < y
      BY <3>4, <3>5
    <3>7. (q + 1) * s = y
      BY <2>3, <3>3
    <3>8. QED
      BY <2>4, <3>1, <3>2, <3>3, <3>6, <3>7
  <2>6. QED
    BY <2>1, <2>5 DEF InWindow
<1>9. /\ RequestsOf(b) = [i \in 1 .. n |-> b[i].requests]
      /\ TokensOf(b) = [i \in 1 .. n |-> b[i].tokens]
  BY <1>4 DEF RequestsOf, TokensOf
<1>10. QED
  BY <1>1, <1>3, <1>4, <1>5, <1>7, <1>8, <1>9

----------------------------------------------------------------------------
(* The stream *)

(* The first of some places is the least. *)
LEMMA NthFirst ==
  ASSUME NEW m \in Nat, NEW I \in SUBSET (1 .. m), I # {}
  PROVE  Nth(I, 1) \in I /\ \A i \in I : Nth(I, 1) <= i
<1> DEFINE n == Cardinality(I)
<1>1. /\ n \in Nat
      /\ \A a \in 1 .. n : Nth(I, a) \in I
      /\ \A i \in I : \E a \in 1 .. n : Nth(I, a) = i
      /\ \A a, b \in 1 .. n : a < b => Nth(I, a) < Nth(I, b)
  BY NthCounts
<1> HIDE DEF n
<1>2. 1 \in 1 .. n
  <2>1. PICK i \in I : TRUE
    OBVIOUS
  <2>2. PICK a \in 1 .. n : Nth(I, a) = i
    BY <1>1
  <2>3. QED
    BY <1>1, <2>2
<1>3. ASSUME NEW i \in I PROVE Nth(I, 1) <= i
  <2>1. PICK a \in 1 .. n : Nth(I, a) = i
    BY <1>1
  <2>2. CASE a = 1
    BY <2>1, <2>2
  <2>3. CASE a # 1
    <3>1. 1 < a
      BY <2>3
    <3>2. Nth(I, 1) < Nth(I, a)
      BY <1>1, <1>2, <3>1
    <3>3. Nth(I, 1) \in I /\ i \in I
      BY <1>1, <1>2
    <3>4. \A j \in I : j \in Nat
      OBVIOUS
    <3>5. \A p, q \in Nat : p < q => p <= q
      OBVIOUS
    <3>6. Nth(I, 1) \in Nat /\ Nth(I, a) \in Nat
      BY <2>1, <3>3, <3>4
    <3>7. Nth(I, 1) <= Nth(I, a)
      BY <3>2, <3>5, <3>6
    <3>8. QED
      BY <2>1, <3>7
  <2>4. QED
    BY <2>2, <2>3
<1>4. QED
  BY <1>1, <1>2, <1>3

(* Nothing is left where no place is kept. *)
LEMMA SiftNone ==
  ASSUME NEW s
  PROVE  Sift(s, {}) = << >>
<1>1. Cardinality({}) = 0
  BY FS_EmptySet
<1>2. QED
  BY <1>1 DEF Sift

(* What is left of a sequence that has got one more element, which is left *)
(* or not.                                                                 *)
SiftsAppended(s, x, I) ==
  /\ Sift(Append(s, x), I) = Sift(s, I)
  /\ Sift(Append(s, x), I \cup {Len(s) + 1}) = Append(Sift(s, I), x)

(* So it is, whatever the places. *)
LEMMA SiftAppended ==
  ASSUME NEW S, NEW s \in Seq(S), NEW x \in S, NEW I \in SUBSET (1 .. Len(s))
  PROVE  SiftsAppended(s, x, I)
<1> DEFINE m == Len(s)
           t == Append(s, x)
           K == I \cup {m + 1}
           c == Cardinality(I)
           l == Sift(s, I)
           f == [a \in 1 .. c + 1 |-> IF a <= c THEN Nth(I, a) ELSE m + 1]
<1>1. /\ m \in Nat /\ t \in Seq(S) /\ Len(t) = m + 1 /\ t[m + 1] = x
      /\ \A i \in 1 .. m : t[i] = s[i]
  BY LenProperties, AppendProperties
<1>2. /\ c \in 0 .. m
      /\ \A a \in 1 .. c : Nth(I, a) \in I
      /\ \A i \in I : \E a \in 1 .. c : Nth(I, a) = i
      /\ \A a, b \in 1 .. c : a < b => Nth(I, a) < Nth(I, b)
  BY <1>1, NthCounts
<1>3. l \in Seq(S) /\ Len(l) = c
  BY SiftFacts
<1> HIDE DEF c
<1>4. l = [a \in 1 .. c |-> s[Nth(I, a)]]
  BY DEF Sift, c
<1>5. I \in SUBSET (1 .. m)
  OBVIOUS
<1> HIDE DEF m, t, c, l
<1>6. Sift(t, I) = l
  <2>1. Sift(t, I) = [a \in 1 .. c |-> t[Nth(I, a)]]
    BY DEF Sift, c
  <2>2. \A a \in 1 .. c : t[Nth(I, a)] = s[Nth(I, a)]
    BY <1>1, <1>2, <1>5
  <2>3. QED
    BY <1>4, <2>1, <2>2
<1>7. c \in Nat /\ c + 1 \in Nat /\ \A a \in 1 .. c + 1 : a \in 1 .. c \/ a = c + 1
  BY <1>1, <1>2
<1>8. /\ \A a \in 1 .. c : a \in 1 .. c + 1 /\ f[a] = Nth(I, a)
      /\ c + 1 \in 1 .. c + 1 /\ f[c + 1] = m + 1
  BY <1>7
<1> HIDE DEF f
<1>9. CountsUp(f, c + 1, K)
  <2>1. \A a \in 1 .. c + 1 : f[a] \in K
    BY <1>2, <1>7, <1>8
  <2>2. \A i \in K : \E a \in 1 .. c + 1 : f[a] = i
    BY <1>2, <1>8
  <2>3. ASSUME NEW a \in 1 .. c + 1, NEW b \in 1 .. c + 1, a < b PROVE f[a] < f[b]
    <3>1. a \in 1 .. c
      BY <1>7, <2>3
    <3>2. f[a] = Nth(I, a) /\ f[a] \in 1 .. m
      BY <1>2, <1>5, <1>8, <3>1
    <3>3. CASE b \in 1 .. c
      BY <1>2, <1>8, <2>3, <3>1, <3>2, <3>3
    <3>4. CASE b = c + 1
      <4>1. f[b] = m + 1
        BY <1>8, <3>4
      <4>2. QED
        BY <1>1, <3>2, <4>1
    <3>5. QED
      BY <1>7, <3>3, <3>4
  <2>4. QED
    BY <1>7, <2>1, <2>2, <2>3 DEF CountsUp
<1>10. K \in SUBSET (1 .. Len(t))
  BY <1>1, <1>5
<1> HIDE DEF K
<1>11. /\ Sift(t, K) \in Seq(S) /\ Len(Sift(t, K)) = c + 1
       /\ Sift(t, K) = [a \in 1 .. c + 1 |-> t[f[a]]]
  BY <1>1, <1>9, <1>10, SiftCounted
<1>12. /\ Append(l, x) \in Seq(S) /\ Len(Append(l, x)) = c + 1
       /\ Append(l, x)[c + 1] = x /\ \A a \in 1 .. c : Append(l, x)[a] = l[a]
  BY <1>3, AppendProperties
<1>13. \A a \in 1 .. c + 1 : Sift(t, K)[a] = Append(l, x)[a]
  <2> SUFFICES ASSUME NEW a \in 1 .. c + 1 PROVE t[f[a]] = Append(l, x)[a]
    BY <1>11
  <2>1. CASE a \in 1 .. c
    <3>1. f[a] = Nth(I, a) /\ Nth(I, a) \in 1 .. m
      BY <1>2, <1>5, <1>8, <2>1
    <3>2. Append(l, x)[a] = l[a] /\ l[a] = s[Nth(I, a)]
      BY <1>12, <1>4, <2>1
    <3>3. QED
      BY <1>1, <3>1, <3>2
  <2>2. CASE a = c + 1
    BY <1>1, <1>8, <1>12, <2>2
  <2>3. QED
    BY <1>7, <2>1, <2>2
<1>14. Sift(t, K) = Append(l, x)
  <2> DEFINE u == Sift(t, K)
             v == Append(l, x)
  <2>1. u \in Seq(S) /\ v \in Seq(S) /\ Len(u) = Len(v) /\ \A a \in 1 .. Len(u) : u[a] = v[a]
    BY <1>11, <1>12, <1>13
  <2> HIDE DEF u, v
  <2>2. u = v
    BY <2>1, SeqEqual
  <2>3. QED
    BY <2>2 DEF u, v
<1>15. QED
  BY <1>6, <1>14 DEF SiftsAppended, t, K, l, m

(* A line of the stream. *)
Deltas ==
  [choice : Nat, head : {l.head : l \in Lines}, text : Nat \cup {Absent},
   call : {Absent} \cup [index : Nat \cup {Absent}, id : {"id", Absent},
                         args : Nat \cup {Absent, Null}]]

(* What is fed is a line. *)
LEMMA LineFed ==
  ASSUME NEW l \in Lines, NEW n \in Nat
  PROVE  Numbered(l, n) \in Deltas
<1> DEFINE Calls == [index : Nat \cup {Absent}, id : {"id", Absent}, args : Nat \cup {Absent, Null}]
<1>1. l \in Deltas
  BY AlgorithmsAssumption DEF Deltas
<1>2. ASSUME NEW c \in Calls PROVE [c EXCEPT !.args = n] \in Calls
  OBVIOUS
<1> DEFINE text == IF l.text = Absent THEN l.text ELSE n
           call == IF l.call = Absent \/ l.call.args \in {Absent, Null} THEN l.call
                   ELSE [l.call EXCEPT !.args = n]
<1>3. text \in Nat \cup {Absent}
  OBVIOUS
<1>4. call \in {Absent} \cup Calls
  <2>1. l.call \in {Absent} \cup Calls
    BY <1>1 DEF Deltas
  <2>2. QED
    BY <1>2, <2>1
<1>5. Numbered(l, n) = [l EXCEPT !.text = text, !.call = call]
  BY DEF Numbered
<1> HIDE DEF text, call
<1>6. QED
  BY <1>1, <1>3, <1>4, <1>5 DEF Deltas

(* The arguments of a call as they are collected. *)
Collected(k) == IF ArgsSent(k) = << >> THEN Absent ELSE ArgsSent(k)

(* What is built is, at each line, what the lines so far say. *)
BuiltOK ==
  /\ built.text = TextSent /\ built.head = HeadSent
  /\ WellFormed => /\ DOMAIN built.calls = Indices
                   /\ \A k \in Indices : built.calls[k] = [id |-> "id", args |-> Collected(k)]

StreamOK == task = "stream" => input \in Seq(Deltas) /\ BuiltOK

(* A stream begins with nothing. *)
LEMMA StreamBegins == Start => StreamOK
<1> SUFFICES ASSUME Start PROVE input \in Seq(Deltas) /\ BuiltOK
  BY DEF StreamOK
<1>1. input = << >> /\ built = NothingBuilt
  BY DEF Start
<1>2. input \in Seq(Deltas) /\ DOMAIN input = {}
  BY <1>1, EmptySeq
<1>3. TextSent = << >>
  <2>1. {i \in DOMAIN input : input[i].text # Absent} = {}
    BY <1>2
  <2>2. QED
    BY <2>1, SiftNone DEF TextSent
<1>4. HeadSent = Absent
  BY <1>2 DEF HeadSent
<1>5. Indices = {}
  BY <1>2 DEF Indices
<1>6. built.text = << >> /\ built.head = Absent /\ DOMAIN built.calls = {}
  BY <1>1 DEF NothingBuilt
<1>7. QED
  BY <1>2, <1>3, <1>4, <1>5, <1>6 DEF BuiltOK

(* One more line. *)
Fed(l) ==
  /\ l \in Deltas /\ input' = Append(input, l) /\ built' = WithLine(built, l)

(* The lines as they were, and the new one. *)
LEMMA FedInput ==
  ASSUME input \in Seq(Deltas), NEW l, Fed(l)
  PROVE  /\ input' \in Seq(Deltas) /\ Len(input) \in Nat
         /\ DOMAIN input = 1 .. Len(input) /\ DOMAIN input' = 1 .. Len(input) + 1
         /\ Len(input') = Len(input) + 1 /\ input'[Len(input) + 1] = l
         /\ \A i \in 1 .. Len(input) : input'[i] = input[i] /\ input[i] \in Deltas
         /\ \A i \in 1 .. Len(input) + 1 : i \in 1 .. Len(input) \/ i = Len(input) + 1
<1>1. Len(input) \in Nat
  BY LenProperties
<1>2. QED
  BY <1>1, LenProperties, ElementOfSeq, AppendProperties DEF Fed

(* The text grows by the piece of the line, if it has one. *)
LEMMA TextGrows ==
  ASSUME input \in Seq(Deltas), NEW l, Fed(l)
  PROVE  TextSent' = IF l.text = Absent THEN TextSent ELSE Append(TextSent, l.text)
<1> DEFINE n == Len(input)
           S == Nat \cup {Absent}
           s == [i \in DOMAIN input |-> input[i].text]
           t == [i \in DOMAIN input' |-> input'[i].text]
           I == {i \in DOMAIN input : input[i].text # Absent}
           K == {i \in DOMAIN input' : input'[i].text # Absent}
<1>1. /\ n \in Nat /\ DOMAIN input = 1 .. n /\ DOMAIN input' = 1 .. n + 1
      /\ input'[n + 1] = l /\ \A i \in 1 .. n : input'[i] = input[i] /\ input[i] \in Deltas
      /\ \A i \in 1 .. n + 1 : i \in 1 .. n \/ i = n + 1
  BY FedInput
<1>2. l.text \in S /\ \A i \in 1 .. n : input[i].text \in S
  BY <1>1 DEF Fed, Deltas
<1> HIDE DEF n, S
<1>3. s \in Seq(S) /\ Len(s) = n
  BY <1>1, <1>2, IsASeq, LenProperties
<1>4. t = Append(s, l.text)
  <2>1. DOMAIN Append(s, l.text) = 1 .. n + 1 /\ Append(s, l.text)[n + 1] = l.text
        /\ \A i \in 1 .. n : Append(s, l.text)[i] = s[i]
    <3> HIDE DEF s
    <3>1. QED
      BY <1>2, <1>3, AppendProperties, LenProperties
  <2>2. /\ t \in Seq(S) /\ Len(t) = n + 1
        /\ Append(s, l.text) \in Seq(S) /\ Len(Append(s, l.text)) = n + 1
    BY <1>1, <1>2, <1>3, IsASeq, LenProperties, AppendProperties
  <2>3. \A i \in 1 .. n + 1 : t[i] = Append(s, l.text)[i]
    BY <1>1, <2>1
  <2> HIDE DEF s, t
  <2>4. QED
    BY <2>2, <2>3, SeqEqual
<1>5. I \in SUBSET (1 .. Len(s))
  BY <1>1, <1>3
<1>6. K = IF l.text = Absent THEN I ELSE I \cup {n + 1}
  BY <1>1
<1> HIDE DEF s, t, I, K
<1>7. SiftsAppended(s, l.text, I)
  BY <1>2, <1>3, <1>5, SiftAppended
<1>8. Sift(t, K) = IF l.text = Absent THEN Sift(s, I) ELSE Append(Sift(s, I), l.text)
  BY <1>3, <1>4, <1>6, <1>7 DEF SiftsAppended
<1>9. QED
  BY <1>8 DEF TextSent, s, t, I, K

(* The head is that of the first line that has one. *)
LEMMA HeadStays ==
  ASSUME input \in Seq(Deltas), NEW l, Fed(l)
  PROVE  HeadSent' = IF HeadSent = Absent THEN l.head ELSE HeadSent
<1> DEFINE n == Len(input)
           I == {i \in DOMAIN input : input[i].head # Absent}
           K == {i \in DOMAIN input' : input'[i].head # Absent}
<1>1. /\ n \in Nat /\ DOMAIN input = 1 .. n /\ DOMAIN input' = 1 .. n + 1
      /\ input'[n + 1] = l /\ \A i \in 1 .. n : input'[i] = input[i]
      /\ \A i \in 1 .. n + 1 : i \in 1 .. n \/ i = n + 1
  BY FedInput
<1> HIDE DEF n
<1>2. /\ I \in SUBSET (1 .. n) /\ K \in SUBSET (1 .. n + 1)
      /\ \A i \in I : input[i].head # Absent
  BY <1>1
<1>3. K = IF l.head = Absent THEN I ELSE I \cup {n + 1}
  BY <1>1
<1> HIDE DEF I, K
<1>4. /\ HeadSent = IF I = {} THEN Absent ELSE input[Nth(I, 1)].head
      /\ HeadSent' = IF K = {} THEN Absent ELSE input'[Nth(K, 1)].head
  BY DEF HeadSent, I, K
<1>5. CASE I = {}
  <2>1. CASE l.head = Absent
    BY <1>3, <1>4, <1>5, <2>1
  <2>2. CASE l.head # Absent
    <3>1. K = {n + 1}
      BY <1>3, <1>5, <2>2
    <3>2. n + 1 \in Nat /\ K # {}
      BY <1>1, <3>1
    <3>3. Nth(K, 1) \in K
      BY <1>2, <3>2, NthFirst
    <3>4. QED
      BY <1>1, <1>4, <1>5, <3>1, <3>3
  <2>3. QED
    BY <2>1, <2>2
<1>6. CASE I # {}
  <2>1. Nth(I, 1) \in I /\ \A i \in I : Nth(I, 1) <= i
    BY <1>1, <1>2, <1>6, NthFirst
  <2>2. K # {} /\ I \subseteq K /\ \A i \in K : i \in I \/ i = n + 1
    BY <1>3, <1>6
  <2>3. Nth(K, 1) \in K /\ \A i \in K : Nth(K, 1) <= i
    <3>1. n + 1 \in Nat
      BY <1>1
    <3>2. QED
      BY <1>2, <2>2, <3>1, NthFirst
  <2> DEFINE a == Nth(I, 1)
             b == Nth(K, 1)
  <2>4. a \in 1 .. n /\ a \in I /\ b \in K /\ (\A i \in I : a <= i) /\ b <= a
    BY <1>2, <2>1, <2>2, <2>3
  <2> HIDE DEF a, b
  <2>5. b = a
    <3>1. b \in 1 .. n + 1 /\ b # n + 1
      BY <1>1, <1>2, <2>4
    <3>2. b \in I
      BY <2>2, <2>4, <3>1
    <3>3. a <= b
      BY <2>4, <3>2
    <3>4. QED
      BY <1>1, <2>4, <3>1, <3>3
  <2>6. HeadSent = input[a].head /\ HeadSent' = input'[a].head /\ input[a].head # Absent
    BY <1>2, <1>4, <1>6, <2>2, <2>4, <2>5 DEF a, b
  <2>7. QED
    BY <1>1, <2>4, <2>6
<1>7. QED
  BY <1>5, <1>6

(* The arguments of the calls of a line. *)
ArgsOf(line) == IF line.call # Absent THEN line.call.args ELSE Absent

(* The arguments of a call grow by those of the line, if it has some. *)
LEMMA ArgsGrow ==
  ASSUME input \in Seq(Deltas), NEW l, Fed(l), NEW k
  PROVE  ArgsSent(k)' = IF l.call # Absent /\ l.call.index = k /\ l.call.args # Absent
                        THEN Append(ArgsSent(k), l.call.args) ELSE ArgsSent(k)
<1> DEFINE n == Len(input)
           S == Nat \cup {Absent, Null}
           s == [i \in DOMAIN input |-> ArgsOf(input[i])]
           t == [i \in DOMAIN input' |-> ArgsOf(input'[i])]
           Goes(line) == line.call # Absent /\ line.call.index = k /\ line.call.args # Absent
           I == {i \in DOMAIN input : Goes(input[i])}
           K == {i \in DOMAIN input' : Goes(input'[i])}
           x == ArgsOf(l)
<1>1. /\ n \in Nat /\ DOMAIN input = 1 .. n /\ DOMAIN input' = 1 .. n + 1
      /\ input'[n + 1] = l /\ \A i \in 1 .. n : input'[i] = input[i] /\ input[i] \in Deltas
      /\ \A i \in 1 .. n + 1 : i \in 1 .. n \/ i = n + 1
  BY FedInput
<1>2. \A line \in Deltas : ArgsOf(line) \in S
  BY DEF Deltas, ArgsOf
<1>3. x \in S /\ \A i \in 1 .. n : ArgsOf(input[i]) \in S
  BY <1>1, <1>2 DEF Fed
<1> HIDE DEF n, S, x
<1>4. s \in Seq(S) /\ Len(s) = n
  BY <1>1, <1>3, IsASeq, LenProperties
<1>5. t = Append(s, x)
  <2>1. DOMAIN Append(s, x) = 1 .. n + 1 /\ Append(s, x)[n + 1] = x
        /\ \A i \in 1 .. n : Append(s, x)[i] = s[i]
    <3> HIDE DEF s
    <3>1. QED
      BY <1>3, <1>4, AppendProperties, LenProperties
  <2>2. \A i \in 1 .. n + 1 : t[i] = IF i = n + 1 THEN x ELSE s[i]
    BY <1>1 DEF x
  <2>3. \A i \in 1 .. n + 1 : t[i] \in S
    BY <1>1, <1>3, <2>2
  <2>4. t \in Seq(S) /\ Len(t) = n + 1
    BY <1>1, <2>3, IsASeq, LenProperties
  <2> HIDE DEF s, t
  <2>5. Append(s, x) \in Seq(S) /\ Len(Append(s, x)) = n + 1
    BY <1>3, <1>4, AppendProperties
  <2>6. \A i \in 1 .. n + 1 : t[i] = Append(s, x)[i]
    BY <1>1, <2>1, <2>2
  <2>7. QED
    BY <2>4, <2>5, <2>6, SeqEqual
<1>6. I \in SUBSET (1 .. Len(s))
  BY <1>1, <1>4
<1>7. K = IF Goes(l) THEN I \cup {n + 1} ELSE I
  BY <1>1
<1>8. Goes(l) => x = l.call.args
  BY DEF ArgsOf, x
<1>9. ArgsSent(k) = Sift(s, I) /\ ArgsSent(k)' = Sift(t, K)
  <2>1. ArgsSent(k) = Sift(s, I)
    BY DEF ArgsSent, HasCall, ArgsOf
  <2>2. ArgsSent(k)' = Sift(t, K)
    BY DEF ArgsSent, HasCall, ArgsOf
  <2>3. QED
    BY <2>1, <2>2
<1> HIDE DEF s, t, I, K
<1>10. SiftsAppended(s, x, I)
  BY <1>3, <1>4, <1>6, SiftAppended
<1>11. Sift(t, K) = IF Goes(l) THEN Append(Sift(s, I), x) ELSE Sift(s, I)
  BY <1>4, <1>5, <1>7, <1>10 DEF SiftsAppended
<1>12. QED
  BY <1>8, <1>9, <1>11

(* A well-formed stream is one line before, too; the last call it has got  *)
(* has an index, arguments that are none or a piece, and the id exactly if *)
(* it is the first of its index.                                           *)
LEMMA WellFormedBefore ==
  ASSUME input \in Seq(Deltas), NEW l, Fed(l), WellFormed'
  PROVE  /\ WellFormed
         /\ l.call # Absent =>
              /\ l.call.index \in Nat /\ l.call.args \in Nat \cup {Absent}
              /\ l.call.id = IF l.call.index \in Indices THEN Absent ELSE "id"
<1>1. PICK n \in Nat : n = Len(input)
  BY LenProperties
<1>2. /\ n \in Nat /\ DOMAIN input = 1 .. n /\ DOMAIN input' = 1 .. n + 1
      /\ input'[n + 1] = l /\ \A i \in 1 .. n : input'[i] = input[i] /\ input[i] \in Deltas
      /\ \A i \in 1 .. n + 1 : i \in 1 .. n \/ i = n + 1
      /\ l \in Deltas
  BY <1>1, FedInput DEF Fed
<1>3. \A i \in 1 .. n + 1 :
        /\ input'[i].choice = 0
        /\ HasCall(i)' =>
             /\ input'[i].call.index # Absent /\ input'[i].call.args # Null
             /\ input'[i].call.id = IF \E j \in 1 .. i - 1 : SameCall(i, j)' THEN Absent ELSE "id"
  BY <1>2 DEF WellFormed
<1>4. \A i \in 1 .. n : HasCall(i)' <=> HasCall(i)
  BY <1>2 DEF HasCall
<1>5. \A i, j \in 1 .. n : SameCall(i, j)' <=> SameCall(i, j)
  BY <1>2, <1>4 DEF SameCall
<1>6. \A i \in 1 .. n : i \in 1 .. n + 1 /\ \A j \in 1 .. i - 1 : j \in 1 .. n
  BY <1>2
<1>7. WellFormed
  <2> SUFFICES ASSUME NEW i \in 1 .. n
               PROVE  /\ input[i].choice = 0
                      /\ HasCall(i) =>
                           /\ input[i].call.index # Absent /\ input[i].call.args # Null
                           /\ input[i].call.id =
                                IF \E j \in 1 .. i - 1 : SameCall(i, j) THEN Absent ELSE "id"
    BY <1>2 DEF WellFormed
  <2>1. (\E j \in 1 .. i - 1 : SameCall(i, j)') <=> (\E j \in 1 .. i - 1 : SameCall(i, j))
    BY <1>5, <1>6
  <2>2. QED
    BY <1>2, <1>3, <1>4, <1>6, <2>1
<1>8. ASSUME l.call # Absent
      PROVE  /\ l.call.index \in Nat /\ l.call.args \in Nat \cup {Absent}
             /\ l.call.id = IF l.call.index \in Indices THEN Absent ELSE "id"
  <2>1. n + 1 \in 1 .. n + 1 /\ (n + 1) - 1 = n
    BY <1>2
  <2>2. HasCall(n + 1)'
    BY <1>2, <1>8 DEF HasCall
  <2>3. /\ l.call.index # Absent /\ l.call.args # Null
        /\ l.call.id = IF \E j \in 1 .. n : SameCall(n + 1, j)' THEN Absent ELSE "id"
    BY <1>2, <1>3, <2>1, <2>2
  <2>4. \A j \in 1 .. n : SameCall(n + 1, j)' <=>
                          HasCall(j) /\ input[j].call.index = l.call.index
    BY <1>2, <1>4, <2>2 DEF SameCall
  <2>5. l.call.index \in Indices <=> \E j \in 1 .. n : SameCall(n + 1, j)'
    BY <1>2, <2>4 DEF Indices
  <2>6. l.call.index \in Nat /\ l.call.args \in Nat \cup {Absent}
    BY <1>2, <1>8, <2>3 DEF Deltas
  <2>7. QED
    BY <2>3, <2>5, <2>6
<1>9. QED
  BY <1>7, <1>8

(* The indices of the calls, with that of the new one. *)
LEMMA IndicesGrow ==
  ASSUME input \in Seq(Deltas), NEW l, Fed(l)
  PROVE  Indices' = IF l.call = Absent THEN Indices ELSE Indices \cup {l.call.index}
<1> DEFINE n == Len(input)
<1>1. /\ n \in Nat /\ DOMAIN input = 1 .. n /\ DOMAIN input' = 1 .. n + 1
      /\ input'[n + 1] = l /\ \A i \in 1 .. n : input'[i] = input[i]
      /\ \A i \in 1 .. n + 1 : i \in 1 .. n \/ i = n + 1
      /\ \A i \in 1 .. n : i \in 1 .. n + 1
      /\ n + 1 \in 1 .. n + 1
  BY FedInput
<1> HIDE DEF n
<1>2. Indices = {input[i].call.index : i \in {i \in 1 .. n : input[i].call # Absent}}
  BY <1>1 DEF Indices, HasCall
<1>3. Indices' = {input'[i].call.index : i \in {i \in 1 .. n + 1 : input'[i].call # Absent}}
  BY <1>1 DEF Indices, HasCall
<1>4. CASE l.call = Absent
  BY <1>1, <1>2, <1>3, <1>4
<1>5. CASE l.call # Absent
  BY <1>1, <1>2, <1>3, <1>5
<1>6. QED
  BY <1>4, <1>5

(* The pieces of a call are numbers. *)
LEMMA ArgsAreNumbers ==
  ASSUME input \in Seq(Deltas), WellFormed, NEW k
  PROVE  ArgsSent(k) \in Seq(Nat) /\ (k \notin Indices => ArgsSent(k) = << >>)
<1> DEFINE n == Len(input)
           S == Nat \cup {Absent, Null}
           s == [i \in DOMAIN input |-> ArgsOf(input[i])]
           I == {i \in DOMAIN input : /\ HasCall(i) /\ input[i].call.index = k
                                      /\ input[i].call.args # Absent}
<1>1. n \in Nat /\ DOMAIN input = 1 .. n /\ \A i \in 1 .. n : input[i] \in Deltas
  BY LenProperties, ElementOfSeq
<1>2. \A line \in Deltas : ArgsOf(line) \in S
  BY DEF Deltas, ArgsOf
<1>3. \A i \in I : ArgsOf(input[i]) \in Nat
  <2> SUFFICES ASSUME NEW i \in I PROVE ArgsOf(input[i]) \in Nat
    OBVIOUS
  <2>1. i \in 1 .. n /\ input[i].call # Absent /\ input[i].call.args # Absent
    BY <1>1 DEF HasCall
  <2>2. input[i].call.args # Null
    BY <1>1, <2>1 DEF WellFormed, HasCall
  <2>3. QED
    BY <1>1, <1>2, <2>1, <2>2 DEF ArgsOf
<1> HIDE DEF n, S
<1>4. s \in Seq(S) /\ Len(s) = n
  BY <1>1, <1>2, IsASeq, LenProperties
<1>5. ArgsSent(k) = Sift(s, I)
  BY DEF ArgsSent, HasCall, ArgsOf
<1>6. I \in SUBSET (1 .. n)
  BY <1>1
<1>7. \A i \in I : s[i] \in Nat
  BY <1>3
<1>8. k \notin Indices => I = {}
  BY DEF Indices
<1> HIDE DEF s, I
<1>9. /\ Len(Sift(s, I)) = Cardinality(I) /\ Cardinality(I) \in Nat
      /\ Sift(s, I) \in Seq(S)
      /\ \A a \in 1 .. Cardinality(I) : Nth(I, a) \in I /\ Sift(s, I)[a] = s[Nth(I, a)]
  BY <1>4, <1>6, SiftFacts
<1>10. Sift(s, I) \in Seq(Nat)
  <2>1. \A a \in 1 .. Len(Sift(s, I)) : Sift(s, I)[a] \in Nat
    BY <1>7, <1>9
  <2>2. QED
    BY <1>9, <2>1
<1>11. QED
  BY <1>5, <1>8, <1>10, SiftNone

(* The calls that are built stay those of the lines. *)
LEMMA CallsGrow ==
  ASSUME input \in Seq(Deltas), BuiltOK, NEW l, Fed(l), WellFormed'
  PROVE  /\ DOMAIN built'.calls = Indices'
         /\ \A k \in Indices' : built'.calls[k] = [id |-> "id", args |-> Collected(k)']
<1>1. /\ WellFormed
      /\ l.call # Absent =>
           /\ l.call.index \in Nat /\ l.call.args \in Nat \cup {Absent}
           /\ l.call.id = IF l.call.index \in Indices THEN Absent ELSE "id"
  BY WellFormedBefore
<1>2. /\ DOMAIN built.calls = Indices
      /\ \A k \in Indices : built.calls[k] = [id |-> "id", args |-> Collected(k)]
  BY <1>1 DEF BuiltOK
<1>3. Indices' = IF l.call = Absent THEN Indices ELSE Indices \cup {l.call.index}
  BY IndicesGrow
<1>4. \A k : ArgsSent(k)' = IF l.call # Absent /\ l.call.index = k /\ l.call.args # Absent
                            THEN Append(ArgsSent(k), l.call.args) ELSE ArgsSent(k)
  BY ArgsGrow
<1>5. \A k : ArgsSent(k) \in Seq(Nat) /\ (k \notin Indices => ArgsSent(k) = << >>)
  BY <1>1, ArgsAreNumbers
<1>6. CASE l.call = Absent
  <2>1. built'.calls = built.calls
    BY <1>6 DEF Fed, WithLine
  <2>2. \A k : Collected(k)' = Collected(k)
    BY <1>4, <1>6 DEF Collected
  <2>3. QED
    BY <1>2, <1>3, <1>6, <2>1, <2>2
<1>7. CASE l.call # Absent
  <2> DEFINE i == l.call.index
             a == l.call.args
  <2>1. IndexOf(l.call) = i /\ i \in Nat /\ a \in Nat \cup {Absent}
    BY <1>1, <1>7, AlgorithmsAssumption DEF IndexOf
  <2>2. built'.calls = [k \in Indices \cup {i} |->
                          IF k = i THEN MergeCall(CallAt(built.calls, i), l.call)
                          ELSE built.calls[k]]
    BY <1>2, <1>7, <2>1 DEF Fed, WithLine
  <2>3. \A k \in Indices : k # i => Collected(k)' = Collected(k)
    BY <1>4 DEF Collected
  <2>4. MergeCall(CallAt(built.calls, i), l.call) = [id |-> "id", args |-> Collected(i)']
    <3> DEFINE acc == CallAt(built.calls, i)
    <3>1. acc.args = Collected(i) /\ (i \in Indices => acc.id = "id")
      <4>1. CASE i \in Indices
        <5>1. acc = built.calls[i]
          BY <1>2, <4>1 DEF CallAt
        <5>2. built.calls[i] = [id |-> "id", args |-> Collected(i)]
          BY <1>2, <4>1
        <5>3. QED
          BY <5>1, <5>2
      <4>2. CASE i \notin Indices
        <5>1. acc.args = Absent
          BY <1>2, <4>2 DEF CallAt, NewCall
        <5>2. Collected(i) = Absent
          BY <1>5, <4>2 DEF Collected
        <5>3. QED
          BY <4>2, <5>1, <5>2
      <4>3. QED
        BY <4>1, <4>2
    <3>2. l.call.id = IF i \in Indices THEN Absent ELSE "id"
      BY <1>1, <1>7
    <3> HIDE DEF acc
    <3>3. (IF l.call.id = Absent THEN acc.id ELSE l.call.id) = "id"
      BY <3>1, <3>2, AlgorithmsAssumption
    <3>4. (CASE a = Absent -> acc.args [] a = Null -> Null
             [] OTHER -> IF acc.args \in {Absent, Null} THEN <<a>> ELSE Append(acc.args, a))
            = Collected(i)'
      <4>1. CASE a = Absent
        <5>1. ArgsSent(i)' = ArgsSent(i)
          BY <1>4, <4>1
        <5>2. Collected(i)' = Collected(i)
          BY <5>1 DEF Collected
        <5>3. a # Null
          BY <4>1, AlgorithmsAssumption
        <5>4. QED
          BY <3>1, <4>1, <5>2, <5>3
      <4>2. CASE a # Absent
        <5>1. a \in Nat /\ a # Null
          BY <2>1, <4>2, AlgorithmsAssumption
        <5>2. ArgsSent(i)' = Append(ArgsSent(i), a)
          BY <1>4, <1>7, <4>2
        <5>3. ArgsSent(i) \in Seq(Nat) /\ Append(ArgsSent(i), a) # << >>
          BY <1>5, <5>1, AppendProperties
        <5>4. Collected(i)' = Append(ArgsSent(i), a)
          BY <5>2, <5>3 DEF Collected
        <5>5. CASE ArgsSent(i) = << >>
          <6>1. acc.args = Absent
            BY <3>1, <5>5 DEF Collected
          <6>2. Append(<< >>, a) = <<a>>
            OBVIOUS
          <6>3. QED
            BY <4>2, <5>1, <5>4, <5>5, <6>1, <6>2
        <5>6. CASE ArgsSent(i) # << >>
          <6>1. acc.args = ArgsSent(i) /\ acc.args \notin {Absent, Null}
            BY <3>1, <5>3, <5>6, AlgorithmsAssumption DEF Collected
          <6>2. QED
            BY <4>2, <5>1, <5>4, <6>1
        <5>7. QED
          BY <5>5, <5>6
      <4>3. QED
        BY <4>1, <4>2
    <3>5. MergeCall(acc, l.call) = [id |-> "id", args |-> Collected(i)']
      BY <3>3, <3>4 DEF MergeCall
    <3>6. QED
      BY <3>5 DEF acc
  <2> HIDE DEF i, a
  <2>5. QED
    BY <1>2, <1>3, <1>7, <2>2, <2>3, <2>4 DEF i
<1>8. QED
  BY <1>6, <1>7

(* What is built stays what the lines say. *)
LEMMA StreamStaysOK == StreamOK /\ [Step]_loops => StreamOK'
<1> SUFFICES ASSUME StreamOK, [Step]_loops, task' = "stream"
             PROVE  input' \in Seq(Deltas) /\ BuiltOK'
  BY DEF StreamOK
<1>1. task = "stream" /\ (Feed \/ UNCHANGED loops)
  BY OneTask
<1>2. input \in Seq(Deltas) /\ BuiltOK
  BY <1>1 DEF StreamOK
<1>3. CASE UNCHANGED loops
  <2>1. input' = input /\ built' = built
    BY <1>3 DEF loops
  <2>2. TextSent' = TextSent /\ HeadSent' = HeadSent /\ Indices' = Indices
    BY <2>1 DEF TextSent, HeadSent, Indices, HasCall
  <2>3. WellFormed' <=> WellFormed
    BY <2>1 DEF WellFormed, HasCall, SameCall
  <2>4. \A k : Collected(k)' = Collected(k)
    BY <2>1 DEF Collected, ArgsSent, HasCall
  <2>5. QED
    BY <1>2, <2>1, <2>2, <2>3, <2>4 DEF BuiltOK
<1>4. CASE Feed
  <2>1. PICK m \in Lines : /\ input' = Append(input, Numbered(m, Len(input) + 1))
                           /\ built' = WithLine(built, Numbered(m, Len(input) + 1))
    BY <1>4 DEF Feed
  <2>2. Len(input) + 1 \in Nat
    BY <1>2, LenProperties
  <2>3. PICK l : Fed(l)
    BY <2>1, <2>2, LineFed DEF Fed
  <2>4. input' \in Seq(Deltas)
    BY <1>2, <2>3, FedInput
  <2>5. built'.text = IF l.text = Absent THEN built.text ELSE Append(built.text, l.text)
    BY <2>3 DEF Fed, WithLine
  <2>6. built'.head = IF built.head = Absent THEN l.head ELSE built.head
    BY <2>3 DEF Fed, WithLine
  <2>7. built'.text = TextSent'
    BY <1>2, <2>3, <2>5, TextGrows DEF BuiltOK
  <2>8. built'.head = HeadSent'
    BY <1>2, <2>3, <2>6, HeadStays DEF BuiltOK
  <2>9. ASSUME WellFormed'
        PROVE  /\ DOMAIN built'.calls = Indices'
               /\ \A k \in Indices' : built'.calls[k] = [id |-> "id", args |-> Collected(k)']
    BY <1>2, <2>3, <2>9, CallsGrow
  <2>10. QED
    BY <2>4, <2>7, <2>8, <2>9 DEF BuiltOK
<1>5. QED
  BY <1>1, <1>3, <1>4

(* The reply that is shown is the one that was streamed. *)
LEMMA StreamShown == StreamOK => RebuildsStream
<1> SUFFICES ASSUME StreamOK, task = "stream", WellFormed
             PROVE
    LET reply == Rebuilt(built)
        order == InOrder(Indices)
    IN  /\ reply.text = IF TextSent = << >> /\ Indices # {} THEN Null ELSE TextSent
        /\ reply.head = HeadSent
        /\ Len(reply.calls) = Len(order)
        /\ \A n \in DOMAIN order :
             reply.calls[n] =
               [id |-> "id",
                args |-> IF ArgsSent(order[n]) = << >> THEN Absent ELSE ArgsSent(order[n])]
  BY DEF RebuildsStream
<1> DEFINE reply == Rebuilt(built)
           order == InOrder(Indices)
           c == Cardinality(Indices)
<1>1. /\ input \in Seq(Deltas) /\ built.text = TextSent /\ built.head = HeadSent
      /\ DOMAIN built.calls = Indices
      /\ \A k \in Indices : built.calls[k] = [id |-> "id", args |-> Collected(k)]
  BY DEF StreamOK, BuiltOK
<1>2. Indices \in SUBSET Nat /\ IsFiniteSet(Indices)
  <2>1. /\ Len(input) \in Nat /\ DOMAIN input = 1 .. Len(input)
        /\ \A i \in 1 .. Len(input) : input[i] \in Deltas
    BY <1>1, LenProperties, ElementOfSeq
  <2>2. \A i \in DOMAIN input : HasCall(i) => input[i].call.index \in Nat
    BY <2>1 DEF WellFormed, HasCall, Deltas
  <2> DEFINE D == {i \in DOMAIN input : HasCall(i)}
             g == [i \in D |-> input[i].call.index]
  <2>3. IsFiniteSet(1 .. Len(input)) /\ D \in SUBSET (1 .. Len(input))
    BY <2>1, FS_Interval
  <2>4. IsFiniteSet(D)
    <3> HIDE DEF D
    <3>1. QED
      BY <2>3, FS_Subset
  <2>5. g \in Surjection(D, Indices)
    BY DEF Surjection, Indices
  <2> HIDE DEF D, g
  <2>6. IsFiniteSet(Indices)
    BY <2>4, <2>5, FS_Surjection
  <2>7. QED
    BY <2>2, <2>6 DEF Indices
<1>3. /\ c \in Nat /\ \A a \in 1 .. c : Nth(Indices, a) \in Indices
      /\ c = 0 <=> Indices = {}
  BY <1>2, NthOfFinite, FS_EmptySet
<1>4. order = [n \in 1 .. c |-> Nth(Indices, n)]
  BY DEF InOrder
<1> HIDE DEF c
<1>5. DOMAIN order = 1 .. c /\ Len(order) = c /\ (order # << >> <=> Indices # {})
  <2>1. order \in Seq(Indices) /\ Len(order) = c
    <3>1. \A n \in 1 .. c : Nth(Indices, n) \in Indices
      BY <1>3
    <3>2. QED
      BY <1>3, <1>4, <3>1, IsASeq, LenProperties
  <2>2. DOMAIN order = 1 .. c
    BY <1>4
  <2> HIDE DEF order
  <2>3. order = << >> <=> c = 0
    BY <1>3, <2>1, EmptySeq
  <2>4. QED
    BY <1>3, <2>1, <2>2, <2>3
<1>6. /\ reply.head = built.head
      /\ reply.text = IF built.text = << >> /\ order # << >> THEN Null ELSE built.text
      /\ reply.calls = [i \in DOMAIN order |-> built.calls[order[i]]]
  BY <1>1 DEF Rebuilt
<1>7. \A n \in 1 .. c : order[n] \in Indices
  BY <1>3, <1>4
<1> HIDE DEF reply, order
<1>8. Len(reply.calls) = c
  BY <1>3, <1>5, <1>6
<1>9. \A n \in 1 .. c : reply.calls[n] = [id |-> "id", args |-> Collected(order[n])]
  BY <1>1, <1>5, <1>6, <1>7
<1>10. reply.text = IF TextSent = << >> /\ Indices # {} THEN Null ELSE TextSent
  BY <1>1, <1>5, <1>6
<1>11. QED
  BY <1>1, <1>5, <1>6, <1>8, <1>9, <1>10 DEF Collected, reply, order

----------------------------------------------------------------------------
(* The models *)

(* What may be in the list of models. *)
Entries == Models \cup {AliasEntry(r.value) : r \in Rules}

(* The aliases are what is wanted, each once. *)
AliasesOK ==
  /\ aliases \in Seq({r.value : r \in Rules})
  /\ \A a \in 1 .. Len(aliases) : aliases[a] \in Wanted
  /\ \A id \in Wanted : \E a \in 1 .. Len(aliases) : aliases[a] = id
  /\ \A a, b \in 1 .. Len(aliases) : aliases[a] = aliases[b] => a = b

(* The aliases that have been put into the list. *)
Done == {aliases[a] : a \in 1 .. merged.put}

(* The list so far: the models where the backend has them, but for one of  *)
(* each name that has been put in; then the names it does not have.        *)
DataOK(data) ==
  /\ data \in Seq(Entries) /\ Len(input) <= Len(data)
  /\ \A i \in 1 .. Len(input) : /\ data[i].id = input[i].id
                                /\ data[i] = input[i] \/ data[i].id \in Done
                                /\ data[i].id \notin Done => data[i] = input[i]
  /\ \A i \in Len(input) + 1 .. Len(data) :
       data[i].id \in Done /\ \A j \in 1 .. Len(input) : input[j].id # data[i].id
  /\ \A i, j \in Len(input) + 1 .. Len(data) : data[i].id = data[j].id => i = j
  /\ \A id \in Done : \E i \in 1 .. Len(data) : data[i] = AliasEntry(id)

MergedOK ==
  /\ merged \in [data : Seq(Entries), put : Nat] /\ merged.put <= Len(aliases)
  /\ merged.put = 0 => merged.data = input
  /\ DataOK(merged.data)

ModelsOK ==
  task = "models" =>
    input \in Seq(Models) /\ rules \in Seq(Rules) /\ AliasesOK /\ MergedOK

(* What the rules want, at their beginning and with one more. *)
LEMMA WantedGrows ==
  ASSUME rules \in Seq(Rules), NEW r \in Rules
  PROVE  /\ rules = << >> => Wanted = {}
         /\ rules' = Append(rules, r) =>
              /\ rules' \in Seq(Rules)
              /\ Wanted' = IF r.kind = "model" /\ r.value # Blank
                           THEN Wanted \cup {r.value} ELSE Wanted
<1>1. rules = << >> => Wanted = {}
  BY DEF Wanted
<1>2. ASSUME rules' = Append(rules, r)
      PROVE  /\ rules' \in Seq(Rules)
             /\ Wanted' = IF r.kind = "model" /\ r.value # Blank
                          THEN Wanted \cup {r.value} ELSE Wanted
  <2>1. PICK n \in Nat : n = Len(rules)
    BY LenProperties
  <2>2. /\ rules' \in Seq(Rules) /\ Len(rules') = n + 1 /\ rules'[n + 1] = r
        /\ \A i \in 1 .. n : rules'[i] = rules[i]
    BY <1>2, <2>1, AppendProperties
  <2>3. DOMAIN rules = 1 .. n /\ DOMAIN rules' = 1 .. n + 1
    BY <2>1, <2>2, LenProperties
  <2>4. \A i \in 1 .. n + 1 : i \in 1 .. n \/ i = n + 1
    BY <2>1
  <2>5. \A i \in 1 .. n : i \in 1 .. n + 1
    BY <2>1
  <2>6. n + 1 \in 1 .. n + 1
    BY <2>1
  <2>7. \A v : v \in Wanted <=>
          \E i \in 1 .. n : rules[i].kind = "model" /\ rules[i].value # Blank /\ v = rules[i].value
    BY <2>3 DEF Wanted
  <2>8. \A v : v \in Wanted' <=>
          \E i \in 1 .. n + 1 : rules'[i].kind = "model" /\ rules'[i].value # Blank
                                /\ v = rules'[i].value
    BY <2>3 DEF Wanted
  <2>9. \A v : v \in Wanted' <=> v \in Wanted \/ (r.kind = "model" /\ r.value # Blank /\ v = r.value)
    <3> SUFFICES ASSUME NEW v
                 PROVE  v \in Wanted' <=>
                          v \in Wanted \/ (r.kind = "model" /\ r.value # Blank /\ v = r.value)
      OBVIOUS
    <3>1. ASSUME v \in Wanted' PROVE v \in Wanted \/ (r.kind = "model" /\ r.value # Blank /\ v = r.value)
      BY <2>2, <2>4, <2>7, <2>8, <3>1
    <3>2. ASSUME v \in Wanted PROVE v \in Wanted'
      BY <2>2, <2>5, <2>7, <2>8, <3>2
    <3>3. ASSUME r.kind = "model" /\ r.value # Blank /\ v = r.value PROVE v \in Wanted'
      BY <2>2, <2>6, <2>8, <3>3
    <3>4. QED
      BY <3>1, <3>2, <3>3
  <2>10. CASE r.kind = "model" /\ r.value # Blank
    BY <2>2, <2>9, <2>10
  <2>11. CASE ~ (r.kind = "model" /\ r.value # Blank)
    BY <2>2, <2>9, <2>11
  <2>12. QED
    BY <2>10, <2>11
<1>3. QED
  BY <1>1, <1>2

(* The aliases stay what is wanted. *)
LEMMA AliasesGrow ==
  ASSUME rules \in Seq(Rules), AliasesOK, NEW r \in Rules,
         rules' = Append(rules, r), aliases' = WithAlias(aliases, r)
  PROVE  AliasesOK'
<1> DEFINE V == {q.value : q \in Rules}
<1>1. PICK n \in Nat : n = Len(aliases)
  BY LenProperties DEF AliasesOK
<1>2. /\ aliases \in Seq(V) /\ DOMAIN aliases = 1 .. n
      /\ \A a \in 1 .. n : aliases[a] \in Wanted
      /\ \A id \in Wanted : \E a \in 1 .. n : aliases[a] = id
      /\ \A a, b \in 1 .. n : aliases[a] = aliases[b] => a = b
  BY <1>1, LenProperties DEF AliasesOK
<1>3. r.value \in V
  OBVIOUS
<1> HIDE DEF V
<1>4. Wanted' = IF r.kind = "model" /\ r.value # Blank THEN Wanted \cup {r.value} ELSE Wanted
  BY WantedGrows
<1>5. CASE r.kind # "model" \/ r.value = Blank \/ r.value \in Wanted
  <2>1. aliases' = aliases
    BY <1>2, <1>5 DEF WithAlias
  <2>2. Wanted' = Wanted
    BY <1>4, <1>5
  <2>3. QED
    BY <1>1, <1>2, <2>1, <2>2 DEF AliasesOK, V
<1>6. CASE ~ (r.kind # "model" \/ r.value = Blank \/ r.value \in Wanted)
  <2>1. aliases' = Append(aliases, r.value)
    BY <1>2, <1>6 DEF WithAlias
  <2>2. Wanted' = Wanted \cup {r.value}
    BY <1>4, <1>6
  <2>3. /\ aliases' \in Seq(V) /\ Len(aliases') = n + 1 /\ aliases'[n + 1] = r.value
        /\ \A a \in 1 .. n : aliases'[a] = aliases[a]
    BY <1>1, <1>2, <1>3, <2>1, AppendProperties
  <2>4. /\ \A a \in 1 .. n + 1 : a \in 1 .. n \/ a = n + 1
        /\ \A a \in 1 .. n : a \in 1 .. n + 1
        /\ n + 1 \in 1 .. n + 1
    BY <1>1
  <2>5. \A a \in 1 .. n + 1 : aliases'[a] \in Wanted'
    BY <1>2, <2>2, <2>3, <2>4
  <2>6. \A id \in Wanted' : \E a \in 1 .. n + 1 : aliases'[a] = id
    BY <1>2, <2>2, <2>3, <2>4
  <2>7. \A a \in 1 .. n : aliases[a] # r.value
    BY <1>2, <1>6
  <2>8. \A a, b \in 1 .. n + 1 : aliases'[a] = aliases'[b] => a = b
    BY <1>2, <2>3, <2>4, <2>7
  <2>9. QED
    BY <2>3, <2>5, <2>6, <2>8 DEF AliasesOK, V
<1>7. QED
  BY <1>5, <1>6

(* Nothing has been put in, and the list is the backend's. *)
LEMMA NothingPut ==
  ASSUME input \in Seq(Models), merged \in [data : Seq(Entries), put : Nat],
         merged.put = 0, merged.data = input
  PROVE  MergedOK <=> 0 <= Len(aliases)
<1>1. Done = {}
  BY DEF Done
<1>2. input \in Seq(Entries) /\ Len(input) \in Nat
  BY LenProperties
<1>3. Len(input) + 1 .. Len(input) = {}
  BY <1>2
<1>4. DataOK(input)
  BY <1>1, <1>2, <1>3 DEF DataOK
<1>5. QED
  BY <1>4 DEF MergedOK

(* The loops begin with no models. *)
LEMMA ModelsBegin == Start => ModelsOK
<1> SUFFICES ASSUME Start
             PROVE  input \in Seq(Models) /\ rules \in Seq(Rules) /\ AliasesOK /\ MergedOK
  BY DEF ModelsOK
<1>1. /\ input = << >> /\ rules = << >> /\ aliases = << >> /\ merged = [data |-> << >>, put |-> 0]
  BY DEF Start
<1>2. input \in Seq(Models) /\ rules \in Seq(Rules) /\ << >> \in Seq(Entries)
  BY <1>1, EmptySeq
<1>3. Wanted = {} /\ Len(aliases) = 0 /\ aliases \in Seq({r.value : r \in Rules})
  BY <1>1, EmptySeq DEF Wanted
<1>4. AliasesOK
  BY <1>3 DEF AliasesOK
<1>5. MergedOK
  <2>1. /\ merged \in [data : Seq(Entries), put : Nat] /\ merged.put = 0 /\ merged.data = input
    BY <1>1, <1>2
  <2>2. QED
    BY <1>2, <1>3, <2>1, NothingPut
<1>6. QED
  BY <1>2, <1>4, <1>5

(* One alias is put in. *)
LEMMA PutKeeps ==
  ASSUME input \in Seq(Models), AliasesOK, MergedOK, merged.put < Len(aliases),
         NEW data, data = PutAlias(merged.data, aliases[merged.put + 1]),
         input' = input, aliases' = aliases, merged' = [data |-> data, put |-> merged.put + 1]
  PROVE  MergedOK'
<1>1. PICK n \in Nat : n = Len(input)
  BY LenProperties
<1>2. PICK m \in Nat : m = Len(merged.data)
  BY LenProperties DEF MergedOK
<1>3. PICK p \in Nat : p = merged.put
  BY DEF MergedOK
<1>4. PICK old \in Seq(Entries) : old = merged.data
  BY DEF MergedOK
<1>5. PICK id : id = aliases[p + 1]
  OBVIOUS
<1>6. PICK D : D = Done
  OBVIOUS
<1>7. /\ Len(aliases) \in Nat /\ p + 1 \in 1 .. Len(aliases) /\ id \in {r.value : r \in Rules}
      /\ \A a \in 1 .. p : a \in 1 .. Len(aliases) /\ a # p + 1
  <2>1. Len(aliases) \in Nat
    BY LenProperties DEF AliasesOK
  <2>2. p + 1 \in 1 .. Len(aliases)
    BY <1>3, <2>1
  <2>3. id \in {r.value : r \in Rules}
    BY <1>5, <2>2, ElementOfSeq DEF AliasesOK
  <2>4. \A a \in 1 .. p : a \in 1 .. Len(aliases) /\ a # p + 1
    BY <2>1, <2>2
  <2>5. QED
    BY <2>1, <2>2, <2>3, <2>4
<1>8. id \notin D
  BY <1>3, <1>5, <1>6, <1>7 DEF AliasesOK, Done
<1>9. Done' = D \cup {id}
  <2>1. \A a \in 1 .. p + 1 : a \in 1 .. p \/ a = p + 1
    OBVIOUS
  <2>2. merged'.put = p + 1 /\ \A a \in 1 .. p + 1 : a \in 1 .. p \/ a = p + 1
    BY <1>3, <2>1
  <2>3. \A a \in 1 .. p : a \in 1 .. p + 1
    OBVIOUS
  <2>4. p + 1 \in 1 .. p + 1
    OBVIOUS
  <2>5. Done' = {aliases[a] : a \in 1 .. p + 1}
    BY <2>2 DEF Done
  <2>6. QED
    BY <1>3, <1>5, <1>6, <2>2, <2>3, <2>4, <2>5 DEF Done
<1>10. /\ n <= m /\ Len(old) = m /\ DOMAIN old = 1 .. m
       /\ \A i \in 1 .. m : old[i] \in Entries
       /\ \A i \in 1 .. n : /\ old[i].id = input[i].id
                            /\ old[i] = input[i] \/ old[i].id \in D
                            /\ old[i].id \notin D => old[i] = input[i]
       /\ \A i \in n + 1 .. m : old[i].id \in D /\ \A j \in 1 .. n : input[j].id # old[i].id
       /\ \A i, j \in n + 1 .. m : old[i].id = old[j].id => i = j
       /\ \A d \in D : \E i \in 1 .. m : old[i] = AliasEntry(d)
  <2>1. Len(old) = m /\ DOMAIN old = 1 .. m /\ \A i \in 1 .. m : old[i] \in Entries
    BY <1>2, <1>4, LenProperties, ElementOfSeq
  <2>2. QED
    BY <1>1, <1>2, <1>4, <1>6, <2>1 DEF MergedOK, DataOK
<1>11. AliasEntry(id) \in Entries /\ \A d : AliasEntry(d).id = d
  BY <1>7 DEF Entries, AliasEntry
<1>12. \A i \in 1 .. m : i \in 1 .. n \/ i \in n + 1 .. m
  BY <1>10
<1>13. \A i : i \in 1 .. n \/ i \in n + 1 .. m => i \in 1 .. m
  BY <1>10
<1> DEFINE same == {i \in 1 .. m : old[i].id = id}
<1>14. /\ data \in Seq(Entries) /\ n <= Len(data)
       /\ \A i \in 1 .. n : /\ data[i].id = input[i].id
                            /\ data[i] = input[i] \/ data[i].id \in D \cup {id}
                            /\ data[i].id \notin D \cup {id} => data[i] = input[i]
       /\ \A i \in n + 1 .. Len(data) :
            data[i].id \in D \cup {id} /\ \A j \in 1 .. n : input[j].id # data[i].id
       /\ \A i, j \in n + 1 .. Len(data) : data[i].id = data[j].id => i = j
       /\ \A d \in D \cup {id} : \E i \in 1 .. Len(data) : data[i] = AliasEntry(d)
  <2>1. CASE same = {}
    <3>1. data = Append(old, AliasEntry(id))
      <4>1. {i \in DOMAIN old : old[i].id = id} = {}
        BY <1>10, <2>1
      <4>2. QED
        BY <1>3, <1>4, <1>5, <4>1 DEF PutAlias
    <3>2. /\ data \in Seq(Entries) /\ Len(data) = m + 1 /\ data[m + 1] = AliasEntry(id)
          /\ \A i \in 1 .. m : data[i] = old[i]
      BY <1>10, <1>11, <3>1, AppendProperties
    <3>3. \A i \in n + 1 .. m + 1 : i \in n + 1 .. m \/ i = m + 1
      <4>1. n <= m
        BY <1>10
      <4>2. QED
        BY <4>1
    <3>4. m + 1 \in 1 .. m + 1 /\ \A i \in 1 .. m : i \in 1 .. m + 1
      OBVIOUS
    <3>5. n <= m + 1
      BY <1>10
    <3>6. \A i \in 1 .. m : old[i].id # id
      BY <2>1
    <3>7. \A i \in 1 .. n : /\ data[i].id = input[i].id
                            /\ data[i] = input[i] \/ data[i].id \in D \cup {id}
                            /\ data[i].id \notin D \cup {id} => data[i] = input[i]
      BY <1>10, <1>13, <3>2
    <3>8. \A j \in 1 .. n : input[j].id # id
      BY <1>10, <1>13, <3>6
    <3>9. \A i \in n + 1 .. m + 1 :
            data[i].id \in D \cup {id} /\ \A j \in 1 .. n : input[j].id # data[i].id
      BY <1>10, <1>11, <1>13, <3>2, <3>3, <3>8
    <3>10. \A i, j \in n + 1 .. m + 1 : data[i].id = data[j].id => i = j
      <4> SUFFICES ASSUME NEW i \in n + 1 .. m + 1, NEW j \in n + 1 .. m + 1,
                          data[i].id = data[j].id
                   PROVE  i = j
        OBVIOUS
      <4>1. \A o \in n + 1 .. m : data[o] = old[o] /\ data[o].id # id
        BY <1>13, <3>2, <3>6
      <4>2. data[m + 1].id = id
        BY <1>11, <3>2
      <4>3. CASE i \in n + 1 .. m /\ j \in n + 1 .. m
        BY <1>10, <4>1, <4>3
      <4>4. CASE i = m + 1 \/ j = m + 1
        BY <3>3, <4>1, <4>2, <4>4
      <4>5. QED
        BY <3>3, <4>3, <4>4
    <3>11. \A d \in D \cup {id} : \E i \in 1 .. m + 1 : data[i] = AliasEntry(d)
      <4> HIDE DEF same
      <4> SUFFICES ASSUME NEW d \in D \cup {id}
                   PROVE  \E i \in 1 .. m + 1 : data[i] = AliasEntry(d)
        OBVIOUS
      <4>1. CASE d \in D
        <5>1. PICK i \in 1 .. m : old[i] = AliasEntry(d)
          BY <1>10, <4>1
        <5>2. QED
          BY <3>2, <3>4, <5>1
      <4>2. CASE d = id
        BY <3>2, <3>4, <4>2
      <4>3. QED
        BY <4>1, <4>2
    <3>12. QED
      BY <3>2, <3>5, <3>7, <3>9, <3>10, <3>11
  <2>2. CASE same # {}
    <3>1. PICK q \in same : q = CHOOSE i \in same : \A j \in same : i <= j
      <4>1. same \in SUBSET Nat
        OBVIOUS
      <4> HIDE DEF same
      <4>2. \E i \in same : \A j \in same : i <= j
        BY <2>2, <4>1, LeastOf
      <4>3. QED
        BY <4>2
    <3>2. data = [old EXCEPT ![q] = AliasEntry(id)]
      <4>1. {i \in DOMAIN old : old[i].id = id} = same
        BY <1>10
      <4>2. QED
        BY <1>3, <1>4, <1>5, <2>2, <3>1, <4>1 DEF PutAlias
    <3>3. q \in 1 .. m /\ old[q].id = id
      OBVIOUS
    <3> HIDE DEF same
    <3>4. /\ DOMAIN data = 1 .. m /\ data[q] = AliasEntry(id)
          /\ \A i \in 1 .. m : i # q => data[i] = old[i]
      BY <1>10, <3>2, <3>3
    <3>5. data \in Seq(Entries) /\ Len(data) = m
      BY <1>10, <1>11, <3>2, <3>3, ExceptSeq
    <3>6. \A i \in 1 .. m : data[i].id = old[i].id
      BY <1>11, <3>3, <3>4
    <3>7. q \in 1 .. n
      BY <1>8, <1>10, <1>12, <3>3
    <3>8. \A i \in n + 1 .. m : i # q
      BY <3>7
    <3>9. \A i \in 1 .. n : /\ data[i].id = input[i].id
                            /\ data[i] = input[i] \/ data[i].id \in D \cup {id}
                            /\ data[i].id \notin D \cup {id} => data[i] = input[i]
      BY <1>10, <1>13, <3>3, <3>4, <3>6
    <3>10. \A i \in n + 1 .. m :
             data[i].id \in D \cup {id} /\ \A j \in 1 .. n : input[j].id # data[i].id
      BY <1>10, <1>13, <3>6
    <3>11. \A i, j \in n + 1 .. m : data[i].id = data[j].id => i = j
      BY <1>10, <1>13, <3>6
    <3>12. \A d \in D \cup {id} : \E i \in 1 .. m : data[i] = AliasEntry(d)
      <4> SUFFICES ASSUME NEW d \in D PROVE \E i \in 1 .. m : data[i] = AliasEntry(d)
        BY <3>3, <3>4
      <4>1. PICK i \in 1 .. m : old[i] = AliasEntry(d)
        BY <1>10
      <4>2. i # q
        BY <1>8, <1>11, <3>3, <4>1
      <4>3. QED
        BY <3>4, <4>1, <4>2
    <3>13. QED
      BY <1>10, <3>5, <3>9, <3>10, <3>11, <3>12
  <2>3. QED
    BY <2>1, <2>2
<1>15. merged'.data = data /\ merged'.put = p + 1 /\ p + 1 # 0
  BY <1>3
<1>16. merged' \in [data : Seq(Entries), put : Nat]
  BY <1>3, <1>14
<1>17. DataOK(data)'
  <2>1. Len(input') = n
    BY <1>1
  <2> HIDE DEF same
  <2>2. (\A i \in 1 .. Len(input) : /\ data[i].id = input[i].id
                                    /\ data[i] = input[i] \/ data[i].id \in Done
                                    /\ data[i].id \notin Done => data[i] = input[i])'
    BY <1>9, <1>14, <2>1
  <2>3. (\A i \in Len(input) + 1 .. Len(data) :
           data[i].id \in Done /\ \A j \in 1 .. Len(input) : input[j].id # data[i].id)'
    BY <1>9, <1>14, <2>1
  <2>4. (\A d \in Done : \E i \in 1 .. Len(data) : data[i] = AliasEntry(d))'
    BY <1>9, <1>14
  <2>5. /\ (data \in Seq(Entries) /\ Len(input) <= Len(data))'
        /\ (\A i, j \in Len(input) + 1 .. Len(data) : data[i].id = data[j].id => i = j)'
    BY <1>14, <2>1
  <2>6. QED
    BY <2>2, <2>3, <2>4, <2>5 DEF DataOK
<1>18. QED
  BY <1>7, <1>15, <1>16, <1>17 DEF MergedOK

(* The list of models and the aliases stay so. *)
LEMMA ModelsStayOK == ModelsOK /\ [Step]_loops => ModelsOK'
<1> SUFFICES ASSUME ModelsOK, [Step]_loops, task' = "models"
             PROVE  /\ input' \in Seq(Models) /\ rules' \in Seq(Rules)
                    /\ AliasesOK' /\ MergedOK'
  BY DEF ModelsOK
<1>1. task = "models" /\ (AddModel \/ AddRule \/ Merge \/ UNCHANGED loops)
  BY OneTask
<1>2. input \in Seq(Models) /\ rules \in Seq(Rules) /\ AliasesOK /\ MergedOK
  BY <1>1 DEF ModelsOK
<1>3. /\ merged \in [data : Seq(Entries), put : Nat] /\ merged.put <= Len(aliases)
      /\ merged.put = 0 => merged.data = input
      /\ Len(aliases) \in Nat
  BY <1>2, LenProperties DEF MergedOK, AliasesOK
<1>4. CASE AddModel
  <2>1. PICK m \in Models : input' = Append(input, m)
                            /\ merged' = [merged EXCEPT !.data = Append(merged.data, m)]
    BY <1>4 DEF AddModel
  <2>2. rules = << >> /\ rules' = rules /\ aliases' = aliases
    BY <1>4 DEF AddModel
  <2>3. Wanted = {} /\ Wanted' = Wanted
    BY <2>2 DEF Wanted
  <2>4. AliasesOK'
    BY <1>2, <2>2, <2>3 DEF AliasesOK
  <2>5. Len(aliases) = 0
    <3>1. \A a \in 1 .. Len(aliases) : FALSE
      BY <1>2, <2>3 DEF AliasesOK
    <3>2. QED
      BY <1>3, <3>1
  <2>6. merged.put = 0 /\ merged.data = input
    BY <1>3, <2>5
  <2>7. input' \in Seq(Models) /\ input' \in Seq(Entries)
    <3>1. input \in Seq(Entries) /\ m \in Entries
      BY <1>3, <2>6 DEF Entries
    <3>2. input' \in Seq(Entries)
      BY <2>1, <3>1, AppendProperties
    <3>3. QED
      BY <1>2, <2>1, <3>2, AppendProperties
  <2>8. merged' \in [data : Seq(Entries), put : Nat] /\ merged'.put = 0 /\ merged'.data = input'
    BY <1>3, <2>1, <2>6, <2>7
  <2>9. MergedOK'
    <3>1. Len(aliases') = 0
      BY <2>2, <2>5
    <3>2. Done' = {}
      BY <2>8 DEF Done
    <3>3. Len(input') \in Nat /\ Len(input') + 1 .. Len(input') = {}
      BY <2>7, LenProperties
    <3>4. DataOK(merged.data)'
      BY <2>7, <2>8, <3>2, <3>3 DEF DataOK
    <3>5. QED
      BY <2>8, <3>1, <3>4 DEF MergedOK
  <2>10. QED
    BY <1>2, <2>2, <2>4, <2>7, <2>9
<1>5. CASE AddRule
  <2>1. PICK r \in Rules : rules' = Append(rules, r) /\ aliases' = WithAlias(aliases, r)
    BY <1>5 DEF AddRule
  <2>2. merged.put = 0 /\ input' = input /\ merged' = merged
    BY <1>5 DEF AddRule
  <2>3. rules' \in Seq(Rules)
    BY <1>2, <2>1, WantedGrows
  <2>4. AliasesOK'
    BY <1>2, <2>1, AliasesGrow
  <2>5. Len(aliases') \in Nat
    BY <2>4, LenProperties DEF AliasesOK
  <2>6. Done' = Done
    BY <2>2 DEF Done
  <2>7. DataOK(merged.data)'
    BY <1>2, <2>2, <2>6 DEF MergedOK, DataOK
  <2>8. MergedOK'
    BY <1>3, <2>2, <2>5, <2>7 DEF MergedOK
  <2>9. QED
    BY <1>2, <2>2, <2>3, <2>4, <2>8
<1>6. CASE Merge
  <2>1. /\ merged.put < Len(aliases) /\ input' = input /\ aliases' = aliases /\ rules' = rules
        /\ merged' = [data |-> PutAlias(merged.data, aliases[merged.put + 1]),
                      put  |-> merged.put + 1]
    BY <1>6 DEF Merge
  <2>2. MergedOK'
    BY <1>2, <2>1, PutKeeps
  <2>3. AliasesOK'
    BY <1>2, <2>1 DEF AliasesOK, Wanted
  <2>4. QED
    BY <1>2, <2>1, <2>2, <2>3
<1>7. CASE UNCHANGED loops
  <2>1. input' = input /\ rules' = rules /\ aliases' = aliases /\ merged' = merged
    BY <1>7 DEF loops
  <2>2. Done' = Done /\ Wanted' = Wanted
    BY <2>1 DEF Done, Wanted
  <2>3. AliasesOK'
    BY <1>2, <2>1, <2>2 DEF AliasesOK
  <2>4. DataOK(merged.data)'
    BY <1>2, <2>1, <2>2 DEF MergedOK, DataOK
  <2>5. MergedOK'
    BY <1>2, <2>1, <2>4 DEF MergedOK
  <2>6. QED
    BY <1>2, <2>1, <2>3, <2>5
<1>8. QED
  BY <1>1, <1>4, <1>5, <1>6, <1>7

(* The places of a name. *)
LEMMA NamedFinite ==
  ASSUME NEW S, NEW list \in Seq(S), NEW id
  PROVE  IsFiniteSet(Named(list, id)) /\ Cardinality(Named(list, id)) \in Nat
<1>1. DOMAIN list = 1 .. Len(list) /\ Len(list) \in Nat
  BY LenProperties
<1>2. IsFiniteSet(1 .. Len(list)) /\ Named(list, id) \in SUBSET (1 .. Len(list))
  BY <1>1, FS_Interval DEF Named
<1>3. QED
  BY <1>2, FS_Subset, FS_CardinalityType

(* When all aliases are put in, they are listed. *)
LEMMA ModelsListed == ModelsOK => AliasesListed
<1> SUFFICES ASSUME ModelsOK, task = "models", merged.put = Len(aliases)
             PROVE
    LET list == merged.data IN
    /\ \A id \in Wanted : \E i \in DOMAIN list : list[i] = AliasEntry(id)
    /\ \A i \in DOMAIN list :
         LET listed == Cardinality(Named(input, list[i].id)) IN
         Cardinality(Named(list, list[i].id)) = IF listed = 0 THEN 1 ELSE listed
    /\ \A i \in DOMAIN input : input[i].id \notin Wanted =>
         i \in DOMAIN list /\ list[i] = input[i]
    /\ \A i \in DOMAIN list : \/ \E j \in DOMAIN input : list[i] = input[j]
                              \/ list[i].id \in Wanted
  BY DEF AliasesListed
<1> DEFINE list == merged.data
           n == Len(input)
           m == Len(list)
<1>1. input \in Seq(Models) /\ AliasesOK /\ MergedOK /\ list \in Seq(Entries)
  BY DEF ModelsOK, MergedOK, DataOK
<1>2. Done = Wanted
  BY <1>1 DEF Done, AliasesOK
<1>3. n \in Nat /\ m \in Nat /\ DOMAIN input = 1 .. n /\ DOMAIN list = 1 .. m
  BY <1>1, LenProperties
<1>4. /\ n <= m
      /\ \A i \in 1 .. n : /\ list[i].id = input[i].id
                           /\ list[i] = input[i] \/ list[i].id \in Wanted
                           /\ list[i].id \notin Wanted => list[i] = input[i]
      /\ \A i \in n + 1 .. m : list[i].id \in Wanted /\ \A j \in 1 .. n : input[j].id # list[i].id
      /\ \A i, j \in n + 1 .. m : list[i].id = list[j].id => i = j
      /\ \A id \in Wanted : \E i \in 1 .. m : list[i] = AliasEntry(id)
  BY <1>1, <1>2 DEF MergedOK, DataOK
<1> HIDE DEF list, n, m
<1>5. n <= m
  BY <1>4
<1>6. /\ \A i \in 1 .. m : i \in 1 .. n \/ i \in n + 1 .. m
      /\ \A i \in 1 .. n : i \in 1 .. m /\ i \notin n + 1 .. m
  BY <1>3, <1>5
<1>7. ASSUME NEW i \in 1 .. m
      PROVE  LET listed == Cardinality(Named(input, list[i].id)) IN
             Cardinality(Named(list, list[i].id)) = IF listed = 0 THEN 1 ELSE listed
  <2> DEFINE id == list[i].id
             A == Named(input, id)
             B == Named(list, id)
  <2>1. A = {j \in 1 .. n : input[j].id = id} /\ B = {j \in 1 .. m : list[j].id = id}
    BY <1>3 DEF Named
  <2>2. IsFiniteSet(A) /\ Cardinality(A) \in Nat
    BY <1>1, NamedFinite
  <2>3. CASE i \in n + 1 .. m
    <3>1. A = {}
      BY <1>4, <2>1, <2>3
    <3>2. \A j \in B : j = i
      BY <1>4, <1>6, <2>1, <2>3
    <3>3. B = {i}
      BY <2>1, <3>2
    <3> HIDE DEF A, B, id
    <3>4. Cardinality(A) = 0 /\ Cardinality(B) = 1
      BY <3>1, <3>3, FS_EmptySet, FS_Singleton
    <3>5. QED
      BY <3>4 DEF A, B, id
  <2>4. CASE i \in 1 .. n
    <3>1. i \in A
      BY <1>4, <2>1, <2>4
    <3>2. \A j \in 1 .. m : list[j].id = id <=> j \in 1 .. n /\ input[j].id = id
      BY <1>4, <1>6, <2>1, <2>4
    <3>3. A = B
      BY <1>6, <2>1, <3>2
    <3> HIDE DEF A, B, id
    <3>4. Cardinality(A) # 0
      BY <2>2, <3>1, FS_EmptySet
    <3>5. QED
      BY <3>3, <3>4 DEF A, B, id
  <2>5. QED
    BY <1>6, <2>3, <2>4
<1>8. QED
  BY <1>3, <1>4, <1>6, <1>7 DEF list

----------------------------------------------------------------------------
(* All loops *)

(* The inductive invariant of the loops: what each has of its input so     *)
(* far, whichever runs.                                                    *)
LoopsInv == LogOK /\ AllStatsOK /\ AllSeriesOK /\ StreamOK /\ ModelsOK

(* Every loop keeps it, for inputs of any length.                          *)
THEOREM LoopsInvHolds == Loops => []LoopsInv
<1>1. Start => LoopsInv
  <2>1. Start => LogOK
    BY EmptySeq DEF Start, LogOK
  <2>2. QED
    BY <2>1, StatsBegin, SeriesBegin, StreamBegins, ModelsBegin DEF LoopsInv
<1>2. LoopsInv /\ [Step]_loops => LoopsInv'
  BY LogStaysOK, StatsStayOK, SeriesStayOK, StreamStaysOK, ModelsStayOK DEF LoopsInv
<1>3. QED
  BY <1>1, <1>2, PTL DEF Loops

(* For any log: what a search returns, says there is, and says it leaves   *)
(* out.                                                                    *)
THEOREM SearchIsComplete == Loops => []SearchTellsAll
<1>1. LoopsInv => SearchTellsAll
  BY LogSearched DEF LoopsInv
<1>2. QED
  BY <1>1, LoopsInvHolds, PTL

(* For any log, with clocks that are set back and sums that wrap: the      *)
(* figures of the backends add up to the totals.                           *)
THEOREM StatsAlwaysAddUp == Loops => []StatsAddUp
<1>1. LoopsInv => StatsAddUp
  BY StatsShown DEF LoopsInv
<1>2. QED
  BY <1>1, LoopsInvHolds, PTL

(* For any log and any window the console may ask for: the buckets cover   *)
(* it and count what is in it, once each.                                  *)
THEOREM SeriesAlwaysAgrees == Loops => []SeriesAgreesWithStats
<1>1. LoopsInv => SeriesAgreesWithStats
  BY SeriesShown DEF LoopsInv
<1>2. QED
  BY <1>1, LoopsInvHolds, PTL

(* For streams of any length, with any number of calls interleaved.        *)
THEOREM StreamIsRebuilt == Loops => []RebuildsStream
<1>1. LoopsInv => RebuildsStream
  BY StreamShown DEF LoopsInv
<1>2. QED
  BY <1>1, LoopsInvHolds, PTL

(* For any models and rules.                                               *)
THEOREM AliasesAreListed == Loops => []AliasesListed
<1>1. LoopsInv => AliasesListed
  BY ModelsListed DEF LoopsInv
<1>2. QED
  BY <1>1, LoopsInvHolds, PTL
=============================================================================
