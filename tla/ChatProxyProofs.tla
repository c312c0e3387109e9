-------------------------- MODULE ChatProxyProofs --------------------------
(***************************************************************************)
(* Proofs about ChatProxy, for any number of requests, any size of the log *)
(* and streams of any length.                                              *)
(***************************************************************************)
EXTENDS ChatProxy, CommonFacts, SequenceTheorems, TLAPS

(* The usage found in the chunks of a reply is a usage or none. *)
LEMMA FirstUsageType ==
  ASSUME NEW b \in Seq(Chunk)
  PROVE  FirstUsage(b) \in Usages \cup {NoUsage}
<1> DEFINE I == {i \in DOMAIN b : b[i].usage # NoUsage}
<1>1. I \in SUBSET Nat /\ \A i \in I : b[i] \in Chunk
  BY LenProperties, ElementOfSeq
<1>2. CASE I = {}
  BY <1>2 DEF FirstUsage
<1>3. CASE I # {}
  <2> DEFINE m == CHOOSE i \in I : \A j \in I : i <= j
  <2>1. m \in I
    BY <1>1, <1>3, LeastOf
  <2>2. b[m].usage \in Usages \cup {NoUsage}
    BY <1>1, <2>1 DEF Chunk
  <2>3. FirstUsage(b) = b[m].usage
    BY <1>3 DEF FirstUsage
  <2>4. QED
    BY <2>2, <2>3
<1>4. QED
  BY <1>2, <1>3

(* The bodies the handlers record are bodies. *)
LEMMA BodyTypes ==
  ASSUME NEW b \in Seq(Chunk)
  PROVE  /\ Reply(b) \in Body /\ Reconstruct(b) \in Body
         /\ ErrorBody \in Body /\ StreamingBody \in Body /\ NoBody \in Body
         /\ ExtractUsage(Reply(b)) = FirstUsage(b)
         /\ ExtractUsage(Reconstruct(b)) = FirstUsage(b)
<1>1. TextOf(b) \in Seq(Texts)
  <2>1. \A i \in 1 .. Len(b) : b[i].text \in Texts
    <3>1. \A i \in 1 .. Len(b) : b[i] \in Chunk
      BY ElementOfSeq
    <3>2. QED
      BY <3>1 DEF Chunk
  <2>2. TextOf(b) = [i \in 1 .. Len(b) |-> b[i].text] /\ Len(b) \in Nat
    BY LenProperties DEF TextOf
  <2>3. TextOf(b) \in [1 .. Len(b) -> Texts]
    BY <2>1, <2>2
  <2>4. QED
    BY <2>2, <2>3, SeqDef
<1>2. << >> \in Seq(Texts)
  BY EmptySeq
<1>3. QED
  BY <1>1, <1>2, FirstUsageType
     DEF Reply, Reconstruct, ErrorBody, StreamingBody, NoBody, Body, BodyKinds,
         ExtractUsage

Distinct(s) == \A i, j \in 1 .. Len(s) : s[i].id = s[j].id => i = j

(* An update touches the record it names, in place, and no other. *)
LEMMA UpdateResponseEffect ==
  ASSUME NEW s \in Seq(Record), Distinct(s), NEW id \in Requests,
         NEW body \in Body, NEW status \in Statuses, NEW label \in Labels,
         NEW t, t = UpdateResponse(s, id, body, status, label)
  PROVE  /\ t \in Seq(Record) /\ Len(t) = Len(s)
         /\ \A i \in 1 .. Len(s) :
              /\ t[i].id = s[i].id /\ t[i].tokens = s[i].tokens
              /\ s[i].id # id => t[i] = s[i]
              /\ s[i].id = id =>
                   t[i].status = status /\ t[i].label = label /\ t[i].body = body
<1>1. Len(s) \in Nat /\ DOMAIN s = 1 .. Len(s)
  BY LenProperties
<1>2. \A i \in 1 .. Len(s) : s[i] \in Record
  BY ElementOfSeq
<1>3. \A i \in 1 .. Len(s) : i \in Find(s, id) <=> s[i].id = id
  BY <1>1 DEF Find, Distinct
<1>4. \A i \in 1 .. Len(s) :
        t[i] = IF s[i].id = id
               THEN [s[i] EXCEPT !.body = body, !.status = status, !.label = label]
               ELSE s[i]
  BY <1>1, <1>3 DEF UpdateResponse
<1>5. \A i \in 1 .. Len(s) : t[i] \in Record
  BY <1>2, <1>4 DEF Record
<1>6. DOMAIN t = 1 .. Len(s) /\ t = [i \in 1 .. Len(s) |-> t[i]]
  BY <1>1 DEF UpdateResponse
<1>7. t \in Seq(Record) /\ Len(t) = Len(s)
  <2>1. t \in [1 .. Len(s) -> Record]
    BY <1>5, <1>6
  <2>2. t \in Seq(Record)
    BY <1>1, <2>1, SeqDef
  <2>3. QED
    BY <1>1, <1>6, <2>2, LenProperties
<1>8. QED
  BY <1>2, <1>4, <1>7 DEF Record

(* The same of the update of the tokens. *)
LEMMA UpdateTokensEffect ==
  ASSUME NEW s \in Seq(Record), Distinct(s), NEW id \in Requests,
         NEW usage \in Usages \cup {NoUsage},
         NEW t, t = UpdateTokens(s, id, usage)
  PROVE  /\ t \in Seq(Record) /\ Len(t) = Len(s)
         /\ \A i \in 1 .. Len(s) :
              /\ t[i].id = s[i].id /\ t[i].status = s[i].status
              /\ t[i].label = s[i].label /\ t[i].body = s[i].body
              /\ s[i].id # id => t[i] = s[i]
              /\ s[i].id = id => t[i].tokens = usage
<1>1. Len(s) \in Nat /\ DOMAIN s = 1 .. Len(s)
  BY LenProperties
<1>2. \A i \in 1 .. Len(s) : s[i] \in Record
  BY ElementOfSeq
<1>3. \A i \in 1 .. Len(s) : i \in Find(s, id) <=> s[i].id = id
  BY <1>1 DEF Find, Distinct
<1>4. \A i \in 1 .. Len(s) :
        t[i] = IF s[i].id = id THEN [s[i] EXCEPT !.tokens = usage] ELSE s[i]
  BY <1>1, <1>3 DEF UpdateTokens
<1>5. \A i \in 1 .. Len(s) : t[i] \in Record
  BY <1>2, <1>4 DEF Record
<1>6. DOMAIN t = 1 .. Len(s) /\ t = [i \in 1 .. Len(s) |-> t[i]]
  BY <1>1 DEF UpdateTokens
<1>7. t \in Seq(Record) /\ Len(t) = Len(s)
  <2>1. t \in [1 .. Len(s) -> Record]
    BY <1>5, <1>6
  <2>2. t \in Seq(Record)
    BY <1>1, <2>1, SeqDef
  <2>3. QED
    BY <1>1, <1>6, <2>2, LenProperties
<1>8. QED
  BY <1>2, <1>4, <1>7 DEF Record

(* A push appends, and drops the oldest record exactly when the log is     *)
(* full; the others keep their order, d places further on.                 *)
LEMMA PushEffect ==
  ASSUME NEW s \in Seq(Record), NEW rec \in Record, Len(s) <= Capacity
  PROVE  /\ Push(s, rec) \in Seq(Record)
         /\ \E d \in {0, 1} :
              /\ d = 0 <=> Len(s) < Capacity
              /\ Len(Push(s, rec)) = Len(s) + 1 - d
              /\ Push(s, rec)[Len(s) + 1 - d] = rec
              /\ \A i \in 1 .. Len(s) - d :
                   i + d \in 1 .. Len(s) /\ Push(s, rec)[i] = s[i + d]
<1> DEFINE t == Push(s, rec)
<1> HIDE DEF t
<1> USE MaxLenAssumption
<1>1. Len(s) \in Nat /\ (s = << >> <=> Len(s) = 0)
  BY LenProperties, EmptySeq
<1>2. CASE Len(s) >= MaxLen /\ s # << >>
  <2>1. /\ Tail(s) \in Seq(Record) /\ Len(Tail(s)) = Len(s) - 1
        /\ \A i \in 1 .. Len(Tail(s)) : Tail(s)[i] = s[i + 1]
    BY <1>2, HeadTailProperties
  <2>2. t = Append(Tail(s), rec)
    BY <1>2 DEF t, Push, PopFront
  <2>3. /\ t \in Seq(Record) /\ Len(t) = Len(s)
        /\ \A i \in 1 .. Len(s) - 1 : t[i] = Tail(s)[i]
        /\ t[Len(s)] = rec
    BY <1>1, <2>1, <2>2, AppendProperties
  <2>4. ~ (Len(s) < Capacity)
    BY <1>1, <1>2 DEF Capacity
  <2>5. \A i \in 1 .. Len(s) - 1 : i + 1 \in 1 .. Len(s) /\ t[i] = s[i + 1]
    BY <1>1, <2>1, <2>3
  <2>6. QED
    BY <1>1, <2>3, <2>4, <2>5 DEF t
<1>3. CASE Len(s) < MaxLen \/ s = << >>
  <2>1. t = Append(s, rec)
    BY <1>1, <1>3 DEF t, Push, PopFront
  <2>2. /\ t \in Seq(Record) /\ Len(t) = Len(s) + 1
        /\ \A i \in 1 .. Len(s) : t[i] = s[i]
        /\ t[Len(s) + 1] = rec
    BY <2>1, AppendProperties
  <2>3. Len(s) < Capacity
    BY <1>1, <1>3 DEF Capacity
  <2>4. QED
    BY <1>1, <2>2, <2>3 DEF t
<1>4. QED
  BY <1>1, <1>2, <1>3

----------------------------------------------------------------------------
(* What the invariant says of the log: one record for each request, whose  *)
(* handler is past the push.                                               *)
LEMMA StoreFacts ==
  ASSUME Inv
  PROVE  /\ store \in Seq(Record) /\ Len(store) \in Nat /\ Len(pushed) \in Nat
         /\ Len(store) <= Len(pushed) /\ Len(store) <= Capacity
         /\ Distinct(store)
         /\ \A i \in 1 .. Len(store) :
              /\ store[i] \in Record /\ store[i].id \in Requests
              /\ pc[store[i].id] \notin BeforePush
<1> USE MaxLenAssumption
<1>1. /\ store \in Seq(Record) /\ pushed \in Seq(Requests)
      /\ Len(store) \in Nat /\ Len(pushed) \in Nat
  BY LenProperties DEF Inv, TypeOK
<1>2. Len(store) <= Len(pushed) /\ Len(store) <= Capacity
  BY <1>1 DEF Inv, StoreIsWindow, Capacity
<1>3. \A i \in 1 .. Len(store) : store[i] \in Record
  BY <1>1, ElementOfSeq
<1>4. \A i \in 1 .. Len(store) :
        /\ Len(pushed) - Len(store) + i \in 1 .. Len(pushed)
        /\ store[i].id = pushed[Len(pushed) - Len(store) + i]
  BY <1>1, <1>2 DEF Inv, StoreIsWindow
<1>5. Distinct(store)
  <2> SUFFICES ASSUME NEW i \in 1 .. Len(store), NEW j \in 1 .. Len(store),
                      store[i].id = store[j].id
               PROVE  i = j
    BY DEF Distinct
  <2>1. Len(pushed) - Len(store) + i = Len(pushed) - Len(store) + j
    BY <1>4 DEF Inv, PushedOnce
  <2>2. QED
    BY <1>1, <2>1
<1>6. \A i \in 1 .. Len(store) : pc[store[i].id] \notin BeforePush
  BY <1>4 DEF Inv, PushedOnce
<1>7. \A i \in 1 .. Len(store) : store[i].id \in Requests
  BY <1>3 DEF Record
<1>8. QED
  BY <1>1, <1>2, <1>3, <1>5, <1>6, <1>7

(* A step of the handler of r which pushes nothing and writes at most the  *)
(* record of r keeps the invariant if it keeps what it says of r.          *)
LEMMA OwnStep ==
  ASSUME Inv, TypeOK', NEW r \in Requests,
         Len(store') = Len(store),
         \A i \in 1 .. Len(store) :
           /\ store'[i].id = store[i].id
           /\ store[i].id # r => store'[i] = store[i],
         pushed' = pushed,
         \A q \in Requests \ {r} :
           /\ pc'[q] = pc[q] /\ mode'[q] = mode[q] /\ buf'[q] = buf[q]
           /\ failed'[q] = failed[q] /\ client'[q] = client[q],
         pc'[r] \in BeforePush => pc[r] \in BeforePush,
         HandlerAt(r)',
         \A i \in 1 .. Len(store) : store[i].id = r => RecordAt(store[i], r)',
         unannounced' \subseteq unannounced \cup {r},
         r \in unannounced' => pc'[r] \in {"tokens", "streamTokens", "dropped"}
  PROVE  Inv'
<1>1. StoreIsWindow'
  BY DEF Inv, StoreIsWindow
<1>2. PushedOnce'
  <2>1. \A i \in 1 .. Len(pushed) : pushed[i] \in Requests
    BY ElementOfSeq DEF Inv, TypeOK
  <2>2. QED
    BY <2>1 DEF Inv, PushedOnce
<1>3. \A q \in Requests : HandlerAt(q)'
  <2> SUFFICES ASSUME NEW q \in Requests, q # r PROVE HandlerAt(q)'
    OBVIOUS
  <2>1. HandlerAt(q)
    BY DEF Inv
  <2>2. QED
    BY <2>1 DEF HandlerAt
<1>4. \A i \in 1 .. Len(store) : RecordAt(store[i], store[i].id)'
  <2> SUFFICES ASSUME NEW i \in 1 .. Len(store)
               PROVE  RecordAt(store[i], store[i].id)'
    OBVIOUS
  <2>1. CASE store[i].id = r
    <3>1. RecordAt(store[i], r)' /\ store'[i].id = r
      BY <2>1
    <3>2. QED
      BY <3>1 DEF RecordAt, Tells, Streaming
  <2>2. CASE store[i].id # r
    <3>1. store'[i] = store[i] /\ store[i].id \in Requests \ {r}
      BY <2>2, StoreFacts
    <3>2. RecordAt(store[i], store[i].id)
      BY DEF Inv
    <3>3. QED
      BY <3>1, <3>2 DEF RecordAt, Tells, Streaming
  <2>3. QED
    BY <2>1, <2>2
<1>5. DoneIsAnnounced'
  BY DEF Inv, TypeOK, DoneIsAnnounced
<1>6. QED
  BY <1>1, <1>2, <1>3, <1>4, <1>5 DEF Inv

----------------------------------------------------------------------------
(* Each action preserves the invariant. *)

(* The program starts in it. *)
LEMMA InitInv == Init => Inv
<1> SUFFICES ASSUME Init PROVE Inv
  OBVIOUS
<1> USE DEF Init
<1>1. TypeOK
  <2>1. /\ store \in Seq(Record) /\ pushed \in Seq(Requests)
        /\ << >> \in Seq(Chunk)
    BY EmptySeq
  <2>2. Nothing \in View
    BY <2>1 DEF Nothing, View, Statuses, Ends
  <2>3. QED
    BY <2>1, <2>2 DEF TypeOK, Places, Modes
<1>2. Len(store) = 0 /\ Len(pushed) = 0
  BY EmptySeq
<1>3. StoreIsWindow
  BY <1>2, MaxLenAssumption DEF StoreIsWindow, Capacity
<1>4. QED
  BY <1>1, <1>2, <1>3
     DEF Inv, PushedOnce, HandlerAt, BeforePush, DoneIsAnnounced

(* The steps before the push touch neither the log nor a reply. *)
LEMMA EarlySteps ==
  ASSUME Inv, NEW r \in Requests,
         \/ \E m \in Modes : Arrive(r, m)
         \/ ReadBody(r) \/ Refuse(r) \/ Resolve(r) \/ OverridePanics(r)
  PROVE  Inv'
<1> USE DEF Goto, Respond
<1>1. TypeOK
  BY DEF Inv
<1>2. /\ pc[r] \in BeforePush /\ pc'[r] \in Places
      /\ pc'[r] \in BeforePush \cup {"done", "dropped"}
      /\ pc' = [pc EXCEPT ![r] = pc'[r]]
      /\ buf' = buf /\ store' = store /\ pushed' = pushed /\ failed' = failed
      /\ unannounced' = unannounced
      /\ \A q \in Requests \ {r} : pc'[q] = pc[q]
  BY <1>1 DEF TypeOK, Arrive, ReadBody, Refuse, Resolve, OverridePanics, BeforePush,
                Places
<1>3. /\ mode' \in [Requests -> Modes]
      /\ \A q \in Requests \ {r} : mode'[q] = mode[q]
  BY <1>1 DEF TypeOK, Arrive, ReadBody, Refuse, Resolve, OverridePanics
<1>4. /\ client' \in [Requests -> View]
      /\ \A q \in Requests \ {r} : client'[q] = client[q]
  <2>1. << >> \in Seq(Chunk)
    BY EmptySeq
  <2>2. \A s \in RefusalStatuses :
          [status |-> s, got |-> << >>, end |-> "complete"] \in View
    BY <2>1 DEF View, Statuses, Ends
  <2>3. CASE client' = client
    BY <1>1, <2>3 DEF TypeOK
  <2>4. CASE Refuse(r)
    <3>1. PICK s \in RefusalStatuses : Respond(r, s, << >>, "complete")
      BY <2>4 DEF Refuse, RefusalStatuses
    <3>2. QED
      BY <1>1, <2>2, <3>1 DEF TypeOK
  <2>5. CASE OverridePanics(r)
    <3>1. client' = [client EXCEPT ![r].end = "aborted"]
      BY <2>5 DEF OverridePanics
    <3>2. QED
      BY <1>1, <3>1 DEF TypeOK, View, Ends
  <2>6. QED
    BY <2>3, <2>4, <2>5 DEF Arrive, ReadBody, Resolve
<1>5. TypeOK'
  BY <1>1, <1>2, <1>3, <1>4 DEF TypeOK
<1>6. HandlerAt(r)'
  <2>1. HandlerAt(r)
    BY DEF Inv
  <2>2. QED
    BY <1>2, <2>1 DEF HandlerAt, BeforePush
<1>7. \A i \in 1 .. Len(store) : store[i].id # r
  BY <1>2, StoreFacts
<1>8. r \notin unannounced'
  BY <1>2 DEF Inv, DoneIsAnnounced, BeforePush
<1>9. QED
  BY <1>2, <1>3, <1>4, <1>5, <1>6, <1>7, <1>8, OwnStep

(* A push shifts the window by one. *)
LEMMA PushStep ==
  ASSUME Inv, NEW r \in Requests, PushRecord(r)
  PROVE  Inv'
<1>1. /\ pc[r] = "pushing" /\ pc' = [pc EXCEPT ![r] = "upstream"]
      /\ store' = Push(store, NewRecord(r)) /\ pushed' = Append(pushed, r)
      /\ mode' = mode /\ buf' = buf /\ failed' = failed /\ client' = client
      /\ unannounced' = unannounced
  BY DEF PushRecord, Goto
<1>2. NewRecord(r) \in Record
  <2>1. NoBody \in Body
    BY EmptySeq, BodyTypes
  <2>2. QED
    BY <2>1 DEF NewRecord, Record, Statuses, Labels
<1>3. store' \in Seq(Record) /\ Len(store') \in Nat
  BY <1>1, <1>2, StoreFacts, PushEffect, LenProperties
<1>4. PICK d \in {0, 1} :
        /\ d = 0 <=> Len(store) < Capacity
        /\ Len(store') = Len(store) + 1 - d
        /\ store'[Len(store) + 1 - d] = NewRecord(r)
        /\ \A i \in 1 .. Len(store) - d :
             i + d \in 1 .. Len(store) /\ store'[i] = store[i + d]
  BY <1>1, <1>2, StoreFacts, PushEffect
<1>5. /\ TypeOK /\ pushed' \in Seq(Requests)
      /\ Len(pushed') = Len(pushed) + 1 /\ pushed'[Len(pushed) + 1] = r
      /\ \A i \in 1 .. Len(pushed) : pushed'[i] = pushed[i]
  BY <1>1, AppendProperties DEF Inv, TypeOK
<1>6. /\ pc' \in [Requests -> Places] /\ pc'[r] = "upstream"
      /\ \A q \in Requests \ {r} : pc'[q] = pc[q]
  BY <1>1, <1>5 DEF TypeOK, Places
<1>7. TypeOK'
  BY <1>1, <1>3, <1>5, <1>6 DEF TypeOK
<1>8. \A i \in 1 .. Len(store') :
        \/ i = Len(store) + 1 - d /\ store'[i] = NewRecord(r)
        \/ /\ i \in 1 .. Len(store) - d /\ i + d \in 1 .. Len(store)
           /\ store'[i] = store[i + d]
  <2> SUFFICES ASSUME NEW i \in 1 .. Len(store'), i # Len(store) + 1 - d
               PROVE  i \in 1 .. Len(store) - d
    BY <1>4
  <2>1. QED
    BY <1>4, StoreFacts
<1>9. StoreIsWindow'
  <2>1. Len(store') = IF Len(pushed') < Capacity THEN Len(pushed') ELSE Capacity
    <3>1. Len(store) = IF Len(pushed) < Capacity THEN Len(pushed) ELSE Capacity
      BY DEF Inv, StoreIsWindow
    <3>2. Capacity \in Nat \ {0}
      BY MaxLenAssumption DEF Capacity
    <3>3. QED
      BY <1>4, <1>5, <3>1, <3>2, StoreFacts
  <2>2. ASSUME NEW i \in 1 .. Len(store')
        PROVE  store'[i].id = pushed'[Len(pushed') - Len(store') + i]
    <3>1. Len(pushed') - Len(store') + i = Len(pushed) - Len(store) + d + i
      BY <1>4, <1>5, StoreFacts
    <3>2. CASE i = Len(store) + 1 - d /\ store'[i] = NewRecord(r)
      <4>1. Len(pushed') - Len(store') + i = Len(pushed) + 1
        BY <3>1, <3>2, StoreFacts
      <4>2. QED
        BY <1>5, <3>2, <4>1 DEF NewRecord
    <3>3. CASE i + d \in 1 .. Len(store) /\ store'[i] = store[i + d]
      <4>1. store[i + d].id = pushed[Len(pushed) - Len(store) + (i + d)]
        BY <3>3 DEF Inv, StoreIsWindow
      <4>2. /\ Len(pushed) - Len(store) + (i + d) \in 1 .. Len(pushed)
            /\ Len(pushed) - Len(store) + (i + d) = Len(pushed') - Len(store') + i
        BY <3>1, <3>3, StoreFacts
      <4>3. QED
        BY <1>5, <3>3, <4>1, <4>2
    <3>4. QED
      BY <1>8, <3>2, <3>3
  <2>3. QED
    BY <2>1, <2>2 DEF StoreIsWindow
<1>10. PushedOnce'
  <2>1. \A i \in 1 .. Len(pushed) : pushed[i] \in Requests \ {r}
    <3>1. \A i \in 1 .. Len(pushed) : pushed[i] \in Requests
      BY <1>5, ElementOfSeq DEF TypeOK
    <3>2. QED
      BY <1>1, <3>1 DEF Inv, PushedOnce, BeforePush
  <2>2. \A i \in 1 .. Len(pushed') :
          \/ i = Len(pushed) + 1 /\ pushed'[i] = r
          \/ i \in 1 .. Len(pushed) /\ pushed'[i] = pushed[i]
    BY <1>5, StoreFacts
  <2>3. \A i \in 1 .. Len(pushed') : pc'[pushed'[i]] \notin BeforePush
    BY <1>6, <2>1, <2>2 DEF Inv, PushedOnce, BeforePush
  <2>4. \A i, j \in 1 .. Len(pushed') : pushed'[i] = pushed'[j] => i = j
    BY <2>1, <2>2 DEF Inv, PushedOnce
  <2>5. QED
    BY <2>3, <2>4 DEF PushedOnce
<1>11. \A q \in Requests : HandlerAt(q)'
  BY <1>1, <1>6 DEF Inv, HandlerAt, BeforePush
<1>12. \A i \in 1 .. Len(store') : RecordAt(store[i], store[i].id)'
  <2> SUFFICES ASSUME NEW i \in 1 .. Len(store')
               PROVE  RecordAt(store[i], store[i].id)'
    OBVIOUS
  <2>1. CASE store'[i] = NewRecord(r)
    BY <1>6, <2>1 DEF NewRecord, RecordAt, Streaming
  <2>2. CASE i + d \in 1 .. Len(store) /\ store'[i] = store[i + d]
    <3>1. /\ store[i + d].id \in Requests \ {r}
          /\ RecordAt(store[i + d], store[i + d].id)
      BY <1>1, <2>2, StoreFacts DEF Inv, BeforePush
    <3>2. QED
      BY <1>1, <1>6, <2>2, <3>1 DEF RecordAt, Tells, Streaming
  <2>3. QED
    BY <1>8, <2>1, <2>2
<1>13. DoneIsAnnounced'
  BY <1>1, <1>5, <1>6 DEF Inv, DoneIsAnnounced, TypeOK
<1>14. QED
  BY <1>7, <1>9, <1>10, <1>11, <1>12, <1>13 DEF Inv

(* The two updates of the log, as steps of the handler of r. *)
LEMMA UpdateStep ==
  ASSUME Inv, NEW r \in Requests, NEW body \in Body, NEW status \in Statuses,
         NEW label \in Labels, Update(r, body, status, label)
  PROVE  /\ store' \in Seq(Record) /\ Len(store') = Len(store)
         /\ \A i \in 1 .. Len(store) :
              /\ store'[i].id = store[i].id /\ store'[i].tokens = store[i].tokens
              /\ store[i].id # r => store'[i] = store[i]
              /\ store[i].id = r =>
                   /\ store'[i].status = status /\ store'[i].label = label
                   /\ store'[i].body = body
                   /\ RecordAt(store[i], r)
<1>1. \A i \in 1 .. Len(store) : store[i].id = r => RecordAt(store[i], r)
  BY DEF Inv
<1>2. QED
  BY <1>1, StoreFacts, UpdateResponseEffect DEF Update

(* The same for the update of the tokens. *)
LEMMA TokensStep ==
  ASSUME Inv, NEW r \in Requests, NEW usage \in Usages \cup {NoUsage},
         store' = UpdateTokens(store, r, usage)
  PROVE  /\ store' \in Seq(Record) /\ Len(store') = Len(store)
         /\ \A i \in 1 .. Len(store) :
              /\ store'[i].id = store[i].id /\ store'[i].status = store[i].status
              /\ store'[i].label = store[i].label /\ store'[i].body = store[i].body
              /\ store[i].id # r => store'[i] = store[i]
              /\ store[i].id = r =>
                   store'[i].tokens = usage /\ RecordAt(store[i], r)
<1>1. \A i \in 1 .. Len(store) : store[i].id = r => RecordAt(store[i], r)
  BY DEF Inv
<1>2. QED
  BY <1>1, StoreFacts, UpdateTokensEffect

(* Each of the lemmas below first expands its action, then checks what     *)
(* OwnStep asks of r.  Here, a plain reply.                                *)
LEMMA AnswerPlainStep ==
  ASSUME Inv, NEW r \in Requests, NEW c \in Chunk, AnswerPlain(r, c)
  PROVE  Inv'
<1>1. TypeOK /\ HandlerAt(r)
  BY DEF Inv
<1>2. /\ mode[r] = "plain" /\ pc[r] = "upstream"
      /\ pc' = [pc EXCEPT ![r] = "tokens"] /\ buf' = [buf EXCEPT ![r] = <<c>>]
      /\ Update(r, Reply(<<c>>), 200, "none")
      /\ unannounced' = unannounced \cup {r}
      /\ mode' = mode /\ failed' = failed /\ client' = client /\ pushed' = pushed
  BY DEF AnswerPlain, Goto
<1>3. <<c>> \in Seq(Chunk)
  OBVIOUS
<1>4. Reply(<<c>>) \in Body /\ 200 \in Statuses /\ "none" \in Labels
  BY <1>3, BodyTypes DEF Statuses, Labels
<1>5. /\ store' \in Seq(Record) /\ Len(store') = Len(store)
      /\ \A i \in 1 .. Len(store) :
           /\ store'[i].id = store[i].id
           /\ store[i].id # r => store'[i] = store[i]
  BY <1>2, <1>4, UpdateStep
<1>6. /\ pc'[r] = "tokens" /\ buf'[r] = <<c>>
      /\ pc' \in [Requests -> Places] /\ buf' \in [Requests -> Seq(Chunk)]
      /\ \A q \in Requests \ {r} : pc'[q] = pc[q] /\ buf'[q] = buf[q]
  BY <1>1, <1>2, <1>3 DEF TypeOK, Places
<1>7. TypeOK'
  BY <1>1, <1>2, <1>5, <1>6 DEF TypeOK
<1>8. HandlerAt(r)'
  BY <1>1, <1>2, <1>6 DEF HandlerAt, BeforePush
<1>9. \A i \in 1 .. Len(store) : store[i].id = r => RecordAt(store[i], r)'
  <2> SUFFICES ASSUME NEW i \in 1 .. Len(store), store[i].id = r
               PROVE  RecordAt(store[i], r)'
    OBVIOUS
  <2>1. /\ store'[i].status = 200 /\ store'[i].label = "none"
        /\ store'[i].body = Reply(<<c>>) /\ store'[i].tokens = store[i].tokens
        /\ RecordAt(store[i], r)
    BY <1>2, <1>4, UpdateStep
  <2>2. store[i].tokens = NoUsage
    BY <1>2, <2>1 DEF RecordAt
  <2>3. Reply(<<c>>) = Reply(buf[r])'
    BY <1>6 DEF Reply, TextOf, FirstUsage
  <2>4. QED
    BY <1>6, <2>1, <2>2, <2>3 DEF RecordAt, Streaming
<1>10. pc'[r] \notin BeforePush
  BY <1>6 DEF BeforePush
<1>11. QED
  BY <1>2, <1>5, <1>6, <1>7, <1>8, <1>9, <1>10, OwnStep

(* The tokens of a plain reply, and its answer. *)
LEMMA RecordTokensStep ==
  ASSUME Inv, NEW r \in Requests, RecordTokens(r)
  PROVE  Inv'
<1>1. TypeOK /\ HandlerAt(r) /\ buf[r] \in Seq(Chunk)
  BY DEF Inv, TypeOK
<1>2. /\ pc[r] = "tokens" /\ pc' = [pc EXCEPT ![r] = "done"]
      /\ store' = UpdateTokens(store, r, FirstUsage(buf[r]))
      /\ unannounced' = unannounced \ {r}
      /\ client' = [client EXCEPT ![r] =
                      [status |-> 200, got |-> buf[r], end |-> "complete"]]
      /\ mode' = mode /\ buf' = buf /\ failed' = failed /\ pushed' = pushed
  BY <1>1, BodyTypes DEF RecordTokens, Goto, Respond
<1>3. FirstUsage(buf[r]) \in Usages \cup {NoUsage}
  BY <1>1, FirstUsageType
<1>4. [status |-> 200, got |-> buf[r], end |-> "complete"] \in View
  BY <1>1 DEF View, Statuses, Ends
<1>5. /\ store' \in Seq(Record) /\ Len(store') = Len(store)
      /\ \A i \in 1 .. Len(store) :
           /\ store'[i].id = store[i].id
           /\ store[i].id # r => store'[i] = store[i]
  BY <1>2, <1>3, TokensStep
<1>6. /\ pc'[r] = "done" /\ mode[r] = "plain"
      /\ client'[r] = [status |-> 200, got |-> buf[r], end |-> "complete"]
      /\ pc' \in [Requests -> Places] /\ client' \in [Requests -> View]
      /\ \A q \in Requests \ {r} : pc'[q] = pc[q] /\ client'[q] = client[q]
  BY <1>1, <1>2, <1>4 DEF TypeOK, Places, HandlerAt
<1>7. TypeOK'
  BY <1>1, <1>2, <1>5, <1>6 DEF TypeOK
<1>8. HandlerAt(r)'
  BY <1>1, <1>2, <1>6 DEF HandlerAt, BeforePush
<1>9. \A i \in 1 .. Len(store) : store[i].id = r => RecordAt(store[i], r)'
  BY <1>2, <1>3, <1>6, TokensStep DEF RecordAt, Streaming, Tells
<1>10. pc'[r] \notin BeforePush
  BY <1>6 DEF BeforePush
<1>11. QED
  BY <1>2, <1>5, <1>6, <1>7, <1>8, <1>9, <1>10, OwnStep

(* A list of models. *)
LEMMA AnswerModelsStep ==
  ASSUME Inv, NEW r \in Requests, NEW c \in Chunk, AnswerModels(r, c)
  PROVE  Inv'
<1>1. TypeOK /\ HandlerAt(r)
  BY DEF Inv
<1>2. /\ mode[r] = "models" /\ pc[r] = "upstream"
      /\ pc' = [pc EXCEPT ![r] = "done"] /\ buf' = [buf EXCEPT ![r] = <<c>>]
      /\ Update(r, Reply(<<c>>), 200, "none")
      /\ client' = [client EXCEPT ![r] =
                      [status |-> 200, got |-> <<c>>, end |-> "complete"]]
      /\ mode' = mode /\ failed' = failed /\ pushed' = pushed
      /\ unannounced' = unannounced
  BY DEF AnswerModels, Goto, Respond
<1>3. <<c>> \in Seq(Chunk)
  OBVIOUS
<1>4. /\ Reply(<<c>>) \in Body /\ 200 \in Statuses /\ "none" \in Labels
      /\ [status |-> 200, got |-> <<c>>, end |-> "complete"] \in View
  BY <1>3, BodyTypes DEF Statuses, Labels, View, Ends
<1>5. /\ store' \in Seq(Record) /\ Len(store') = Len(store)
      /\ \A i \in 1 .. Len(store) :
           /\ store'[i].id = store[i].id
           /\ store[i].id # r => store'[i] = store[i]
  BY <1>2, <1>4, UpdateStep
<1>6. /\ pc'[r] = "done" /\ buf'[r] = <<c>>
      /\ client'[r] = [status |-> 200, got |-> <<c>>, end |-> "complete"]
      /\ pc' \in [Requests -> Places] /\ buf' \in [Requests -> Seq(Chunk)]
      /\ client' \in [Requests -> View]
      /\ \A q \in Requests \ {r} :
           pc'[q] = pc[q] /\ buf'[q] = buf[q] /\ client'[q] = client[q]
  BY <1>1, <1>2, <1>3, <1>4 DEF TypeOK, Places
<1>7. TypeOK'
  BY <1>1, <1>2, <1>5, <1>6 DEF TypeOK
<1>8. HandlerAt(r)'
  BY <1>1, <1>2, <1>6 DEF HandlerAt, BeforePush
<1>9. \A i \in 1 .. Len(store) : store[i].id = r => RecordAt(store[i], r)'
  BY <1>2, <1>4, <1>6, UpdateStep DEF RecordAt, Streaming, Tells
<1>10. pc'[r] \notin BeforePush /\ r \notin unannounced
  BY <1>2, <1>6 DEF BeforePush, Inv, DoneIsAnnounced
<1>11. QED
  BY <1>2, <1>5, <1>6, <1>7, <1>8, <1>9, <1>10, OwnStep

(* An error of the upstream before any of the reply. *)
LEMMA AnswerErrorStep ==
  ASSUME Inv, NEW r \in Requests, NEW s \in ErrorStatuses, AnswerError(r, s)
  PROVE  Inv'
<1>1. TypeOK /\ HandlerAt(r)
  BY DEF Inv
<1>2. /\ pc[r] = "upstream" /\ pc' = [pc EXCEPT ![r] = "done"]
      /\ Update(r, ErrorBody, s, "none")
      /\ client' = [client EXCEPT ![r] =
                      [status |-> s, got |-> << >>, end |-> "complete"]]
      /\ mode' = mode /\ buf' = buf /\ failed' = failed /\ pushed' = pushed
      /\ unannounced' = unannounced
  BY DEF AnswerError, Goto, Respond
<1>3. << >> \in Seq(Chunk) /\ s \in Statuses /\ s # 200
  BY EmptySeq, ChatAssumption DEF Statuses, ErrorStatuses, IoStatuses
<1>4. /\ ErrorBody \in Body /\ "none" \in Labels
      /\ [status |-> s, got |-> << >>, end |-> "complete"] \in View
  BY <1>3, BodyTypes DEF Labels, View, Ends
<1>5. /\ store' \in Seq(Record) /\ Len(store') = Len(store)
      /\ \A i \in 1 .. Len(store) :
           /\ store'[i].id = store[i].id
           /\ store[i].id # r => store'[i] = store[i]
  BY <1>2, <1>3, <1>4, UpdateStep
<1>6. /\ pc'[r] = "done"
      /\ client'[r] = [status |-> s, got |-> << >>, end |-> "complete"]
      /\ pc' \in [Requests -> Places] /\ client' \in [Requests -> View]
      /\ \A q \in Requests \ {r} : pc'[q] = pc[q] /\ client'[q] = client[q]
  BY <1>1, <1>2, <1>4 DEF TypeOK, Places
<1>7. TypeOK'
  BY <1>1, <1>2, <1>5, <1>6 DEF TypeOK
<1>8. HandlerAt(r)'
  BY <1>1, <1>2, <1>6 DEF HandlerAt, BeforePush
<1>9. \A i \in 1 .. Len(store) : store[i].id = r => RecordAt(store[i], r)'
  BY <1>2, <1>3, <1>4, <1>6, UpdateStep DEF RecordAt, Streaming, Tells
<1>10. pc'[r] \notin BeforePush /\ r \notin unannounced
  BY <1>2, <1>6 DEF BeforePush, Inv, DoneIsAnnounced
<1>11. QED
  BY <1>2, <1>5, <1>6, <1>7, <1>8, <1>9, <1>10, OwnStep

(* The start of a stream. *)
LEMMA AnswerStreamStep ==
  ASSUME Inv, NEW r \in Requests, AnswerStream(r)
  PROVE  Inv'
<1>1. TypeOK /\ HandlerAt(r)
  BY DEF Inv
<1>2. /\ mode[r] = "stream" /\ pc[r] = "upstream"
      /\ pc' = [pc EXCEPT ![r] = "streaming"]
      /\ Update(r, StreamingBody, 200, "streaming")
      /\ client' = [client EXCEPT ![r] =
                      [status |-> 200, got |-> << >>, end |-> "waiting"]]
      /\ mode' = mode /\ buf' = buf /\ failed' = failed /\ pushed' = pushed
      /\ unannounced' = unannounced
  BY DEF AnswerStream, Goto, Respond
<1>3. << >> \in Seq(Chunk)
  BY EmptySeq
<1>4. /\ StreamingBody \in Body /\ 200 \in Statuses /\ "streaming" \in Labels
      /\ [status |-> 200, got |-> << >>, end |-> "waiting"] \in View
  BY <1>3, BodyTypes DEF Statuses, Labels, View, Ends
<1>5. /\ store' \in Seq(Record) /\ Len(store') = Len(store)
      /\ \A i \in 1 .. Len(store) :
           /\ store'[i].id = store[i].id
           /\ store[i].id # r => store'[i] = store[i]
  BY <1>2, <1>4, UpdateStep
<1>6. /\ pc'[r] = "streaming" /\ buf[r] = << >>
      /\ client'[r] = [status |-> 200, got |-> << >>, end |-> "waiting"]
      /\ pc' \in [Requests -> Places] /\ client' \in [Requests -> View]
      /\ \A q \in Requests \ {r} : pc'[q] = pc[q] /\ client'[q] = client[q]
  BY <1>1, <1>2, <1>4 DEF TypeOK, Places, HandlerAt
<1>7. TypeOK'
  BY <1>1, <1>2, <1>5, <1>6 DEF TypeOK
<1>8. HandlerAt(r)'
  BY <1>1, <1>2, <1>6 DEF HandlerAt, BeforePush
<1>9. \A i \in 1 .. Len(store) : store[i].id = r => RecordAt(store[i], r)'
  BY <1>1, <1>2, <1>4, <1>6, UpdateStep DEF RecordAt, Streaming, HandlerAt
<1>10. pc'[r] \notin BeforePush /\ r \notin unannounced
  BY <1>2, <1>6 DEF BeforePush, Inv, DoneIsAnnounced
<1>11. QED
  BY <1>2, <1>5, <1>6, <1>7, <1>8, <1>9, <1>10, OwnStep

Received(w, b) == [w EXCEPT !.got = b]

(* A client that has received more is still a client. *)
LEMMA ReceivedView ==
  ASSUME NEW w \in View, NEW b \in Seq(Chunk)
  PROVE  /\ Received(w, b) \in View /\ Received(w, b).got = b
         /\ Received(w, b).status = w.status
<1>1. QED
  BY DEF View, Received

(* A chunk of a stream, kept and passed on. *)
LEMMA StreamChunkStep ==
  ASSUME Inv, NEW r \in Requests, NEW c \in Chunk, StreamChunk(r, c)
  PROVE  Inv'
<1>1. TypeOK /\ HandlerAt(r) /\ buf[r] \in Seq(Chunk) /\ client[r] \in View
  BY DEF Inv, TypeOK
<1>2. /\ pc[r] = "streaming" /\ ~ failed[r]
      /\ buf' = [buf EXCEPT ![r] = Append(buf[r], c)]
      /\ client' = [client EXCEPT ![r].got = Append(client[r].got, c)]
      /\ store' = store /\ pc' = pc /\ mode' = mode /\ failed' = failed
      /\ pushed' = pushed /\ unannounced' = unannounced
  BY <1>1 DEF StreamChunk, Streaming, TypeOK
<1>3. /\ client[r].got = buf[r] /\ client[r].status = 200 /\ mode[r] = "stream"
      /\ Append(buf[r], c) \in Seq(Chunk)
  BY <1>1, <1>2, AppendProperties DEF HandlerAt
<1>4. /\ buf'[r] = Append(buf[r], c)
      /\ client'[r].got = Append(buf[r], c) /\ client'[r].status = 200
      /\ client'[r] \in View
  <2>1. /\ buf'[r] = Append(buf[r], c)
        /\ client'[r] = Received(client[r], Append(client[r].got, c))
    BY <1>1, <1>2 DEF TypeOK, Received
  <2>2. PICK b \in Seq(Chunk) : b = Append(buf[r], c)
    BY <1>3
  <2>3. client'[r] = Received(client[r], b) /\ client[r] \in View
    BY <1>1, <1>3, <2>1, <2>2
  <2>4. /\ client'[r] \in View /\ client'[r].got = b
        /\ client'[r].status = client[r].status
    BY <2>3, ReceivedView
  <2>5. QED
    BY <1>3, <2>1, <2>2, <2>4
<1>5. /\ buf' \in [Requests -> Seq(Chunk)] /\ client' \in [Requests -> View]
      /\ \A q \in Requests \ {r} : buf'[q] = buf[q] /\ client'[q] = client[q]
  BY <1>1, <1>2, <1>3, <1>4 DEF TypeOK
<1>6. TypeOK'
  BY <1>1, <1>2, <1>5 DEF TypeOK
<1>7. HandlerAt(r)'
  BY <1>2, <1>3, <1>4 DEF HandlerAt, BeforePush
<1>8. \A i \in 1 .. Len(store) : store[i].id = r => RecordAt(store[i], r)'
  <2>1. \A i \in 1 .. Len(store) : store[i].id = r => RecordAt(store[i], r)
    BY DEF Inv
  <2>2. QED
    BY <1>2, <2>1 DEF RecordAt, Streaming
<1>9. r \notin unannounced
  BY <1>2 DEF Inv, DoneIsAnnounced
<1>10. QED
  BY <1>2, <1>5, <1>6, <1>7, <1>8, <1>9, OwnStep

(* A stream that breaks. *)
LEMMA StreamFailStep ==
  ASSUME Inv, NEW r \in Requests, NEW s \in IoStatuses, StreamFail(r, s)
  PROVE  Inv'
<1>1. TypeOK /\ HandlerAt(r) /\ client[r] \in View
  BY DEF Inv, TypeOK
<1>2. /\ pc[r] = "streaming" /\ ~ failed[r]
      /\ Update(r, ErrorBody, s, "none")
      /\ failed' = [failed EXCEPT ![r] = TRUE]
      /\ client' = [client EXCEPT ![r].end = "aborted"]
      /\ pc' = pc /\ mode' = mode /\ buf' = buf /\ pushed' = pushed
      /\ unannounced' = unannounced
  BY DEF StreamFail, Streaming
<1>3. s \in Statuses /\ "none" \in Labels /\ ErrorBody \in Body
  <2>1. << >> \in Seq(Chunk)
    BY EmptySeq
  <2>2. QED
    BY <2>1, BodyTypes DEF Statuses, ErrorStatuses, Labels
<1>4. /\ store' \in Seq(Record) /\ Len(store') = Len(store)
      /\ \A i \in 1 .. Len(store) :
           /\ store'[i].id = store[i].id
           /\ store[i].id # r => store'[i] = store[i]
  BY <1>2, <1>3, UpdateStep
<1>5. /\ failed'[r] = TRUE /\ failed' \in [Requests -> BOOLEAN]
      /\ \A q \in Requests \ {r} : failed'[q] = failed[q]
  BY <1>1, <1>2 DEF TypeOK
<1>6. /\ client'[r].got = client[r].got /\ client'[r].status = client[r].status
      /\ client'[r].end = "aborted" /\ client'[r] \in View
  BY <1>1, <1>2 DEF TypeOK, View, Ends
<1>7. /\ client' \in [Requests -> View]
      /\ \A q \in Requests \ {r} : client'[q] = client[q]
  BY <1>1, <1>2, <1>6 DEF TypeOK
<1>8. TypeOK'
  BY <1>1, <1>2, <1>4, <1>5, <1>7 DEF TypeOK
<1>9. HandlerAt(r)'
  BY <1>1, <1>2, <1>6 DEF HandlerAt, BeforePush
<1>10. \A i \in 1 .. Len(store) : store[i].id = r => RecordAt(store[i], r)'
  BY <1>2, <1>3, <1>5, UpdateStep DEF RecordAt, Streaming
<1>11. r \notin unannounced
  BY <1>2 DEF Inv, DoneIsAnnounced
<1>12. QED
  BY <1>2, <1>4, <1>5, <1>7, <1>8, <1>9, <1>10, <1>11, OwnStep

(* The poll after a broken stream. *)
LEMMA StreamAfterFailStep ==
  ASSUME Inv, NEW r \in Requests, StreamAfterFail(r)
  PROVE  Inv'
<1>1. TypeOK /\ HandlerAt(r)
  BY DEF Inv
<1>2. /\ pc[r] = "streaming" /\ failed[r]
      /\ pc' = [pc EXCEPT ![r] = "done"] /\ store' = store /\ mode' = mode
      /\ buf' = buf /\ failed' = failed /\ client' = client
      /\ pushed' = pushed /\ unannounced' = unannounced
  BY DEF StreamAfterFail, Goto
<1>3. /\ pc' \in [Requests -> Places] /\ pc'[r] = "done"
      /\ \A q \in Requests \ {r} : pc'[q] = pc[q]
  BY <1>1, <1>2 DEF TypeOK, Places
<1>4. TypeOK'
  BY <1>1, <1>2, <1>3 DEF TypeOK
<1>5. HandlerAt(r)'
  BY <1>3 DEF HandlerAt, BeforePush
<1>6. mode[r] = "stream" /\ client[r].status = 200 /\ client[r].end = "aborted"
  BY <1>1, <1>2 DEF HandlerAt
<1>7. \A i \in 1 .. Len(store) : store[i].id = r => RecordAt(store[i], r)'
  <2>1. \A i \in 1 .. Len(store) : store[i].id = r => RecordAt(store[i], r)
    BY DEF Inv
  <2>2. QED
    BY <1>2, <1>3, <1>6, <2>1 DEF RecordAt, Streaming, Tells
<1>8. r \notin unannounced /\ pc'[r] \notin BeforePush
  BY <1>2, <1>3 DEF Inv, DoneIsAnnounced, BeforePush
<1>9. QED
  BY <1>2, <1>3, <1>4, <1>5, <1>7, <1>8, OwnStep

(* The end of a stream, rebuilt into one body. *)
LEMMA StreamEndStep ==
  ASSUME Inv, NEW r \in Requests, StreamEnd(r)
  PROVE  Inv'
<1>1. TypeOK /\ HandlerAt(r) /\ buf[r] \in Seq(Chunk)
  BY DEF Inv, TypeOK
<1>2. /\ pc[r] = "streaming" /\ ~ failed[r]
      /\ pc' = [pc EXCEPT ![r] = "streamTokens"]
      /\ Update(r, Reconstruct(buf[r]), 200, "none")
      /\ unannounced' = unannounced \cup {r}
      /\ mode' = mode /\ buf' = buf /\ failed' = failed /\ client' = client
      /\ pushed' = pushed
  BY DEF StreamEnd, Streaming, Goto
<1>3. Reconstruct(buf[r]) \in Body /\ 200 \in Statuses /\ "none" \in Labels
  BY <1>1, BodyTypes DEF Statuses, Labels
<1>4. /\ store' \in Seq(Record) /\ Len(store') = Len(store)
      /\ \A i \in 1 .. Len(store) :
           /\ store'[i].id = store[i].id
           /\ store[i].id # r => store'[i] = store[i]
  BY <1>2, <1>3, UpdateStep
<1>5. /\ pc' \in [Requests -> Places] /\ pc'[r] = "streamTokens"
      /\ \A q \in Requests \ {r} : pc'[q] = pc[q]
  BY <1>1, <1>2 DEF TypeOK, Places
<1>6. TypeOK'
  BY <1>1, <1>2, <1>4, <1>5 DEF TypeOK
<1>7. HandlerAt(r)'
  BY <1>1, <1>2, <1>5 DEF HandlerAt, BeforePush
<1>8. \A i \in 1 .. Len(store) : store[i].id = r => RecordAt(store[i], r)'
  BY <1>2, <1>3, <1>5, UpdateStep DEF RecordAt, Streaming
<1>9. pc'[r] \notin BeforePush
  BY <1>5 DEF BeforePush
<1>10. QED
  BY <1>2, <1>4, <1>5, <1>6, <1>7, <1>8, <1>9, OwnStep

(* The tokens of a stream that has ended. *)
LEMMA StreamTokensStep ==
  ASSUME Inv, NEW r \in Requests, StreamTokens(r)
  PROVE  Inv'
<1>1. TypeOK /\ HandlerAt(r) /\ buf[r] \in Seq(Chunk) /\ client[r] \in View
  BY DEF Inv, TypeOK
<1>2. /\ pc[r] = "streamTokens" /\ pc' = [pc EXCEPT ![r] = "done"]
      /\ store' = UpdateTokens(store, r, FirstUsage(buf[r]))
      /\ unannounced' = unannounced \ {r}
      /\ client' = [client EXCEPT ![r].end = "complete"]
      /\ mode' = mode /\ buf' = buf /\ failed' = failed /\ pushed' = pushed
  BY <1>1, BodyTypes DEF StreamTokens, Goto
<1>3. FirstUsage(buf[r]) \in Usages \cup {NoUsage}
  BY <1>1, FirstUsageType
<1>4. /\ store' \in Seq(Record) /\ Len(store') = Len(store)
      /\ \A i \in 1 .. Len(store) :
           /\ store'[i].id = store[i].id
           /\ store[i].id # r => store'[i] = store[i]
  BY <1>2, <1>3, TokensStep
<1>5. /\ pc'[r] = "done" /\ pc' \in [Requests -> Places]
      /\ \A q \in Requests \ {r} : pc'[q] = pc[q]
  BY <1>1, <1>2 DEF TypeOK, Places
<1>6. /\ mode[r] = "stream" /\ client'[r].got = buf[r] /\ client'[r].status = 200
      /\ client'[r].end = "complete" /\ client'[r] \in View
  <2>1. client'[r] = [client[r] EXCEPT !.end = "complete"]
    BY <1>1, <1>2 DEF TypeOK
  <2>2. client[r].got = buf[r] /\ client[r].status = 200 /\ mode[r] = "stream"
    BY <1>1, <1>2 DEF HandlerAt
  <2>3. QED
    BY <1>1, <2>1, <2>2 DEF View, Ends
<1>7. /\ client' \in [Requests -> View]
      /\ \A q \in Requests \ {r} : client'[q] = client[q]
  BY <1>1, <1>2, <1>6 DEF TypeOK
<1>8. TypeOK'
  BY <1>1, <1>2, <1>4, <1>5, <1>7 DEF TypeOK
<1>9. HandlerAt(r)'
  BY <1>1, <1>2, <1>5 DEF HandlerAt, BeforePush
<1>10. \A i \in 1 .. Len(store) : store[i].id = r => RecordAt(store[i], r)'
  BY <1>2, <1>3, <1>5, <1>6, TokensStep DEF RecordAt, Streaming, Tells
<1>11. pc'[r] \notin BeforePush
  BY <1>5 DEF BeforePush
<1>12. QED
  BY <1>2, <1>4, <1>5, <1>7, <1>8, <1>9, <1>10, <1>11, OwnStep

(* A handler dropped at an await. *)
LEMMA DisconnectStep ==
  ASSUME Inv, NEW r \in Requests, Disconnect(r)
  PROVE  Inv'
<1>1. TypeOK
  BY DEF Inv
<1>2. /\ pc' = [pc EXCEPT ![r] = "dropped"] /\ store' = store /\ mode' = mode
      /\ buf' = buf /\ failed' = failed /\ client' = client
      /\ pushed' = pushed /\ unannounced' = unannounced
  BY DEF Disconnect
<1>3. /\ pc' \in [Requests -> Places] /\ pc'[r] = "dropped"
      /\ \A q \in Requests \ {r} : pc'[q] = pc[q]
  BY <1>1, <1>2 DEF TypeOK, Places
<1>4. TypeOK'
  BY <1>1, <1>2, <1>3 DEF TypeOK
<1>5. HandlerAt(r)' /\ \A i \in 1 .. Len(store) : RecordAt(store[i], r)'
  BY <1>3 DEF HandlerAt, RecordAt, Streaming, BeforePush
<1>6. pc'[r] \notin BeforePush
  BY <1>3 DEF BeforePush
<1>7. QED
  BY <1>2, <1>3, <1>4, <1>5, <1>6, OwnStep

----------------------------------------------------------------------------
(* Every step of the handlers preserves the invariant. *)
LEMMA NextInv == Inv /\ [Next]_vars => Inv'
<1> SUFFICES ASSUME Inv, [Next]_vars PROVE Inv'
  OBVIOUS
<1>1. CASE UNCHANGED vars
  BY <1>1 DEF vars, Inv, TypeOK, StoreIsWindow, PushedOnce, HandlerAt, RecordAt,
              Streaming, Tells, DoneIsAnnounced
<1>2. ASSUME NEW r \in Requests,
             \E m \in Modes : Arrive(r, m)
      PROVE  Inv'
  BY <1>2, EarlySteps
<1>3. ASSUME NEW r \in Requests, Handle(r)
      PROVE  Inv'
  <2>1. CASE ReadBody(r) \/ Refuse(r) \/ Resolve(r) \/ OverridePanics(r)
    BY <2>1, EarlySteps
  <2>2. CASE PushRecord(r)
    BY <2>2, PushStep
  <2>3. CASE Answer(r)
    BY <2>3, AnswerPlainStep, AnswerModelsStep, AnswerErrorStep, AnswerStreamStep
       DEF Answer
  <2>4. CASE RecordTokens(r)
    BY <2>4, RecordTokensStep
  <2>5. CASE Poll(r)
    BY <2>5, StreamChunkStep, StreamFailStep, StreamAfterFailStep, StreamEndStep,
       StreamTokensStep DEF Poll
  <2>6. QED
    BY <1>3, <2>1, <2>2, <2>3, <2>4, <2>5 DEF Handle
<1>4. ASSUME NEW r \in Requests, Disconnect(r)
      PROVE  Inv'
  BY <1>4, DisconnectStep
<1>5. QED
  BY <1>1, <1>2, <1>3, <1>4 DEF Next

(* The invariant holds in every state of every run of the handlers. *)
THEOREM InvHolds == Spec => []Inv
<1>1. QED
  BY InitInv, NextInv, PTL DEF Spec

(* The state of the handlers and of the log always has its type. *)
THEOREM TypeCorrect == Spec => []TypeOK
<1>1. Inv => TypeOK
  BY DEF Inv
<1>2. QED
  BY <1>1, InvHolds, PTL

(* The log always holds the last max_len records pushed, in push order,    *)
(* whatever the size of the log and the number of requests in flight.      *)
THEOREM LogIsWindow == Spec => []StoreIsWindow
<1>1. Inv => StoreIsWindow
  BY DEF Inv
<1>2. QED
  BY <1>1, InvHolds, PTL

(* The record of every finished request says what its client got.          *)
THEOREM OutcomeTold == Spec => []RecordTellsOutcome
<1>1. Inv => RecordTellsOutcome
  BY DEF Inv, RecordTellsOutcome, RecordAt
<1>2. QED
  BY <1>1, InvHolds, PTL

(* A finished request has announced every change of its record. *)
THEOREM FinishedAnnounced == Spec => []DoneIsAnnounced
<1>1. Inv => DoneIsAnnounced
  BY DEF Inv
<1>2. QED
  BY <1>1, InvHolds, PTL

----------------------------------------------------------------------------
(* No step rewrites a settled record. *)

Kept == \A i \in 1 .. Len(store), j \in 1 .. Len(store') :
          Keeps(store[i], store'[j])

(* A step that leaves the others alone, and the record of r if it is       *)
(* settled.                                                                *)
LEMMA KeptInPlace ==
  ASSUME Inv, NEW r, Len(store') = Len(store),
         \A i \in 1 .. Len(store) :
           /\ store'[i].id = store[i].id
           /\ store[i].id # r => store'[i] = store[i]
           /\ store[i].id = r => Keeps(store[i], store'[i])
  PROVE  Kept
<1> SUFFICES ASSUME NEW i \in 1 .. Len(store), NEW j \in 1 .. Len(store),
                    store[i].id = store'[j].id
             PROVE  Keeps(store[i], store'[j])
  BY DEF Kept, Keeps
<1>1. i = j
  BY StoreFacts DEF Distinct
<1>2. QED
  BY <1>1 DEF Keeps

(* Every step of the handlers keeps the settled records. *)
LEMMA NextKept == Inv /\ [Next]_vars => Kept
<1> SUFFICES ASSUME Inv, [Next]_vars PROVE Kept
  OBVIOUS
<1>1. CASE store' = store
  <2>1. \A i \in 1 .. Len(store) : Keeps(store[i], store'[i])
    BY <1>1 DEF Keeps
  <2>2. QED
    BY <1>1, <2>1, KeptInPlace
<1>2. ASSUME NEW r \in Requests, PushRecord(r)
      PROVE  Kept
  <2>1. NewRecord(r) \in Record
    <3>1. NoBody \in Body
      BY EmptySeq, BodyTypes
    <3>2. QED
      BY <3>1 DEF NewRecord, Record, Statuses, Labels
  <2>2. store' = Push(store, NewRecord(r)) /\ pc[r] = "pushing"
    BY <1>2 DEF PushRecord, Goto
  <2>3. PICK d \in {0, 1} :
          /\ Len(store') = Len(store) + 1 - d
          /\ store'[Len(store) + 1 - d] = NewRecord(r)
          /\ \A i \in 1 .. Len(store) - d :
               i + d \in 1 .. Len(store) /\ store'[i] = store[i + d]
    BY <2>1, <2>2, StoreFacts, PushEffect
  <2> SUFFICES ASSUME NEW i \in 1 .. Len(store), NEW j \in 1 .. Len(store'),
                      store[i].id = store'[j].id
               PROVE  Keeps(store[i], store'[j])
    BY DEF Kept, Keeps
  <2>4. store[i].id # r
    BY <2>2, StoreFacts DEF BeforePush
  <2>5. j # Len(store) + 1 - d
    BY <2>3, <2>4 DEF NewRecord
  <2>6. j \in 1 .. Len(store) - d
    BY <2>3, <2>5, StoreFacts
  <2>7. store'[j] = store[i]
    BY <2>3, <2>6, StoreFacts DEF Distinct
  <2>8. QED
    BY <2>7 DEF Keeps
<1>3. ASSUME NEW r \in Requests, NEW body \in Body, NEW status \in Statuses,
             NEW label \in Labels, Update(r, body, status, label),
             pc[r] = "upstream" \/ Streaming(r)
      PROVE  Kept
  <2>1. \A i \in 1 .. Len(store) : store[i].id = r => ~ Settled(store[i])
    <3>1. \A i \in 1 .. Len(store) : store[i].id = r => RecordAt(store[i], r)
      BY DEF Inv
    <3>2. QED
      BY <1>3, <3>1 DEF RecordAt, Settled
  <2>2. /\ Len(store') = Len(store)
        /\ \A i \in 1 .. Len(store) :
             /\ store'[i].id = store[i].id
             /\ store[i].id # r => store'[i] = store[i]
    BY <1>3, UpdateStep
  <2>3. QED
    BY <2>1, <2>2, KeptInPlace DEF Keeps
<1>4. ASSUME NEW r \in Requests, NEW b, b \in Seq(Chunk),
             store' = UpdateTokens(store, r, FirstUsage(b)),
             pc[r] \in {"tokens", "streamTokens"}
      PROVE  Kept
  <2>1. FirstUsage(b) \in Usages \cup {NoUsage}
    BY <1>4, FirstUsageType
  <2>2. /\ Len(store') = Len(store)
        /\ \A i \in 1 .. Len(store) :
             /\ store'[i].id = store[i].id /\ store'[i].status = store[i].status
             /\ store'[i].label = store[i].label /\ store'[i].body = store[i].body
             /\ store[i].id # r => store'[i] = store[i]
             /\ store[i].id = r => RecordAt(store[i], r)
    BY <1>4, <2>1, TokensStep
  <2>3. \A i \in 1 .. Len(store) : store[i].id = r => store[i].tokens = NoUsage
    BY <1>4, <2>2 DEF RecordAt
  <2>4. QED
    BY <2>2, <2>3, KeptInPlace DEF Keeps
<1>5. ASSUME NEW r \in Requests, Handle(r)
      PROVE  Kept
  <2>1. /\ buf[r] \in Seq(Chunk) /\ << >> \in Seq(Chunk)
        /\ "none" \in Labels /\ "streaming" \in Labels /\ 200 \in Statuses
        /\ ErrorStatuses \subseteq Statuses /\ IoStatuses \subseteq ErrorStatuses
    BY EmptySeq DEF Inv, TypeOK, Labels, Statuses, ErrorStatuses
  <2>2. CASE PushRecord(r)
    BY <1>2, <2>2
  <2>3. CASE \E c \in Chunk : AnswerPlain(r, c) \/ AnswerModels(r, c)
    <3>1. PICK c \in Chunk : AnswerPlain(r, c) \/ AnswerModels(r, c)
      BY <2>3
    <3>2. Reply(<<c>>) \in Body
      <4>1. <<c>> \in Seq(Chunk)
        OBVIOUS
      <4>2. QED
        BY <4>1, BodyTypes
    <3>3. Update(r, Reply(<<c>>), 200, "none") /\ pc[r] = "upstream"
      BY <3>1 DEF AnswerPlain, AnswerModels, Goto
    <3>4. QED
      BY <1>3, <2>1, <3>2, <3>3
  <2>4. CASE \E s \in ErrorStatuses : AnswerError(r, s)
    BY <1>3, <2>1, <2>4, BodyTypes DEF AnswerError, Goto
  <2>5. CASE AnswerStream(r)
    BY <1>3, <2>1, <2>5, BodyTypes DEF AnswerStream, Goto
  <2>6. CASE \E s \in IoStatuses : StreamFail(r, s)
    BY <1>3, <2>1, <2>6, BodyTypes DEF StreamFail
  <2>7. CASE StreamEnd(r)
    BY <1>3, <2>1, <2>7, BodyTypes DEF StreamEnd
  <2>8. CASE RecordTokens(r) \/ StreamTokens(r)
    <3>1. /\ store' = UpdateTokens(store, r, FirstUsage(buf[r]))
          /\ pc[r] \in {"tokens", "streamTokens"}
      BY <2>1, <2>8, BodyTypes DEF RecordTokens, StreamTokens, Goto
    <3>2. QED
      BY <1>4, <2>1, <3>1
  <2>9. CASE \/ ReadBody(r) \/ Refuse(r) \/ Resolve(r) \/ OverridePanics(r)
             \/ StreamAfterFail(r) \/ \E c \in Chunk : StreamChunk(r, c)
    BY <1>1, <2>9 DEF ReadBody, Refuse, Resolve, OverridePanics, StreamAfterFail,
                      StreamChunk
  <2>10. QED
    BY <1>5, <2>2, <2>3, <2>4, <2>5, <2>6, <2>7, <2>8, <2>9
       DEF Handle, Answer, Poll
<1>6. CASE UNCHANGED vars
  BY <1>1, <1>6 DEF vars
<1>7. ASSUME NEW r \in Requests, Disconnect(r) \/ \E m \in Modes : Arrive(r, m)
      PROVE  Kept
  BY <1>1, <1>7 DEF Disconnect, Arrive
<1>8. QED
  BY <1>5, <1>6, <1>7 DEF Next

(* Whatever the interleaving, a record once settled is never rewritten. *)
THEOREM SettledForGood == Spec => SettledStays
<1>1. Inv /\ [Next]_vars => [Kept]_vars
  BY NextKept
<1>2. QED
  BY <1>1, InvHolds, PTL DEF Spec, SettledStays, Kept

----------------------------------------------------------------------------
(* What the log leaves out. *)

Recorded == {"upstream", "tokens", "streaming", "streamTokens"}
Unanswered == BeforePush \cup {"upstream", "tokens"}

(* An answer of a recorded call, or of one that is not. *)
Accounted(r) ==
  IF r \in Entered
  THEN /\ client[r].status \in {0, 200} \cup ErrorStatuses
       /\ client[r].end = "aborted" => client[r].status = 200
  ELSE client[r].status \in {0} \cup RefusalStatuses

(* AnswersAccountedFor with what makes it inductive: a handler past the    *)
(* push has its record, and until it answers its client has seen nothing.  *)
AccountInv ==
  \A r \in Requests :
    /\ Accounted(r)
    /\ pc[r] \in Recorded => r \in Entered
    /\ pc[r] \in Unanswered => client[r].status = 0 /\ client[r].end # "aborted"

(* A handler that has not pushed yet has no record. *)
LEMMA NotYetEntered ==
  ASSUME Inv, NEW r, pc[r] \in BeforePush
  PROVE  r \notin Entered
BY DEF Inv, PushedOnce, Entered

(* A step of r that pushes nothing changes neither who is recorded nor what *)
(* another client has seen.                                                *)
LEMMA AccountStep ==
  ASSUME Inv, AccountInv, NEW r \in Requests, pushed' = pushed,
         \A q \in Requests \ {r} : pc'[q] = pc[q] /\ client'[q] = client[q],
         Accounted(r)',
         pc'[r] \in Recorded => pc[r] \in Recorded,
         pc'[r] \in Unanswered =>
           client'[r].status = 0 /\ client'[r].end # "aborted"
  PROVE  AccountInv'
<1>1. Entered' = Entered
  BY DEF Entered
<1> SUFFICES ASSUME NEW q \in Requests
             PROVE  /\ Accounted(q)'
                    /\ pc'[q] \in Recorded => q \in Entered'
                    /\ pc'[q] \in Unanswered =>
                         client'[q].status = 0 /\ client'[q].end # "aborted"
  BY DEF AccountInv
<1>2. CASE q = r
  BY <1>1, <1>2 DEF AccountInv
<1>3. CASE q # r
  BY <1>1, <1>3 DEF AccountInv, Accounted
<1>4. QED
  BY <1>2, <1>3

(* The steps before the push: every refusal is one of the three. *)
LEMMA AccountEarly ==
  ASSUME Inv, AccountInv, NEW r \in Requests,
         \/ \E m \in Modes : Arrive(r, m)
         \/ ReadBody(r) \/ Refuse(r) \/ Resolve(r) \/ OverridePanics(r)
  PROVE  AccountInv'
<1>1. TypeOK
  BY DEF Inv
<1>2. /\ pc[r] \in BeforePush /\ pushed' = pushed
      /\ pc'[r] \in BeforePush \cup {"done", "dropped"}
      /\ \A q \in Requests \ {r} : pc'[q] = pc[q]
  BY <1>1 DEF TypeOK, Arrive, ReadBody, Refuse, Resolve, OverridePanics, Goto,
              BeforePush
<1>3. client[r].status = 0 /\ client[r].end # "aborted" /\ client[r] \in View
  BY <1>1, <1>2 DEF AccountInv, Unanswered, TypeOK
<1>4. /\ \A q \in Requests \ {r} : client'[q] = client[q]
      /\ client'[r].status \in {0} \cup RefusalStatuses
      /\ \/ client'[r] = client[r]
         \/ pc'[r] \in {"done", "dropped"}
  <2>1. CASE client' = client
    BY <1>3, <2>1
  <2>2. CASE Refuse(r)
    BY <1>1, <2>2 DEF Refuse, Respond, Goto, TypeOK, RefusalStatuses
  <2>3. CASE OverridePanics(r)
    BY <1>1, <1>3, <2>3 DEF OverridePanics, Goto, TypeOK, View
  <2>4. QED
    BY <2>1, <2>2, <2>3 DEF Arrive, ReadBody, Resolve
<1>5. Entered' = Entered /\ r \notin Entered
  BY <1>2, NotYetEntered DEF Entered
<1>6. Accounted(r)'
  BY <1>4, <1>5 DEF Accounted
<1>7. pc'[r] \notin Recorded
  BY <1>2 DEF Recorded, BeforePush
<1>8. pc'[r] \in Unanswered => client'[r].status = 0 /\ client'[r].end # "aborted"
  BY <1>3, <1>4 DEF Unanswered, BeforePush
<1>9. QED
  BY <1>2, <1>4, <1>6, <1>7, <1>8, AccountStep

(* The push enters the call, whose client has seen nothing. *)
LEMMA AccountPush ==
  ASSUME Inv, AccountInv, NEW r \in Requests, PushRecord(r)
  PROVE  AccountInv'
<1>1. /\ pc[r] = "pushing" /\ pc' = [pc EXCEPT ![r] = "upstream"]
      /\ pushed' = Append(pushed, r) /\ client' = client /\ TypeOK
  BY DEF PushRecord, Goto, Inv
<1>2. Entered' = Entered \cup {r}
  <2>1. /\ Len(pushed) \in Nat /\ Len(pushed') = Len(pushed) + 1
        /\ pushed'[Len(pushed) + 1] = r
        /\ \A i \in 1 .. Len(pushed) : pushed'[i] = pushed[i]
    BY <1>1, LenProperties, AppendProperties DEF TypeOK
  <2>2. 1 .. Len(pushed') = 1 .. Len(pushed) \cup {Len(pushed) + 1}
    BY <2>1
  <2>3. QED
    BY <2>1, <2>2 DEF Entered
<1>3. client[r].status = 0 /\ client[r].end # "aborted"
  BY <1>1 DEF AccountInv, Unanswered, BeforePush
<1> SUFFICES ASSUME NEW q \in Requests
             PROVE  /\ Accounted(q)'
                    /\ pc'[q] \in Recorded => q \in Entered'
                    /\ pc'[q] \in Unanswered =>
                         client'[q].status = 0 /\ client'[q].end # "aborted"
  BY DEF AccountInv
<1>4. CASE q = r
  BY <1>1, <1>2, <1>3, <1>4 DEF Accounted
<1>5. CASE q # r
  <2>1. pc'[q] = pc[q]
    BY <1>1, <1>5 DEF TypeOK
  <2>2. QED
    BY <1>1, <1>2, <1>5, <2>1 DEF AccountInv, Accounted
<1>6. QED
  BY <1>4, <1>5

(* A response to a recorded call: its status is the upstream's, or says    *)
(* how the exchange with it failed.                                        *)
LEMMA AccountAnswer ==
  ASSUME Inv, AccountInv, NEW r \in Requests, Answer(r) \/ RecordTokens(r)
  PROVE  AccountInv'
<1>1. TypeOK
  BY DEF Inv
<1>2. /\ pc[r] \in {"upstream", "tokens"} /\ pushed' = pushed
      /\ pc'[r] \in {"tokens", "streaming", "done"}
      /\ \A q \in Requests \ {r} : pc'[q] = pc[q]
  BY <1>1 DEF TypeOK, Answer, AnswerPlain, AnswerModels, AnswerError, AnswerStream,
              RecordTokens, Goto
<1>3. client[r].status = 0 /\ client[r].end # "aborted" /\ r \in Entered
  BY <1>2 DEF AccountInv, Unanswered, Recorded
<1>4. /\ \A q \in Requests \ {r} : client'[q] = client[q]
      /\ client'[r].status \in {0, 200} \cup ErrorStatuses
      /\ client'[r].end # "aborted"
      /\ pc'[r] = "tokens" => client'[r].status = 0
  <2>1. CASE \E c \in Chunk : AnswerPlain(r, c)
    BY <1>3, <2>1 DEF AnswerPlain
  <2>2. ASSUME NEW s \in {200} \cup ErrorStatuses, NEW got,
               NEW end \in {"waiting", "complete"},
               Respond(r, s, got, end), pc'[r] # "tokens"
        PROVE  /\ \A q \in Requests \ {r} : client'[q] = client[q]
               /\ client'[r].status \in {0, 200} \cup ErrorStatuses
               /\ client'[r].end # "aborted"
               /\ pc'[r] = "tokens" => client'[r].status = 0
    BY <1>1, <2>2 DEF TypeOK, Respond
  <2>3. CASE \E c \in Chunk : AnswerModels(r, c)
    <3>1. PICK c \in Chunk : AnswerModels(r, c)
      BY <2>3
    <3>2. Respond(r, 200, <<c>>, "complete") /\ pc'[r] # "tokens"
      BY <1>1, <3>1 DEF AnswerModels, Goto, TypeOK
    <3>3. QED
      BY <2>2, <3>2
  <2>4. CASE \E s \in ErrorStatuses : AnswerError(r, s)
    <3>1. PICK s \in ErrorStatuses : AnswerError(r, s)
      BY <2>4
    <3>2. Respond(r, s, << >>, "complete") /\ pc'[r] # "tokens"
      BY <1>1, <3>1 DEF AnswerError, Goto, TypeOK
    <3>3. QED
      BY <2>2, <3>2
  <2>5. CASE AnswerStream(r)
    <3>1. Respond(r, 200, << >>, "waiting") /\ pc'[r] # "tokens"
      BY <1>1, <2>5 DEF AnswerStream, Goto, TypeOK
    <3>2. QED
      BY <2>2, <3>1
  <2>6. CASE RecordTokens(r)
    <3>1. Respond(r, 200, buf[r], "complete") /\ pc'[r] # "tokens"
      BY <1>1, <2>6 DEF RecordTokens, Goto, TypeOK
    <3>2. QED
      BY <2>2, <3>1
  <2>7. QED
    BY <2>1, <2>3, <2>4, <2>5, <2>6 DEF Answer
<1>5. Entered' = Entered
  BY <1>2 DEF Entered
<1>6. Accounted(r)'
  BY <1>3, <1>4, <1>5 DEF Accounted
<1>7. QED
  BY <1>2, <1>4, <1>6, AccountStep DEF Recorded, Unanswered, BeforePush

(* A poll of a streaming reply, whose client has the status 200. *)
LEMMA AccountPoll ==
  ASSUME Inv, AccountInv, NEW r \in Requests, Poll(r)
  PROVE  AccountInv'
<1>1. TypeOK /\ HandlerAt(r)
  BY DEF Inv
<1>2. /\ pc[r] \in {"streaming", "streamTokens"} /\ pushed' = pushed
      /\ pc'[r] \in {"streaming", "streamTokens", "done"}
      /\ \A q \in Requests \ {r} : pc'[q] = pc[q]
  BY <1>1 DEF TypeOK, Poll, StreamChunk, StreamFail, StreamAfterFail, StreamEnd,
              StreamTokens, Streaming, Goto
<1>3. client[r].status = 200 /\ client[r] \in View /\ r \in Entered
  BY <1>1, <1>2 DEF HandlerAt, TypeOK, AccountInv, Recorded
<1>4. /\ \A q \in Requests \ {r} : client'[q] = client[q]
      /\ client'[r].status = 200
  BY <1>1, <1>3 DEF TypeOK, View, Poll, StreamChunk, StreamFail, StreamAfterFail,
                    StreamEnd, StreamTokens
<1>5. Accounted(r)'
  BY <1>2, <1>3, <1>4 DEF Accounted, Entered
<1>6. QED
  BY <1>2, <1>4, <1>5, AccountStep DEF Recorded, Unanswered, BeforePush

(* Every step of the handlers keeps the account. *)
LEMMA NextAccount == Inv /\ AccountInv /\ [Next]_vars => AccountInv'
<1> SUFFICES ASSUME Inv, AccountInv, [Next]_vars PROVE AccountInv'
  OBVIOUS
<1>1. CASE UNCHANGED vars
  BY <1>1 DEF vars, AccountInv, Accounted, Entered
<1>2. ASSUME NEW r \in Requests,
             Handle(r) \/ \E m \in Modes : Arrive(r, m)
      PROVE  AccountInv'
  BY <1>2, AccountEarly, AccountPush, AccountAnswer, AccountPoll DEF Handle
<1>3. ASSUME NEW r \in Requests, Disconnect(r)
      PROVE  AccountInv'
  <2>1. /\ pushed' = pushed /\ client' = client /\ TypeOK
        /\ pc' = [pc EXCEPT ![r] = "dropped"]
    BY <1>3 DEF Disconnect, Inv
  <2>2. pc'[r] = "dropped" /\ \A q \in Requests \ {r} : pc'[q] = pc[q]
    BY <2>1 DEF TypeOK
  <2>3. Accounted(r)'
    BY <2>1 DEF AccountInv, Accounted, Entered
  <2>4. QED
    BY <2>1, <2>2, <2>3, AccountStep DEF Recorded, Unanswered, BeforePush
<1>4. QED
  BY <1>1, <1>2, <1>3 DEF Next

(* A call the log does not hold, and never held, was refused with 400, 500 *)
(* or 503 or saw no answer at all; a recorded one ends in no status of     *)
(* those but by the upstream's own making.                                 *)
THEOREM AllAnswersAccounted == Spec => []AnswersAccountedFor
<1>1. Init => AccountInv
  <2> SUFFICES ASSUME Init PROVE AccountInv
    OBVIOUS
  <2>1. \A r \in Requests : client[r] = Nothing /\ pc[r] = "idle"
    BY DEF Init
  <2>2. QED
    BY <2>1 DEF AccountInv, Accounted, Nothing, Recorded
<1>2. AccountInv => AnswersAccountedFor
  BY DEF AccountInv, Accounted, AnswersAccountedFor
<1>3. Spec => []AccountInv
  BY <1>1, InvHolds, NextAccount, PTL DEF Spec
<1>4. QED
  BY <1>2, <1>3, PTL

----------------------------------------------------------------------------
(* The handlers and their log implement CallLog, for any number of         *)
(* requests, any size of the log and streams of any length.                *)

(* What the console sees of a record depends on its status, label and body. *)
LEMMA ShownFacts ==
  ASSUME NEW s \in Seq(Record)
  PROVE  /\ Len(s) \in Nat /\ Len(Shown(s)) = Len(s)
         /\ DOMAIN Shown(s) = 1 .. Len(s)
         /\ \A i \in 1 .. Len(s) :
              Shown(s)[i] = [id |-> s[i].id, outcome |-> OutcomeOf(s[i])]
<1>1. Len(s) \in Nat
  BY LenProperties
<1>2. Shown(s) = [i \in 1 .. Len(s) |->
                    [id |-> s[i].id, outcome |-> OutcomeOf(s[i])]]
  BY DEF Shown
<1>3. QED
  BY <1>1, <1>2

(* Two logs that look alike place by place look alike. *)
LEMMA SameShown ==
  ASSUME NEW s \in Seq(Record), NEW t \in Seq(Record), Len(s) = Len(t),
         \A i \in 1 .. Len(s) :
           t[i].id = s[i].id /\ OutcomeOf(t[i]) = OutcomeOf(s[i])
  PROVE  Shown(s) = Shown(t)
BY DEF Shown

(* A record settled by an update shows an outcome. *)
LEMMA SettledOutcome ==
  ASSUME NEW rec \in Record, Settled(rec)
  PROVE  OutcomeOf(rec) \in [status : Statuses \ {0}, body : Body]
BY DEF Settled, OutcomeOf, Record

(* The push of a record enters its call. *)
LEMMA PushEnters ==
  ASSUME Inv, NEW r \in Requests, PushRecord(r)
  PROVE  Calls!Enter(r)
<1> DEFINE n == Len(store)
           e == [id |-> r, outcome |-> OpenOutcome]
           L == Shown(store)
           T == {L[i] : i \in 1 .. n} \cup {e}
<1>1. /\ pc[r] = "pushing"
      /\ store' = Push(store, NewRecord(r)) /\ pushed' = Append(pushed, r)
  BY DEF PushRecord, Goto
<1>2. NewRecord(r) \in Record
  <2>1. NoBody \in Body
    BY EmptySeq, BodyTypes
  <2>2. QED
    BY <2>1 DEF NewRecord, Record, Statuses, Labels
<1>3. /\ store \in Seq(Record) /\ store' \in Seq(Record) /\ n \in Nat
      /\ n <= Capacity /\ Capacity \in Nat
  BY <1>1, <1>2, StoreFacts, PushEffect, MaxLenAssumption DEF Capacity
<1>4. PICK d \in {0, 1} :
        /\ d = 0 <=> n < Capacity
        /\ Len(store') = n + 1 - d
        /\ store'[n + 1 - d] = NewRecord(r)
        /\ \A i \in 1 .. n - d : i + d \in 1 .. n /\ store'[i] = store[i + d]
  BY <1>1, <1>2, StoreFacts, PushEffect
<1>5. r \notin Entered
  BY <1>1 DEF Inv, PushedOnce, BeforePush, Entered
<1>6. Entered' = Entered \cup {r}
  <2>1. /\ pushed \in Seq(Requests) /\ Len(pushed) \in Nat
        /\ Len(pushed') = Len(pushed) + 1 /\ pushed'[Len(pushed) + 1] = r
        /\ \A i \in 1 .. Len(pushed) : pushed'[i] = pushed[i]
    BY <1>1, AppendProperties, LenProperties DEF Inv, TypeOK
  <2>2. QED
    BY <2>1 DEF Entered
<1>7. OutcomeOf(NewRecord(r)) = OpenOutcome /\ NewRecord(r).id = r
  BY DEF OutcomeOf, Settled, NewRecord
<1>8. /\ L \in Seq(T) /\ Len(L) = n
      /\ \A i \in 1 .. n : L[i] = [id |-> store[i].id, outcome |-> OutcomeOf(store[i])]
  <2>1. /\ Len(L) = n /\ DOMAIN L = 1 .. n
        /\ \A i \in 1 .. n :
             L[i] = [id |-> store[i].id, outcome |-> OutcomeOf(store[i])]
    BY <1>3, ShownFacts
  <2>2. L = [i \in 1 .. n |-> L[i]]
    BY DEF Shown
  <2>3. L \in [1 .. n -> T]
    <3> HIDE DEF L
    <3>1. QED
      BY <2>2
  <2>4. L \in Seq(T)
    <3> HIDE DEF L, T, n
    <3>1. QED
      BY <1>3, <2>3, SeqDef
  <2>5. QED
    BY <2>1, <2>4
<1> DEFINE A == Append(L, e)
<1>9. /\ A \in Seq(T) /\ Len(A) = n + 1 /\ A[n + 1] = e
      /\ \A i \in 1 .. n : A[i] = L[i]
  BY <1>8, AppendProperties
<1> HIDE DEF A
<1>10. Calls!Latest(A) = SubSeq(A, 1 + d, n + 1)
  <2>1. (IF Len(A) > Capacity THEN Len(A) - Capacity + 1 ELSE 1) = 1 + d
    <3> HIDE DEF n
    <3>1. QED
      BY <1>3, <1>4, <1>9
  <2>2. QED
    BY <1>9, <2>1 DEF Calls!Latest
<1>11. SubSeq(A, 1 + d, n + 1) = [i \in 1 .. n + 1 - d |-> A[i + d]]
  <2> DEFINE B == SubSeq(A, 1 + d, n + 1)
  <2>1. \A i \in 1 + d .. n + 1 : A[i] \in T
    BY <1>3, <1>9, ElementOfSeq
  <2>2. /\ B \in Seq(T) /\ Len(B) = n + 1 - d
        /\ \A i \in 1 .. n + 1 - d : B[i] = A[i + d]
    <3>1. 1 + d \in Int /\ n + 1 \in Int /\ 1 + d <= n + 1
      BY <1>3, <1>4, MaxLenAssumption DEF Capacity
    <3>2. /\ B \in Seq(T) /\ Len(B) = n + 1 - (1 + d) + 1
          /\ \A i \in 1 .. n + 1 - (1 + d) + 1 : B[i] = A[(1 + d) + i - 1]
      BY <2>1, <3>1, SubSeqProperties
    <3>3. n + 1 - (1 + d) + 1 = n + 1 - d /\ \A i \in Int : (1 + d) + i - 1 = i + d
      BY <1>3
    <3>4. QED
      BY <3>2, <3>3
  <2> HIDE DEF B
  <2>3. DOMAIN B = 1 .. n + 1 - d /\ B = [i \in DOMAIN B |-> B[i]]
    BY <2>2, LenProperties
  <2>4. B = [i \in 1 .. n + 1 - d |-> A[i + d]]
    BY <2>2, <2>3
  <2>5. QED
    BY <2>4 DEF B
<1>12. \A i \in 1 .. n + 1 - d :
         A[i + d] = [id |-> store'[i].id, outcome |-> OutcomeOf(store'[i])]
  <2> SUFFICES ASSUME NEW i \in 1 .. n + 1 - d
               PROVE  A[i + d] = [id |-> store'[i].id, outcome |-> OutcomeOf(store'[i])]
    OBVIOUS
  <2>1. CASE i = n + 1 - d
    <3>1. A[i + d] = e
      BY <1>3, <1>4, <1>9, <2>1
    <3>2. QED
      BY <1>4, <1>7, <2>1, <3>1
  <2>2. CASE i # n + 1 - d
    <3>1. i \in 1 .. n - d
      BY <1>3, <1>4, <2>2
    <3>2. i + d \in 1 .. n /\ store'[i] = store[i + d]
      BY <1>4, <3>1
    <3>3. QED
      BY <1>8, <1>9, <3>2
  <2>3. QED
    BY <2>1, <2>2
<1>13. Shown(store)' = Calls!Latest(A)
  BY <1>4, <1>10, <1>11, <1>12 DEF Shown
<1>14. QED
  BY <1>5, <1>6, <1>13 DEF Calls!Enter, Calls!Entry, A

(* An update of a record not yet settled reports its outcome, or nothing   *)
(* when it does not settle it or finds it evicted.                         *)
LEMMA UpdateReports ==
  ASSUME Inv, NEW r \in Requests, NEW body \in Body, NEW status \in Statuses,
         NEW label \in Labels, Update(r, body, status, label),
         pc[r] = "upstream" \/ Streaming(r), pushed' = pushed
  PROVE  Calls!Report(r) \/ UNCHANGED Calls!vars
<1> DEFINE n == Len(store)
<1>1. /\ store \in Seq(Record) /\ store' \in Seq(Record) /\ n \in Nat
      /\ Len(store') = n /\ Distinct(store)
      /\ \A i \in 1 .. n :
           /\ store'[i].id = store[i].id
           /\ store[i].id # r => store'[i] = store[i]
           /\ store[i].id = r => RecordAt(store[i], r)
  BY StoreFacts, UpdateStep
<1>2. \A i \in 1 .. n : store[i].id = r => OutcomeOf(store[i]) = OpenOutcome
  BY <1>1 DEF RecordAt, OutcomeOf, Settled
<1>3. Entered' = Entered
  BY DEF Entered
<1>4. CASE \A i \in 1 .. n : store[i].id = r => ~ Settled(store'[i])
  <2>1. \A i \in 1 .. n : OutcomeOf(store'[i]) = OutcomeOf(store[i])
    BY <1>1, <1>2, <1>4 DEF OutcomeOf
  <2>2. Shown(store)' = Shown(store)
    BY <1>1, <2>1, SameShown
  <2>3. QED
    BY <1>3, <2>2 DEF Calls!vars
<1>5. CASE \E i \in 1 .. n : store[i].id = r /\ Settled(store'[i])
  <2>1. PICK i \in 1 .. n : store[i].id = r /\ Settled(store'[i])
    BY <1>5
  <2>2. \A j \in 1 .. n : j # i => store'[j] = store[j]
    BY <1>1, <2>1 DEF Distinct
  <2> DEFINE o == OutcomeOf(store'[i])
  <2>3. o \in [status : Statuses \ {0}, body : Body]
    <3>1. store'[i] \in Record
      BY <1>1, ElementOfSeq
    <3>2. QED
      BY <2>1, <3>1, SettledOutcome
  <2>4. Shown(store)[i] = [id |-> r, outcome |-> OpenOutcome]
    BY <1>1, <1>2, <2>1, ShownFacts
  <2>5. Shown(store)'[i] = [id |-> r, outcome |-> o]
    BY <1>1, <2>1, ShownFacts
  <2>6. Shown(store)' = [j \in 1 .. n |->
          IF j = i THEN [id |-> r, outcome |-> o] ELSE Shown(store)[j]]
    <3>1. \A j \in 1 .. n :
            [id |-> store'[j].id, outcome |-> OutcomeOf(store'[j])]
              = IF j = i THEN [id |-> r, outcome |-> o] ELSE Shown(store)[j]
      BY <1>1, <2>1, <2>2, ShownFacts
    <3>2. QED
      BY <1>1, <3>1 DEF Shown
  <2>7. Shown(store)'[i].outcome = o
    BY <2>5
  <2>8. Len(Shown(store)) = n
    BY <1>1, ShownFacts
  <2> HIDE DEF o
  <2>9. QED
    BY <1>3, <2>3, <2>4, <2>6, <2>7, <2>8 DEF Calls!Report, Calls!Entry
<1>6. QED
  BY <1>4, <1>5

(* The tokens of a call are no part of its outcome. *)
LEMMA TokensUnseen ==
  ASSUME Inv, NEW r \in Requests, NEW usage \in Usages \cup {NoUsage},
         store' = UpdateTokens(store, r, usage), pushed' = pushed
  PROVE  UNCHANGED Calls!vars
<1>1. /\ store \in Seq(Record) /\ store' \in Seq(Record)
      /\ Len(store') = Len(store)
      /\ \A i \in 1 .. Len(store) :
           /\ store'[i].id = store[i].id /\ store'[i].status = store[i].status
           /\ store'[i].label = store[i].label /\ store'[i].body = store[i].body
  BY StoreFacts, TokensStep
<1>2. \A i \in 1 .. Len(store) : OutcomeOf(store'[i]) = OutcomeOf(store[i])
  BY <1>1 DEF OutcomeOf, Settled
<1>3. Shown(store)' = Shown(store)
  BY <1>1, <1>2, SameShown
<1>4. QED
  BY <1>3 DEF Calls!vars, Entered

(* Every step of the handlers is a step of CallLog or changes nothing the  *)
(* console can see.                                                        *)
LEMMA NextImplements == Inv /\ [Next]_vars => [Calls!Next]_(Calls!vars)
<1> SUFFICES ASSUME Inv, [Next]_vars PROVE Calls!Next \/ UNCHANGED Calls!vars
  OBVIOUS
<1>1. CASE store' = store /\ pushed' = pushed
  BY <1>1 DEF Calls!vars, Shown, Entered
<1>2. ASSUME NEW r \in Requests, Handle(r)
      PROVE  Calls!Next \/ UNCHANGED Calls!vars
  <2>1. /\ buf[r] \in Seq(Chunk)
        /\ "none" \in Labels /\ "streaming" \in Labels /\ 200 \in Statuses
        /\ ErrorStatuses \subseteq Statuses /\ IoStatuses \subseteq ErrorStatuses
    BY DEF Inv, TypeOK, Labels, Statuses, ErrorStatuses
  <2>2. ErrorBody \in Body /\ StreamingBody \in Body /\ Reconstruct(buf[r]) \in Body
    BY <2>1, BodyTypes
  <2>3. CASE PushRecord(r)
    BY <2>3, PushEnters DEF Calls!Next
  <2>4. CASE \E c \in Chunk : AnswerPlain(r, c) \/ AnswerModels(r, c)
    <3>1. PICK c \in Chunk : AnswerPlain(r, c) \/ AnswerModels(r, c)
      BY <2>4
    <3>2. Reply(<<c>>) \in Body
      <4>1. <<c>> \in Seq(Chunk)
        OBVIOUS
      <4>2. QED
        BY <4>1, BodyTypes
    <3>3. Update(r, Reply(<<c>>), 200, "none") /\ pc[r] = "upstream" /\ pushed' = pushed
      BY <3>1 DEF AnswerPlain, AnswerModels, Goto
    <3>4. QED
      BY <2>1, <3>2, <3>3, UpdateReports DEF Calls!Next
  <2>5. CASE \E s \in ErrorStatuses : AnswerError(r, s)
    <3>1. PICK s \in ErrorStatuses : AnswerError(r, s)
      BY <2>5
    <3>2. Update(r, ErrorBody, s, "none") /\ pc[r] = "upstream" /\ pushed' = pushed
      BY <3>1 DEF AnswerError, Goto
    <3>3. QED
      BY <2>1, <2>2, <3>2, UpdateReports DEF Calls!Next
  <2>6. CASE AnswerStream(r)
    <3>1. /\ Update(r, StreamingBody, 200, "streaming") /\ pc[r] = "upstream"
          /\ pushed' = pushed
      BY <2>6 DEF AnswerStream, Goto
    <3>2. QED
      BY <2>1, <2>2, <3>1, UpdateReports DEF Calls!Next
  <2>7. CASE \E s \in IoStatuses : StreamFail(r, s)
    <3>1. PICK s \in IoStatuses : StreamFail(r, s)
      BY <2>7
    <3>2. Update(r, ErrorBody, s, "none") /\ Streaming(r) /\ pushed' = pushed
      BY <3>1 DEF StreamFail
    <3>3. QED
      BY <2>1, <2>2, <3>2, UpdateReports DEF Calls!Next
  <2>8. CASE StreamEnd(r)
    <3>1. Update(r, Reconstruct(buf[r]), 200, "none") /\ Streaming(r) /\ pushed' = pushed
      BY <2>8 DEF StreamEnd
    <3>2. QED
      BY <2>1, <2>2, <3>1, UpdateReports DEF Calls!Next
  <2>9. CASE RecordTokens(r) \/ StreamTokens(r)
    <3>1. store' = UpdateTokens(store, r, FirstUsage(buf[r])) /\ pushed' = pushed
      BY <2>1, <2>9, BodyTypes DEF RecordTokens, StreamTokens
    <3>2. QED
      BY <2>1, <3>1, TokensUnseen, FirstUsageType
  <2>10. CASE \/ ReadBody(r) \/ Refuse(r) \/ Resolve(r) \/ OverridePanics(r)
              \/ StreamAfterFail(r) \/ \E c \in Chunk : StreamChunk(r, c)
    BY <1>1, <2>10 DEF ReadBody, Refuse, Resolve, OverridePanics, StreamAfterFail,
                       StreamChunk
  <2>11. QED
    BY <1>2, <2>3, <2>4, <2>5, <2>6, <2>7, <2>8, <2>9, <2>10
       DEF Handle, Answer, Poll
<1>3. CASE UNCHANGED vars
  BY <1>1, <1>3 DEF vars
<1>4. ASSUME NEW r \in Requests, Disconnect(r) \/ \E m \in Modes : Arrive(r, m)
      PROVE  Calls!Next \/ UNCHANGED Calls!vars
  BY <1>1, <1>4 DEF Disconnect, Arrive
<1>5. QED
  BY <1>2, <1>3, <1>4 DEF Next

(* The log starts empty. *)
LEMMA InitImplements == Init => Calls!Init
<1> SUFFICES ASSUME Init PROVE Calls!Init
  OBVIOUS
<1>1. store = << >> /\ pushed = << >> /\ Len(<< >>) = 0
  BY EmptySeq DEF Init
<1>2. Shown(store) = << >>
  BY <1>1 DEF Shown
<1>3. Entered = {}
  BY <1>1 DEF Entered
<1>4. QED
  BY <1>2, <1>3 DEF Calls!Init

(* Handlers that stream, fail, are evicted or dropped in any order keep    *)
(* the promise of CallLog: one entry and at most one whole outcome a call. *)
THEOREM ChatImplementsCallLog == Spec => ImplementsCallLog
<1>1. QED
  BY InitImplements, NextImplements, InvHolds, PTL
     DEF Spec, ImplementsCallLog, Calls!Spec
=============================================================================
