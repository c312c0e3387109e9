----------------------------- MODULE ChatProxy -----------------------------
(***************************************************************************)
(* src/proxy/openai.rs: the handlers of POST /v1/chat/completions (plain   *)
(* and streaming) and GET /v1/models, run concurrently for any number of   *)
(* requests against one request log.                                       *)
(*                                                                         *)
(* A handler is a future: between two awaits it runs undisturbed, at an    *)
(* await others run, and when its client goes away it is dropped there and *)
(* never resumed.  So an action is the code from one await to the next,    *)
(* and Disconnect is possible at every await.  The log's own lock is one   *)
(* of the awaits: what precedes it changes nothing others can see, and is  *)
(* part of the action that takes the lock.                                 *)
(*                                                                         *)
(* Which backend is chosen is the matter of BackendPool; here routing      *)
(* finds one, finds none, or fails to create its provider.  The upstream   *)
(* is external: it answers, streams or fails as it likes.                  *)
(***************************************************************************)
EXTENDS MemoryStore, FiniteSets

CONSTANTS
  Requests,          \* the HTTP requests; also the ids of their records
  Texts,             \* what a chunk of a reply says
  Usages,            \* token usages a chunk may carry
  UpstreamStatuses,  \* error statuses an upstream may answer with
  MaxChunks          \* bound on the chunks of a stream

ASSUME ChatAssumption ==
  /\ NoUsage \notin Usages
  /\ UpstreamStatuses \subseteq Nat \ {0, 200}
  /\ MaxChunks \in Nat

VARIABLES
  store,        \* MemoryStoreInner::records
  pc,           \* where each handler is
  mode,         \* which handler, and the request's "stream" flag
  buf,          \* the reply bytes the handler holds
  failed,       \* stream_failed, the last component of the unfold state
  client,       \* what the client has seen
  pushed,       \* history: ids in the order they were pushed
  unannounced   \* history: requests with an update no event was sent for

vars == <<store, pc, mode, buf, failed, client, pushed, unannounced>>

Modes == {"plain", "stream", "models"}

Chunk == [text : Texts, usage : Usages \cup {NoUsage}]

(* map_reqwest_error, map_stream_io_error: a timeout is 504, all else 502. *)
IoStatuses == {502, 504}
(* map_provider_upstream_error: the upstream's own status goes through. *)
ErrorStatuses == IoStatuses \cup UpstreamStatuses
RefusalStatuses == {400, 500, 503}
Statuses == {0, 200} \cup RefusalStatuses \cup ErrorStatuses

Places == {"idle", "reading", "routing", "pushing", "upstream", "tokens",
           "streaming", "streamTokens", "done", "dropped"}
Ends == {"waiting", "complete", "aborted"}

Nothing == [status |-> 0, got |-> << >>, end |-> "waiting"]

Init ==
  /\ store = << >>
  /\ pc = [r \in Requests |-> "idle"]
  /\ mode = [r \in Requests |-> "plain"]
  /\ buf = [r \in Requests |-> << >>]
  /\ failed = [r \in Requests |-> FALSE]
  /\ client = [r \in Requests |-> Nothing]
  /\ pushed = << >>
  /\ unannounced = {}

----------------------------------------------------------------------------
(* Bodies *)

TextOf(b) == [i \in DOMAIN b |-> b[i].text]

(* The first usage that is not null. *)
FirstUsage(b) ==
  LET I == {i \in DOMAIN b : b[i].usage # NoUsage}
  IN  IF I = {} THEN NoUsage
      ELSE b[CHOOSE i \in I : \A j \in I : i <= j].usage

(* The body of a reply that is not a stream. *)
Reply(b) == [kind |-> "reply", text |-> TextOf(b), usage |-> FirstUsage(b)]

(* reconstruct_from_sse: the deltas in order, the first usage; a stream    *)
(* without a parsable chunk is kept as it is.                              *)
Reconstruct(b) ==
  [kind  |-> IF b = << >> THEN "raw" ELSE "completion",
   text  |-> TextOf(b),
   usage |-> FirstUsage(b)]

(* extract_usage reads the usage of a body. *)
ExtractUsage(body) == body.usage

ErrorBody == [kind |-> "error", text |-> << >>, usage |-> NoUsage]
StreamingBody == [kind |-> "streaming", text |-> << >>, usage |-> NoUsage]

----------------------------------------------------------------------------
(* The start of a request, up to the push of its record *)

Respond(r, status, got, end) ==
  client' = [client EXCEPT ![r] = [status |-> status, got |-> got, end |-> end]]

Goto(r, from, to) == pc[r] = from /\ pc' = [pc EXCEPT ![r] = to]

(* GET /v1/models does not read the request body. *)
Arrive(r, m) ==
  /\ Goto(r, "idle", IF m = "models" THEN "routing" ELSE "reading")
  /\ mode' = [mode EXCEPT ![r] = m]
  /\ UNCHANGED <<store, buf, failed, client, pushed, unannounced>>

ReadBody(r) ==
  /\ Goto(r, "reading", "routing")
  /\ UNCHANGED <<store, mode, buf, failed, client, pushed, unannounced>>

(* The early returns: the body cannot be read, no backend, no provider.    *)
(* None of them leaves a record.                                           *)
Refuse(r) ==
  /\ \/ Goto(r, "reading", "done") /\ Respond(r, 400, << >>, "complete")
     \/ Goto(r, "routing", "done") /\ Respond(r, 503, << >>, "complete")
     \/ Goto(r, "routing", "done") /\ Respond(r, 500, << >>, "complete")
  /\ UNCHANGED <<store, mode, buf, failed, pushed, unannounced>>

Resolve(r) ==
  /\ Goto(r, "routing", "pushing")
  /\ UNCHANGED <<store, mode, buf, failed, client, pushed, unannounced>>

(* The backend's model is written into a body that is not an object, and   *)
(* v["model"] = ... panics: the connection is closed without an answer.    *)
OverridePanics(r) ==
  /\ mode[r] # "models"
  /\ Goto(r, "routing", "dropped")
  /\ client' = [client EXCEPT ![r].end = "aborted"]
  /\ UNCHANGED <<store, mode, buf, failed, pushed, unannounced>>

\* Variant of PushRecord: a request for the models is not recorded.
PushChat(r) ==
  /\ Goto(r, "pushing", "upstream")
  /\ store' = IF mode[r] = "models" THEN store ELSE Push(store, NewRecord(r))
  /\ pushed' = IF mode[r] = "models" THEN pushed ELSE Append(pushed, r)
  /\ UNCHANGED <<mode, buf, failed, client, unannounced>>

PushRecord(r) ==
  /\ Goto(r, "pushing", "upstream")
  /\ store' = Push(store, NewRecord(r))
  /\ pushed' = Append(pushed, r)
  /\ UNCHANGED <<mode, buf, failed, client, unannounced>>

----------------------------------------------------------------------------
(* The upstream's answer *)

Update(r, body, status, label) ==
  store' = UpdateResponse(store, r, body, status, label)

(* The event is sent only after the tokens are in, one await later. *)
AnswerPlain(r, c) ==
  /\ mode[r] = "plain"
  /\ Goto(r, "upstream", "tokens")
  /\ buf' = [buf EXCEPT ![r] = <<c>>]
  /\ Update(r, Reply(<<c>>), 200, "none")
  /\ unannounced' = unannounced \cup {r}
  /\ UNCHANGED <<mode, failed, client, pushed>>

RecordTokens(r) ==
  /\ Goto(r, "tokens", "done")
  /\ store' = UpdateTokens(store, r, ExtractUsage(Reply(buf[r])))
  /\ unannounced' = unannounced \ {r}
  /\ Respond(r, 200, buf[r], "complete")
  /\ UNCHANGED <<mode, buf, failed, pushed>>

(* c stands for the upstream's list with the routing aliases merged in. *)
AnswerModels(r, c) ==
  /\ mode[r] = "models"
  /\ Goto(r, "upstream", "done")
  /\ buf' = [buf EXCEPT ![r] = <<c>>]
  /\ Update(r, Reply(<<c>>), 200, "none")
  /\ Respond(r, 200, <<c>>, "complete")
  /\ UNCHANGED <<mode, failed, pushed, unannounced>>

\* Variant of AnswerError: the event is not sent.
AnswerErrorQuietly(r, status) ==
  /\ Goto(r, "upstream", "done")
  /\ Update(r, ErrorBody, status, "none")
  /\ unannounced' = unannounced \cup {r}
  /\ Respond(r, status, << >>, "complete")
  /\ UNCHANGED <<mode, buf, failed, pushed>>

\* Variant of AnswerError: the record is not updated.
AnswerErrorUnrecorded(r, status) ==
  /\ Goto(r, "upstream", "done")
  /\ Respond(r, status, << >>, "complete")
  /\ UNCHANGED <<store, mode, buf, failed, pushed, unannounced>>

AnswerError(r, status) ==
  /\ Goto(r, "upstream", "done")
  /\ Update(r, ErrorBody, status, "none")
  /\ Respond(r, status, << >>, "complete")
  /\ UNCHANGED <<mode, buf, failed, pushed, unannounced>>

AnswerStream(r) ==
  /\ mode[r] = "stream"
  /\ Goto(r, "upstream", "streaming")
  /\ Update(r, StreamingBody, 200, "streaming")
  /\ Respond(r, 200, << >>, "waiting")
  /\ UNCHANGED <<mode, buf, failed, pushed, unannounced>>

----------------------------------------------------------------------------
(* The recording stream: one action per poll of the response body *)

Streaming(r) == pc[r] = "streaming" /\ ~ failed[r]

\* Variant of StreamChunk: only the text of a chunk is kept.
StreamText(r, c) ==
  /\ Streaming(r)
  /\ Len(buf[r]) < MaxChunks
  /\ buf' = [buf EXCEPT ![r] = Append(@, c.text)]
  /\ client' = [client EXCEPT ![r].got = Append(@, c)]
  /\ UNCHANGED <<store, pc, mode, failed, pushed, unannounced>>

StreamChunk(r, c) ==
  /\ Streaming(r)
  /\ Len(buf[r]) < MaxChunks
  /\ buf' = [buf EXCEPT ![r] = Append(@, c)]
  /\ client' = [client EXCEPT ![r].got = Append(@, c)]
  /\ UNCHANGED <<store, pc, mode, failed, pushed, unannounced>>

\* Variant of StreamFail: stream_failed is not set.
StreamFailOpen(r, status) ==
  /\ Streaming(r)
  /\ Update(r, ErrorBody, status, "none")
  /\ client' = [client EXCEPT ![r].end = "aborted"]
  /\ UNCHANGED <<pc, mode, buf, failed, pushed, unannounced>>

StreamFail(r, status) ==
  /\ Streaming(r)
  /\ Update(r, ErrorBody, status, "none")
  /\ failed' = [failed EXCEPT ![r] = TRUE]
  /\ client' = [client EXCEPT ![r].end = "aborted"]
  /\ UNCHANGED <<pc, mode, buf, pushed, unannounced>>

(* A poll after the error ends the stream without another look at it. *)
StreamAfterFail(r) ==
  /\ failed[r]
  /\ Goto(r, "streaming", "done")
  /\ UNCHANGED <<store, mode, buf, failed, client, pushed, unannounced>>

\* Variant of StreamEnd: the stream_failed flag is not looked at.
StreamEndAnyway(r) ==
  /\ Goto(r, "streaming", "streamTokens")
  /\ Update(r, Reconstruct(buf[r]), 200, "none")
  /\ unannounced' = unannounced \cup {r}
  /\ UNCHANGED <<mode, buf, failed, client, pushed>>

StreamEnd(r) ==
  /\ Streaming(r)
  /\ Goto(r, "streaming", "streamTokens")
  /\ Update(r, Reconstruct(buf[r]), 200, "none")
  /\ unannounced' = unannounced \cup {r}
  /\ UNCHANGED <<mode, buf, failed, client, pushed>>

StreamTokens(r) ==
  /\ Goto(r, "streamTokens", "done")
  /\ store' = UpdateTokens(store, r, ExtractUsage(Reconstruct(buf[r])))
  /\ unannounced' = unannounced \ {r}
  /\ client' = [client EXCEPT ![r].end = "complete"]
  /\ UNCHANGED <<mode, buf, failed, pushed>>

(* hyper drops the handler, or the body it returned, when the client goes. *)
Disconnect(r) ==
  /\ pc[r] \notin {"idle", "done", "dropped"}
  /\ pc' = [pc EXCEPT ![r] = "dropped"]
  /\ UNCHANGED <<store, mode, buf, failed, client, pushed, unannounced>>

----------------------------------------------------------------------------
Answer(r) ==
  \/ \E c \in Chunk : AnswerPlain(r, c) \/ AnswerModels(r, c)
  \/ \E s \in ErrorStatuses : AnswerError(r, s)
  \/ AnswerStream(r)

Poll(r) ==
  \/ \E c \in Chunk : StreamChunk(r, c)
  \/ \E s \in IoStatuses : StreamFail(r, s)
  \/ StreamAfterFail(r)
  \/ StreamEnd(r)
  \/ StreamTokens(r)

Handle(r) ==
  \/ ReadBody(r) \/ Refuse(r) \/ Resolve(r) \/ OverridePanics(r)
  \/ PushRecord(r)
  \/ Answer(r) \/ RecordTokens(r) \/ Poll(r)

Next ==
  \E r \in Requests :
    \/ \E m \in Modes : Arrive(r, m)
    \/ Handle(r)
    \/ Disconnect(r)

Spec == Init /\ [][Next]_vars

(* Every handler that can take a step takes one in the end: tokio runs     *)
(* ready tasks, each provider's client has a timeout over the whole        *)
(* exchange, never below one second, and a client polls the body it is     *)
(* sent for as long as it stays.                                           *)
FairSpec == Spec /\ \A r \in Requests : WF_vars(Handle(r))

----------------------------------------------------------------------------
BodyKinds == {"none", "streaming", "error", "reply", "raw", "completion"}
Body == [kind : BodyKinds, text : Seq(Texts), usage : Usages \cup {NoUsage}]
Labels == {"none", "streaming"}
Record == [id : Requests, status : Statuses, label : Labels, body : Body,
           tokens : Usages \cup {NoUsage}]
View == [status : Statuses, got : Seq(Chunk), end : Ends]

(* The type invariant. *)
TypeOK ==
  /\ store \in Seq(Record)
  /\ pc \in [Requests -> Places]
  /\ mode \in [Requests -> Modes]
  /\ buf \in [Requests -> Seq(Chunk)]
  /\ failed \in [Requests -> BOOLEAN]
  /\ client \in [Requests -> View]
  /\ pushed \in Seq(Requests)
  /\ unannounced \subseteq Requests

Capacity == IF MaxLen = 0 THEN 1 ELSE MaxLen

(* The log is the last max_len records pushed, in the order they were      *)
(* pushed, whatever updates of theirs, of the evicted and of the dropped   *)
(* run in between.                                                         *)
StoreIsWindow ==
  /\ Len(store) = IF Len(pushed) < Capacity THEN Len(pushed) ELSE Capacity
  /\ \A i \in 1 .. Len(store) :
       store[i].id = pushed[Len(pushed) - Len(store) + i]

(* The record of a request whose handler has finished says what its client *)
(* got: the status and the body sent, or for a stream that broke the error *)
(* the client could only see as an aborted body.                           *)
Tells(rec, r) ==
  LET seen == client[r] IN
  \/ /\ mode[r] # "stream" /\ seen.status = 200
     /\ rec.status = 200 /\ rec.body = Reply(seen.got)
     /\ rec.tokens = IF mode[r] = "plain" THEN FirstUsage(seen.got) ELSE NoUsage
  \/ /\ seen.status # 200
     /\ rec.status = seen.status /\ rec.body = ErrorBody /\ rec.tokens = NoUsage
  \/ /\ mode[r] = "stream" /\ seen.end = "complete"
     /\ rec.status = 200 /\ rec.body = Reconstruct(seen.got)
     /\ rec.tokens = FirstUsage(seen.got)
  \/ /\ mode[r] = "stream" /\ seen.end = "aborted"
     /\ rec.status \in IoStatuses /\ rec.body = ErrorBody /\ rec.tokens = NoUsage

RecordTellsOutcome ==
  \A i \in 1 .. Len(store) :
    pc[store[i].id] = "done" =>
      store[i].label = "none" /\ Tells(store[i], store[i].id)

(* A change of a record still to be announced to the console belongs to a  *)
(* handler between its two updates, or to one dropped there: a finished    *)
(* handler has announced everything it wrote.                              *)
DoneIsAnnounced ==
  \A r \in unannounced : pc[r] \in {"tokens", "streamTokens", "dropped"}

(* What ties the record of a request to its handler at each await.         *)
RecordAt(rec, r) ==
  /\ pc[r] = "upstream" =>
       rec.status = 0 /\ rec.label = "none" /\ rec.tokens = NoUsage
  /\ pc[r] = "tokens" =>
       /\ rec.status = 200 /\ rec.label = "none"
       /\ rec.body = Reply(buf[r]) /\ rec.tokens = NoUsage
  /\ Streaming(r) => rec.label = "streaming" /\ rec.tokens = NoUsage
  /\ pc[r] = "streaming" /\ failed[r] =>
       /\ rec.status \in IoStatuses /\ rec.label = "none"
       /\ rec.body = ErrorBody /\ rec.tokens = NoUsage
  /\ pc[r] = "streamTokens" =>
       /\ rec.status = 200 /\ rec.label = "none"
       /\ rec.body = Reconstruct(buf[r]) /\ rec.tokens = NoUsage
  /\ pc[r] = "done" => rec.label = "none" /\ Tells(rec, r)

BeforePush == {"idle", "reading", "routing", "pushing"}

(* What ties the bytes a handler holds to what its client has seen.        *)
HandlerAt(r) ==
  /\ pc[r] \in BeforePush \cup {"upstream"} => buf[r] = << >>
  /\ pc[r] = "tokens" => mode[r] = "plain"
  /\ pc[r] \in {"streaming", "streamTokens"} =>
       mode[r] = "stream" /\ client[r].status = 200 /\ client[r].got = buf[r]
  /\ failed[r] => pc[r] \in {"streaming", "done", "dropped"}
  /\ pc[r] = "streaming" /\ failed[r] => client[r].end = "aborted"

PushedOnce ==
  /\ \A i \in 1 .. Len(pushed) : pc[pushed[i]] \notin BeforePush
  /\ \A i, j \in 1 .. Len(pushed) : pushed[i] = pushed[j] => i = j

(* The inductive invariant: the log is a window on the pushes, each        *)
(* request is pushed once, and every record in the log fits the place its  *)
(* handler has reached, which is what makes a late or a misdirected update *)
(* impossible.                                                             *)
Inv ==
  /\ TypeOK
  /\ StoreIsWindow
  /\ PushedOnce
  /\ \A r \in Requests : HandlerAt(r)
  /\ \A i \in 1 .. Len(store) : RecordAt(store[i], store[i].id)
  /\ DoneIsAnnounced

Settled(rec) == rec.status # 0 /\ rec.label = "none"

(* A record that has its final status keeps its status and its body, and   *)
(* its tokens once it has them, until it is evicted: no late chunk, error  *)
(* or end of stream rewrites it.                                           *)
Keeps(old, new) ==
  old.id = new.id /\ Settled(old) =>
    /\ new.status = old.status /\ new.label = old.label /\ new.body = old.body
    /\ old.tokens # NoUsage => new.tokens = old.tokens

SettledStays ==
  [][\A i \in 1 .. Len(store), j \in 1 .. Len(store') :
       Keeps(store[i], store'[j])]_vars

(* Put together, the handlers and the log implement CallLog: each call is  *)
(* entered once and gets one whole outcome, however many updates, chunks   *)
(* and evictions it takes; a reply still streaming has none.               *)
OpenOutcome == [status |-> 0, body |-> NoBody]
OutcomeOf(rec) ==
  IF Settled(rec) THEN [status |-> rec.status, body |-> rec.body] ELSE OpenOutcome
Shown(s) ==
  [i \in 1 .. Len(s) |-> [id |-> s[i].id, outcome |-> OutcomeOf(s[i])]]
Entered == {pushed[i] : i \in 1 .. Len(pushed)}

Calls == INSTANCE CallLog
  WITH Calls <- Requests, Room <- Capacity, Open <- OpenOutcome,
       Outcomes <- [status : Statuses \ {0}, body : Body],
       log <- Shown(store), entered <- Entered
ImplementsCallLog == Calls!Spec

(* Every call recorded gets its final status in the record, unless the     *)
(* record is evicted or the client leaves first.                           *)
Holds(r) == \E i \in 1 .. Len(store) : store[i].id = r
Shows(r) == \E i \in 1 .. Len(store) : store[i].id = r /\ Settled(store[i])
EveryCallSettles ==
  \A r \in Requests :
    Holds(r) ~> Shows(r) \/ ~ Holds(r) \/ pc[r] = "dropped"

(* What the log leaves out: an answer that is no recorded call's is one of *)
(* the refusals 400, 500 and 503, a recorded call never ends in one of     *)
(* those but of the upstream's own making, and a client that loses its     *)
(* connection to a panic before an answer leaves no record.                *)
AnswersAccountedFor ==
  \A r \in Requests :
    IF r \in Entered
    THEN /\ client[r].status \in {0, 200} \cup ErrorStatuses
         /\ client[r].end = "aborted" => client[r].status = 200
    ELSE client[r].status \in {0} \cup RefusalStatuses
=============================================================================
