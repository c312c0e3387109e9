-------------------------- MODULE GeminiSignatures --------------------------
(***************************************************************************)
(* src/providers/gemini/: thought signatures of a conversation.  Gemini    *)
(* signs its replies and wants each signature back with the conversation,  *)
(* but a client of the OpenAI API drops fields it does not know.  So the   *)
(* provider takes the signatures out of a reply and puts them in a cache,  *)
(* under the id of the tool call they belong to or, for a message, under   *)
(* an id of its own, which it hides in the text; and looks them up again   *)
(* when the client sends the conversation back.                            *)
(*                                                                         *)
(* The pool has one provider for each backend, and each provider a cache   *)
(* of its own, which all conversations routed there share.  An edit of the *)
(* backends clears the pool: later requests get new providers with empty   *)
(* caches, requests under way keep the old one.  The cache is the one of   *)
(* TtlMap, which LruTtlCache is shown to implement; its mutex is taken,    *)
(* and the clock read, once for each put and each get.                     *)
(*                                                                         *)
(* The n-th signature issued is the number n.  A text is a sequence of     *)
(* parts.  The upstream writes "text", "nl" (a line end), "open" and       *)
(* "close" (<think> and </think>), and "plain" (a piece that begins with   *)
(* SIGID: and whose id is no key of the cache); the provider adds marks    *)
(* <think>SIGID:id</think>, which are the parts [sig |-> id], and before a *)
(* mark that does not come first a line end of its own, "br".              *)
(* Calls that are not signed are left out: nothing is put for them.        *)
(***************************************************************************)
EXTENDS TtlMap, Sequences, SequencesExt, Sift

CONSTANTS
  Convs,       \* conversations
  CallIds,     \* ids the upstream gives to tool calls
  Backends,    \* Gemini backends that requests may be routed to
  Contents,    \* what the content of a delta (or of a whole reply that is
               \* no stream) may be
  MaxReplies,  \* bound on the replies of a conversation
  MaxDeltas,   \* bound on the deltas of a reply
  MaxSignatures, \* bound on the signatures issued
  MaxClears,   \* bound on how often the pool is cleared
  MaxNow       \* bound on the clock

Text(part) == [part |-> part]
WrittenParts == {Text("text"), Text("nl"), Text("open"), Text("close"), Text("plain")}

ASSUME SignatureAssumption ==
  /\ None \notin Nat
  /\ MaxEntries \in Nat /\ Ttl \in Nat /\ MaxReplies \in Nat
  /\ MaxDeltas \in Nat /\ MaxSignatures \in Nat /\ MaxClears \in Nat /\ MaxNow \in Nat
  /\ \A d \in Contents : d \in Seq(WrittenParts)

VARIABLES
  now,      \* Instant::now()
  clears,   \* how often the pool was cleared
  caches,   \* the cache of each provider, as its writes
  replies,  \* what the client of each conversation has received
  where,    \* where the request of each conversation is
  origin    \* history: for each signature where it comes from

vars == <<now, clears, caches, replies, where, origin>>

(* A provider: that of a backend, since so many clears. *)
Providers == Backends \X (0 .. MaxClears)

CallKey(id) == <<"call", id>>
MessageKey(n) == <<"tsig", n>>  \* new_sig_id: never given twice

Block(n) == [part |-> "sig", key |-> MessageKey(n)]

Idle == [at |-> "idle"]
\* wrote is history: the content as the upstream wrote it.
NoReply == [content |-> << >>, wrote |-> << >>, calls |-> << >>, callSigs |-> << >>,
            messageSigs |-> << >>, deltas |-> 0]

Init ==
  /\ now = 0
  /\ clears = 0
  /\ caches = [p \in Providers |-> << >>]
  /\ replies = [c \in Convs |-> << >>]
  /\ where = [c \in Convs |-> Idle]
  /\ origin = << >>

----------------------------------------------------------------------------
(* strip_think_sigids_and_plain_lines *)

Closes(p) == p.part \in {"close", "sig"}
EndsLine(p) == p.part \in {"nl", "br"}

(* From an open to what closes it next, a mark too; the mark is a block of *)
(* its own otherwise.  An open that nothing closes is text.                *)
InThink(s) ==
  {i \in DOMAIN s :
     \/ s[i].part = "sig"
     \/ \E j, k \in DOMAIN s :
          /\ j <= i /\ i <= k
          /\ s[j].part = "open" /\ Closes(s[k])
          /\ \A m \in j .. k - 1 : ~ Closes(s[m])}

WithoutThink(s) == Sift(s, DOMAIN s \ InThink(s))

(* From a SIGID: that begins a line to the end of that line. *)
InPlainLine(s) ==
  {i \in DOMAIN s :
     \E j \in DOMAIN s :
       /\ j <= i
       /\ s[j].part = "plain" /\ (j > 1 => EndsLine(s[j - 1]))
       /\ \A m \in j .. i - 1 : ~ EndsLine(s[m])}

WithoutPlain(s) == Sift(s, DOMAIN s \ InPlainLine(s))

(* str::lines and join: a line end at the end is dropped. *)
WithoutLastNl(s) ==
  IF s # << >> /\ EndsLine(s[Len(s)]) THEN SubSeq(s, 1, Len(s) - 1) ELSE s

Cleaned(s) == WithoutLastNl(WithoutPlain(WithoutThink(s)))

(* The marks that close an open before them: of the lines inside, the one  *)
(* with the mark does not begin with SIGID:, and its id is not returned.   *)
Hidden(s) ==
  {i \in DOMAIN s :
     /\ s[i].part = "sig"
     /\ \E j \in 1 .. i - 1 :
          s[j].part = "open" /\ \A m \in j .. i - 1 : ~ Closes(s[m])}

(* The ids it returns: those of the marks that are not hidden. *)
Marks(s) == Sift(s, {i \in DOMAIN s : s[i].part = "sig"} \ Hidden(s))

----------------------------------------------------------------------------
(* The request: prepare_request_body *)

(* The conversation so far is sent again, to a backend that the routing    *)
(* chooses; get_or_create is atomic.                                       *)
Request(c) ==
  /\ where[c].at = "idle"
  /\ Len(replies[c]) <= MaxReplies
  /\ \E b \in Backends :
       where' = [where EXCEPT ![c] = [at |-> "injecting", prov |-> <<b, clears>>,
                                      sent |-> << >>, found |-> << >>]]
  /\ UNCHANGED <<now, clears, caches, replies, origin>>

(* What is looked up for a reply: its marks, then its calls. *)
Keys(r) ==
  [i \in DOMAIN Marks(r.content) |-> Marks(r.content)[i].key]
  \o [j \in DOMAIN r.calls |-> CallKey(r.calls[j])]

\* The number of the reply that is prepared.
InHand(c) == Len(where[c].sent) + 1

\* Variant of LookUp: in the cache of the provider that the pool has now.
LookUpInPool(c) ==
  /\ where[c].at = "injecting"
  /\ InHand(c) \in DOMAIN replies[c]
  /\ LET keys == Keys(replies[c][InHand(c)])
         i    == Len(where[c].found) + 1
     IN  /\ i \in DOMAIN keys
         /\ where' = [where EXCEPT ![c].found =
              Append(@, Lookup(caches[<<where[c].prov[1], clears>>], keys[i], now))]
  /\ UNCHANGED <<now, clears, caches, replies, origin>>

(* One get; other threads use the cache before and after it. *)
LookUp(c) ==
  /\ where[c].at = "injecting"
  /\ InHand(c) \in DOMAIN replies[c]
  /\ LET keys == Keys(replies[c][InHand(c)])
         i    == Len(where[c].found) + 1
     IN  /\ i \in DOMAIN keys
         /\ where' = [where EXCEPT ![c].found =
                        Append(@, Lookup(caches[where[c].prov], keys[i], now))]
  /\ UNCHANGED <<now, clears, caches, replies, origin>>

\* Variant of LastFound: the first one found is kept.
FirstFound(f, n) ==
  LET found == {i \in 1 .. n : f[i] # None}
  IN  IF found = {} THEN None ELSE f[Min(found)]

(* Of the n marks, the last whose signature was found counts. *)
LastFound(f, n) ==
  LET found == {i \in 1 .. n : f[i] # None}
  IN  IF found = {} THEN None ELSE f[Max(found)]

(* What the upstream gets for a reply r, of whose keys f was found; at and *)
(* issued are history.                                                     *)
Restored(r, f) ==
  LET n == Len(Marks(r.content)) IN
  [message |-> LastFound(f, n),
   calls   |-> [j \in DOMAIN r.calls |-> f[n + j]],
   content |-> Cleaned(r.content),
   at      |-> now,
   issued  |-> Len(origin)]

(* The end of a message: the loop goes on with the next. *)
Inject(c) ==
  /\ where[c].at = "injecting"
  /\ InHand(c) \in DOMAIN replies[c]
  /\ LET r == replies[c][InHand(c)] IN
     /\ Len(where[c].found) = Len(Keys(r))
     /\ where' = [where EXCEPT ![c].sent  = Append(@, Restored(r, where[c].found)),
                               ![c].found = << >>]
  /\ UNCHANGED <<now, clears, caches, replies, origin>>

Send(c) ==
  /\ where[c].at = "injecting"
  /\ Len(where[c].sent) = Len(replies[c])
  /\ Len(replies[c]) < MaxReplies
  /\ where' = [where EXCEPT ![c] = [at |-> "answering", prov |-> @.prov,
                                    sent |-> @.sent, reply |-> NoReply]]
  /\ UNCHANGED <<now, clears, caches, replies, origin>>

----------------------------------------------------------------------------
(* The reply: a delta of a stream, or the message of a reply that is none, *)
(* is one step for each signature in it, its calls first.                  *)

(* put: the next signature, under the key. *)
Put(c, key) ==
  LET p == where[c].prov
      n == Len(origin) + 1
  IN  /\ n <= MaxSignatures
      /\ caches' = [caches EXCEPT ![p] = Write(@, key, n, now, n)]
      /\ origin' = Append(origin, [key |-> key, prov |-> p, at |-> now])

Receiving(c) == where[c].at = "answering" /\ where[c].reply.deltas < MaxDeltas

(* cache_tool_call_signatures *)
ToolCall(c, id) ==
  /\ Receiving(c)
  /\ Put(c, CallKey(id))
  /\ LET r == where[c].reply IN
     where' = [where EXCEPT ![c].reply = [r EXCEPT !.calls    = Append(@, id),
                                                   !.callSigs = Append(@, Len(origin) + 1),
                                                   !.deltas   = @ + 1]]
  /\ UNCHANGED <<now, clears, replies>>

\* Variant of Marked: the mark replaces the text.
MarkedOver(content, n) == <<Block(n)>>

(* append_sigid_to_content_container *)
Marked(content, n) ==
  IF content = << >> THEN <<Block(n)>> ELSE content \o <<Text("br"), Block(n)>>

(* cache_message_level_signature *)
SignedMessage(c, d) ==
  /\ Receiving(c)
  /\ LET r == where[c].reply
         n == Len(origin) + 1
     IN  /\ Put(c, MessageKey(n))
         /\ where' = [where EXCEPT ![c].reply = [r EXCEPT !.content     = @ \o Marked(d, n),
                                                          !.wrote       = @ \o d,
                                                          !.messageSigs = Append(@, n),
                                                          !.deltas      = @ + 1]]
  /\ UNCHANGED <<now, clears, replies>>

(* A message without a signature passes as it is. *)
Message(c, d) ==
  /\ Receiving(c)
  /\ LET r == where[c].reply IN
     where' = [where EXCEPT ![c].reply = [r EXCEPT !.content = @ \o d,
                                                   !.wrote   = @ \o d,
                                                   !.deltas  = @ + 1]]
  /\ UNCHANGED <<now, clears, caches, replies, origin>>

\* Variant of Finish: the request is over, what it held stays.
FinishAndHold(c) ==
  /\ where[c].at = "answering" /\ where[c].reply.deltas > 0
  /\ replies' = [replies EXCEPT ![c] = Append(@, where[c].reply)]
  /\ where' = [where EXCEPT ![c].at = "idle"]
  /\ UNCHANGED <<now, clears, caches, origin>>

(* The client keeps what it got when the reply is over. *)
Finish(c) ==
  /\ where[c].at = "answering" /\ where[c].reply.deltas > 0
  /\ replies' = [replies EXCEPT ![c] = Append(@, where[c].reply)]
  /\ where' = [where EXCEPT ![c] = Idle]
  /\ UNCHANGED <<now, clears, caches, origin>>

(* An error, or a client that leaves, ends a reply that nobody keeps. *)
Abandon(c) ==
  /\ where[c].at # "idle"
  /\ where' = [where EXCEPT ![c] = Idle]
  /\ UNCHANGED <<now, clears, caches, replies, origin>>

----------------------------------------------------------------------------
(* ProviderPool::clear *)
Clear ==
  /\ clears < MaxClears
  /\ clears' = clears + 1
  /\ UNCHANGED <<now, caches, replies, where, origin>>

Tick ==
  /\ now < MaxNow
  /\ now' = now + 1
  /\ UNCHANGED <<clears, caches, replies, where, origin>>

Next ==
  \/ \E c \in Convs :
       \/ Request(c) \/ LookUp(c) \/ Inject(c) \/ Send(c)
       \/ \E id \in CallIds : ToolCall(c, id)
       \/ \E d \in Contents : SignedMessage(c, d) \/ Message(c, d)
       \/ Finish(c) \/ Abandon(c)
  \/ Clear
  \/ Tick

Spec == Init /\ [][Next]_vars

----------------------------------------------------------------------------
Signatures == 1 .. Len(origin)
MessageKeys == {MessageKey(n) : n \in Signatures}
Parts == WrittenParts \cup {Text("br")} \cup [part : {"sig"}, key : MessageKeys]
Reply == [content : Seq(Parts), wrote : Seq(WrittenParts), calls : Seq(CallIds),
          callSigs : Seq(Signatures), messageSigs : Seq(Signatures), deltas : 0 .. MaxDeltas]
Sent == [message : Signatures \cup {None}, calls : Seq(Signatures \cup {None}),
         content : Seq(Parts), at : 0 .. MaxNow, issued : 0 .. Len(origin)]

(* The type invariant. *)
TypeOK ==
  /\ now \in 0 .. MaxNow /\ clears \in 0 .. MaxClears
  /\ \A p \in Providers : \A k \in DOMAIN caches[p] :
       /\ k \in MessageKeys \cup {CallKey(id) : id \in CallIds}
       /\ caches[p][k].value \in Signatures
  /\ replies \in [Convs -> Seq(Reply)]
  /\ \A c \in Convs :
       \/ where[c] = Idle
       \/ where[c] \in [at : {"injecting"}, prov : Providers, sent : Seq(Sent),
                        found : Seq(Signatures \cup {None})]
       \/ where[c] \in [at : {"answering"}, prov : Providers, sent : Seq(Sent), reply : Reply]
  /\ \A n \in Signatures : origin[n].prov \in Providers /\ origin[n].at \in 0 .. now

(* Everything the upstream has been sent for a reply: a pair of the two.   *)
Echoes(c) ==
  IF where[c].at = "idle" THEN {}
  ELSE {[sent |-> where[c].sent[i], reply |-> replies[c][i], prov |-> where[c].prov] :
          i \in DOMAIN where[c].sent}

(* A message gets back one of its own signatures or none, never one of     *)
(* another conversation.  A tool call gets one that the provider asked was *)
(* given under the call's id; where that provider also has the call's own, *)
(* that or a later one: ids that are given twice overwrite each other.     *)
OwnSignatureOrNone ==
  \A c \in Convs : \A e \in Echoes(c) :
    /\ e.sent.message # None =>
         \E i \in DOMAIN e.reply.messageSigs : e.sent.message = e.reply.messageSigs[i]
    /\ \A j \in DOMAIN e.reply.calls : e.sent.calls[j] # None =>
         /\ origin[e.sent.calls[j]].key = CallKey(e.reply.calls[j])
         /\ origin[e.sent.calls[j]].prov = e.prov
         /\ origin[e.reply.callSigs[j]].prov = e.prov =>
              e.sent.calls[j] >= e.reply.callSigs[j]

(* Why the signature n may be missing from a request: it was issued by     *)
(* another backend's provider, or by one from before a clear of the pool;  *)
(* or Ttl or longer before; or MaxEntries others were put in the cache     *)
(* after it; or its mark is in a block of thoughts that was left open.     *)
Missing(n, e) ==
  \/ origin[n].prov # e.prov
  \/ e.sent.at - origin[n].at >= Ttl
  \/ /\ MaxEntries > 0
     /\ Cardinality({origin[m].key : m \in {m \in n + 1 .. e.sent.issued :
                       origin[m].prov = e.prov}} \ {origin[n].key}) >= MaxEntries
  \/ \E i \in Hidden(e.reply.content) : e.reply.content[i].key = MessageKey(n)

(* No signature goes missing for another reason, whatever the shape of the *)
(* reply and whatever other conversations put in the cache meanwhile, also *)
(* between two gets for one message: the signature sent is the last of the *)
(* message's own that is not missing.                                      *)
LostForAReason ==
  \A c \in Convs : \A e \in Echoes(c) :
    /\ \A i \in DOMAIN e.reply.messageSigs :
         e.sent.message = None \/ e.sent.message < e.reply.messageSigs[i] =>
           Missing(e.reply.messageSigs[i], e)
    /\ \A j \in DOMAIN e.reply.calls :
         e.sent.calls[j] = None => Missing(e.reply.callSigs[j], e)

Worded(s) == Sift(s, {i \in DOMAIN s : ~ EndsLine(s[i])})

(* No mark reaches the upstream, be its signature found or lost; and marks *)
(* leave no trace: but for line ends, the upstream gets what it wrote      *)
(* without its blocks of thoughts.  That fails for a mark that closes a    *)
(* block left open, which takes the text between with it, and for lines    *)
(* that begin with SIGID:, which go too.                                   *)
TextComesBack ==
  \A c \in Convs : \A e \in Echoes(c) :
    /\ \A i \in DOMAIN e.sent.content : e.sent.content[i].part # "sig"
    /\ /\ Hidden(e.reply.content) = {}
       /\ \A i \in DOMAIN e.reply.wrote : e.reply.wrote[i].part # "plain"
       => Worded(e.sent.content) = Worded(WithoutThink(e.reply.wrote))
=============================================================================
