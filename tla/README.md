# Pomfret in TLA+

Pomfret is a gateway in one process. It accepts OpenAI-style requests, picks one
of several LLM backends by routing rules, forwards the request, streams or
returns the reply, and keeps the last requests in memory for a web console that
also edits the backends and the routing. These modules model what can go wrong
when many requests, console pages and failures interleave. Paths below are
relative to the repository.

## Inventory

| Component | State it keeps | Operations | What makes it correct |
|---|---|---|---|
| Proxy, `src/proxy/openai.rs` | one future per request; for a stream its bytes so far and `stream_failed` | `handle_chat_completions` (plain, stream), `handle_models` | each recorded call ends with its final status; the record says what the client got; nothing rewrites it afterwards |
| Request log, `src/store/memory.rs` | a deque of records under one `RwLock` | `push`, `update_response`, `update_tokens`; queries `get`, `list`, `search_request_ids`, `get_stats`, `get_timeseries` | the last `max_len` pushes in order; an update touches its own record or nothing |
| Routing, `src/routing.rs` | `RoutingConfig` (rules, default) | `rule_matches`, `select_backend`, `resolve_backend`, load, save | the first rule that matches and finds a backend decides; a request is served when a backend exists |
| Backends and state, `src/config.rs` | list of backends, routing, round-robin counter | add, update, delete, `next_round_robin`, load, save | edits hit the backend meant; turns are even |
| Provider pool, `src/web/provider_pool.rs` | map from backend id to provider | `get_or_create`, `clear` | a provider has its backend's current settings |
| Console API, `src/web/api.rs` | none; `broadcast` channel of events | list, edit, save, `notify` (long poll) | a console learns of every change in the end |
| LRU-TTL cache, `src/cache/lru_ttl.rs` | a map and a deque under one mutex | `put`, `get`, expiry | the two agree; bounded; nothing lost early |
| Gemini provider, `src/providers/gemini/` | per provider a cache of thought signatures; per stream the bytes of an unfinished line | strip signatures from replies, put them back into requests | the client gets the same lines wherever the bytes are cut; a message gets its own signature back or, for a reason that can be named, none |
| Other providers, `src/providers/` | none | HTTP calls | a timeout over the whole exchange |
| Console page, `static/js/app.js` | the list it shows, its loads and timers | poll, interval every 10 s, edits by row index | shows in the end what the server has |
| Files and startup, `src/config.rs`, `src/routing.rs`, `src/main.rs` | `backends.conf`, `routing.conf` | save from the console, read at the start | a restart has what was last saved; a damaged file is the only reason not to start |

How they interact: a handler of the proxy reads the routing, then the backends,
then takes a provider from the pool, each under a lock of its own; then pushes a
record, awaits the provider, and updates the record once or twice; after each
change it sends an event to the channel the console's long poll listens on. A
console edit changes the backends under their lock, then clears the pool, then
sends an event. Every handler runs on tokio's thread pool, may be suspended at
any await, and is dropped there if its client goes away.

The hard behaviours follow: reads that are stale when used (settings, list
indices), several updates of one record with other requests in between, streams
that break half-way, handlers that are dropped, an event that nobody is
listening for, and files written in several steps. `PROJECT.json` lists each
with its line under `hazards`.

## Modules

| Module | Models | Checked by |
|---|---|---|
| `MemoryStore` | the three operations that change the log, as operators on a deque | `ChatProxy` |
| `ChatProxy` (uses `MemoryStore`) | both handlers against one log: one action from each await to the next | `MCChatProxy*.cfg`, `ChatProxyProofs` |
| `CallLog` | abstract: what the log promises the console | `ChatProxy` implements it |
| `ChatProxyProofs` | theorems about `ChatProxy`, and the refinement of `CallLog` | TLAPS |
| `Routing` | which backend a request goes to, as functions | `BackendPool` |
| `BackendPool` (uses `Routing`) | backends, routing, counter, pool; requests being resolved against consoles editing | `MCBackendPool*.cfg`, `BackendPoolProofs` |
| `BackendPoolProofs` | its theorems | TLAPS |
| `TtlMap`, `TtlStore` | abstract: what a caller of the cache can rely on, as operators and as a specification | `LruTtlCache` implements them |
| `LruTtlCache` | the cache with its clock | `MCLruTtlCache.cfg`, `LruTtlCacheProofs` |
| `LruTtlCacheProofs` | its theorems, and the refinement | TLAPS |
| `Sift` | what is left of a sequence when only some of its places are kept | `LruTtlCache`, `GeminiStream`, `GeminiSignatures`, `Algorithms` |
| `CommonFacts` | facts about naturals and about `Sift` that several proofs use | TLAPS |
| `GeminiStream` | the line buffer of a Gemini stream | `MCGeminiStream*.cfg`, `GeminiStreamProofs` |
| `GeminiSignatures` (uses `TtlMap`) | signatures from reply to request, over the caches of several backends and a pool that is cleared, and the texts that carry their marks | `MCGeminiSignatures.cfg`, `GeminiSignaturesProofs` |
| `ConfigFiles` | either file against the memory: saves, failures, crashes, starts | `MCConfig*.cfg`, `ConfigFilesProofs` |
| `Notify` | the event channel, the long poll, a page with its loads and timers | `MCNotify.cfg`, `ConsoleProofs` |
| `GeminiStreamProofs`, `GeminiSignaturesProofs`, `ConfigFilesProofs` | their theorems | TLAPS |
| `LogQueries`, `SseRebuild`, `ModelAliases` | pure algorithms, as operators; a loop as what it starts from and the body of one turn | `Algorithms` |
| `Algorithms` | runs them on inputs that grow piece by piece and says what they are for | `MCAlgorithms.cfg`, `ConsoleProofs` |
| `ConsoleProofs` | theorems about `Notify` and `Algorithms`: what a page and a client are shown | TLAPS |

A definition whose comment starts with "Variant of" is a wrong version of the
one it names, a mistake the code could have made. No specification uses it; it
is there to show that a property notices the mistake when it is put in place of
the right one (`mutants` in `PROJECT.json`).

### ChatProxy and CallLog

`pc[r]` is the await a handler is at: `reading` the body, `routing`, `pushing`
its record, `upstream`, `tokens` (between the two updates of a plain reply),
`streaming`, `streamTokens`, then `done`, or `dropped`. An action is the code
from one await to the next: what precedes the lock of the log changes nothing
others see and belongs to the action that takes the lock. `PushRecord` is
`store.push`; `AnswerPlain` and `RecordTokens` are the two updates of a plain
reply; `AnswerModels`, `AnswerError` and `AnswerStream` the other arms of the
match. The recording stream (`unfold`) is one action per poll: `StreamChunk`,
`StreamFail`, `StreamAfterFail` (the poll that finds `stream_failed`),
`StreamEnd`, `StreamTokens`. `Refuse` is the early returns with 400, 503 and
500, `OverridePanics` the assignment `v["model"] = ...` on a body that is not an
object. `Disconnect`, at every await, is hyper dropping the handler or the body.

A chunk is a text and possibly a usage; a body is its kind, its texts in order
and the usage found in it. How the lines of a real stream become a body is
`SseRebuild`. `client` is what the client sees; `pushed` and `unannounced` are
history. Which backend serves a request is left to `BackendPool`; the upstream
answers or fails as it likes.

`CallLog` has two actions: a call enters the log, which drops its oldest, and a
call in the log gets its outcome, once and whole. `ChatProxy` maps to it by
`Shown` (a record is its id and its outcome; tokens are not shown, and what a
stream writes while it runs counts as open) and `Entered`; every await of a
handler but two is a stutter.

### BackendPool

A request reads the routing (`ReadRouting`), then the backends and selects one
(`Choose`), then asks the pool (`GetOrCreate`, or `GiveUp` when the provider
cannot be made or the model override panics). A console edit (`UpdateBackend`,
`DeleteBackend`, `AddBackend`) changes the backends and puts the console in
`clearing`; `ClearPool` is a step of its own, because other threads run between
the two. `ListBackends` is a page loading the list, whose row index it will send
with an edit. A backend is its id and `ver`, the number of the edit that last
changed it, and a provider the `ver` it was made from. History: `late`, the ids
whose provider was made from settings already replaced; `aim`, which backend the
last edit meant, which it hit, and whether the page had lost one above it;
`share`, the turns each backend got. A refused request keeps the routing and the
list it was refused with.

### LruTtlCache and TtlStore

`Put` and `Get` are one action each, the mutex being held throughout, and `Tick`
moves the monotone clock. `written` is history: the last put of each key.
`TtlStore` has neither deque nor removal: a lookup finds the last value put
under a key unless it was put `Ttl` ago or longer, or `MaxEntries` other keys
were put since. `answer` carries the key asked for, so that a wrong answer
cannot pass for a right one to another question.

### GeminiStream and GeminiSignatures

`GeminiStream` cuts the bytes of a stream into chunks in every way. A line is
two pieces and its end, so that a cut may fall in a line, at its end and between
`\r` and `\n`. `Chunk`, `Fail`, `Flush` and `End` are the arms of the `unfold` in
`wrap_sse_stream`; `Pass` is `transform_sse_chunk_cache_strip`: what precedes the
last newline is rewritten if the marker is in it, the rest is kept back.

`GeminiSignatures` follows the signatures themselves. A reply comes in deltas, or
at once: `ToolCall` caches the signature of a call under the call's id,
`SignedMessage` one of its own under a new id, and appends the mark
`<think>SIGID:id</think>` to the text, `Message` lets a text pass. `Request` takes
the provider of any backend (which one is for `BackendPool`), the one the pool
has now, and with it that provider's cache. `LookUp` is one `get`: the cache's
mutex is taken and the clock read for each mark and each call, and puts of
others and the expiry come in between. `Inject` ends a message: the last
signature that was found counts, the text goes out as `Cleaned` leaves it.
`Clear` empties the pool, which gives later requests new caches; requests under
way keep the old one. Caches are those of `TtlMap`, which the refinement of
`LruTtlCache` justifies.

A text is a sequence of parts: `<think>`, `</think>`, line ends, a piece that
begins with `SIGID:`, any other piece, and marks. On these `WithoutThink`,
`WithoutPlain` and `WithoutLastNl` do what `strip_think_sigids_and_plain_lines`
does on characters: a `<think>` goes up to the next `</think>`, the one of a mark
too, in which case the mark's id is not found (`Hidden`), and stays where nothing
closes it; a line that begins with `SIGID:` goes; so does a line end at the end.
`wrote` is history: the text as the upstream wrote it. Not told apart: contents
that are arrays, whose parts the code cleans one by one, and tokens that are
split between two deltas. The id in a piece the upstream begins with `SIGID:` is
taken to be no key of a cache, since keys are random or ids of calls. A call
without a signature puts nothing and is left out.

### ConfigFiles

The two files share no state, so a behaviour follows one of them, chosen by
`Init`. A text is a sequence of cells, one per backend or rule. `fs::write` is
`Open` (truncate) and one or several `Write`s at the writer's own offset, so two
writers may leave the text of one with the tail of the other's. `Done` is what
the handler does after it: `update_routing` sets the memory, `config_save` does
not, having read it before. `Dropped` is `update_routing` ending at the await of
the rules' lock, because its client has left: the file is written, the memory is
not set. `Crash` may come anywhere; `Start` is
`resolve_config` and the loading of the routing, `Parsed` the outcomes a cut
text may have in the TOML parser. `saved` and `damage` are history: what the last
save that wrote its whole text wrote, and whether it was dropped before it was
confirmed, or an overlap, a failure or a crash came since.

### Notify

`Change` and `Announce` are the two steps of a handler; a handler of the proxy
that is dropped between them leaves a change `Unannounced`. The long poll subscribes
anew each time (`Subscribe`), waits for one event or its timeout (`Receive`,
`Timeout`), takes what else is there (`Drain`), and is answered; the page then
loads what the events name (`Answer`). A load is read by the server (`Read`) and
delivered (`Deliver`) in any order with others, or fails. `Fallback` is the
interval of 10 s, `Reload` the forced loads after a reconnection or the page's
own edits, `Focus` the user entering or leaving a field, which holds back loads of the
backends. `missed` is history: it becomes true where a page loses something.

### Algorithms

A query reads the log under one lock, and the other two work on a copy, so what
they compute is a function of their input. Each is modelled as its loop: `Count`
is one turn of `get_stats` (for every `since` asked for) and of
`get_timeseries` (for every number of hours and of seconds), `Feed` one of
`reconstruct_from_sse`, `AddRule` and `Merge` one of the two loops of
`handle_models`. The input gets the piece that the turn looks at in the same
step, so what a loop has so far stands beside the input it has had, TLC visits
every input up to a length, and a property that holds in every state holds of
every result. `Search` and `List` have no such state and are functions of the
log. `now` is read before the lock, so a record may be later than the window.
Arithmetic is that of a release build, modulo `Width`; a debug build panics
where it wraps, with `hours = 0` in `get_timeseries` for example.

## Runs

| Run | Instance | Shows |
|---|---|---|
| `chat` | 3 requests, log of 2, 2 chunks | the log is the window of the last pushes; a finished record tells what its client got; every change announced; what has no record had no upstream call; a settled record is never rewritten; the whole implements `CallLog`; the inductive invariant of the proofs |
| `chat_live` | 2 requests, log of 1, 1 chunk, fair | every recorded call gets a final status, unless evicted or abandoned |
| `pool` | 2 requests, 2 consoles, 2 backends, 2 edits, 3 configurations | a stale provider is in the pool only until the clear that follows an edit, or because a request resolved before the edit put it there; turns are even; no rule makes a request fail; an edit hits another row's backend only when the page has lost one |
| `pool_stale` | the same | a comment the code does not keep |
| `lru` | 3 keys, room for 2, lifetime 2, clock to 4, 6 puts | map and deque agree, bound, order; implements `TtlStore` |
| `gemini_stream` | 3 lines of 4 kinds and 2 ends, cut anywhere | the client gets the same lines wherever they are cut; what went out and what is kept back are what came; every signature taken out is cached |
| `gemini_end` | 2 lines | a log message the code does not keep |
| `gemini_signatures` | `Crowd`: 2 conversations of 1 reply of 2 deltas, 4 signatures, one provider's cache of 2, lifetime 1, clock to 1; `Apart`: 2 backends, 1 clear, 3 signatures, replies of 1 delta, clock at 0; `Alone`: 1 conversation, 1 reply of 3 deltas of 5 texts | a message gets its own last signature that is not missing for a named reason, a call one of its id, whatever comes between two lookups, between backends and over a clear; no mark goes upstream, the words come back, except where a mark closes a block left open or a line begins with `SIGID:` |
| `config_files` | 2 consoles, lists of 2 out of 2 items | a file is what was last saved, the server starts, and a save outlives a crash, unless an overlap, a failure or a crash damaged the file; the rules in memory are those of the file, unless the save was also dropped before it set them |
| `config_diverge` | the same | a comment the code does not keep |
| `notify` | 2 changes, channel of 1 event, 2 loads under way, 1 failure | a page is stale only for a named reason, and fresh in the end |
| `algorithms` | logs of 3 records, streams of 4 lines, 3 models and 3 rules | series and statistics agree; a search says what it leaves out; sums exact unless they exceed a u64; streams rebuilt however interleaved; each alias listed once |

Why the bounds are enough. Handlers meet only in the log, and a step of one touches one record, so
two show every pairwise interleaving and the third one evicts; a log smaller than the number of
requests makes records leave while their handler runs. Two chunks give a stream that breaks before,
between and after them, with or without a usage in either. In the pool, two edits by two consoles
are needed to have one clear come late for the other edit; the third configuration has every kind of
rule between them. In the cache, the third key evicts, and six puts fill it, evict and refresh. A
Gemini line is only looked at as a whole, so three lines show a signed one before, between and after
others; two signatures on one message and two more in another conversation, put between the two
lookups, are what it takes for a wrong one to be sent back or for the later one to be pushed out
before it is looked up. With two backends three will do, the clear being a third cache. Three deltas
are a marked one, an open block with the mark that closes it, and one after. `gemini_signatures`
checks these three instances in one run: its `CONSTRAINT` keeps each behaviour within one of them,
and all properties hold in all three. Two savers show every overlap, and lists of two items a long
text under a short one. With one event in the channel every second event lags a receiver; two loads
under way overtake one another; a second change must be noticed after whatever the first one left.
The records of `algorithms` lie before, in, at the end of and after a window, and the counts are
such that a sum of two wraps (`Width` is 64 there).

Requests are interchangeable (symmetry); so are consoles, conversations, backends, keys
and values. A run with a liveness property uses no symmetry. Deadlock is not
checked where the system may stop for good (all requests ended, all bounds
reached); it is in `lru`, `config_files`, `config_diverge` and `notify`.

Fairness. `ChatProxy` (`FairSpec`): a handler that can take a step takes one in
the end. tokio runs ready tasks; each provider's client has a timeout, at least
one second, over the whole exchange including the body, which is assumed here
and not modelled; and the body is polled
as long as the client stays and reads. A client that stays connected and never
reads is not covered: then nothing polls the stream, and the timeout is not
noticed either. `Notify`: the server's tasks run, so a change is announced unless
its handler is dropped, the browser's timers fire, and
a request of the page that does not fail is answered; nobody has to change
anything, reload or move the focus. `EventuallyFresh` assumes that the user does
not edit for ever, because a page holds back what arrives meanwhile; failures
end because they are bounded.

### Where documentation and code differ

Three statements are refuted by a run:

1. `pool_stale`: the pool is cleared "so updated URLs/keys take effect"
   (`src/web/provider_pool.rs:10`); a request resolved before the edit may put
   the old settings back for good.
2. `gemini_end`: the stream "flushed pending sse buffer at stream end"
   (`src/providers/gemini/mod.rs:139`); the flush finds no newline in what is
   pending and keeps it, so a last line without a newline never reaches the
   client.
3. `config_diverge`: "Persist first so in-memory state never diverges from disk
   on write failure" (`src/web/api.rs:469`); `fs::write` truncates first, so a write
   that fails leaves neither the old rules nor the new.

Others follow from the actions and the invariants that hold, and have no run:
README.md promises a status for every proxied call, and a call whose client
leaves early keeps a record without one (`Disconnect`, which `EveryCallSettles`
exempts); doc/design.md promises
an error body, and a body that is JSON but not an object, sent to a backend with
its own model, makes the handler panic (`OverridePanics`); it says errors are
recorded, and the refusals before the push are not (`AnswersAccountedFor`); the
handler's comment says 502 on a backend's error, and the backend's own status
and 504 occur too (`AnswerError`); the default target is called the final
fallback, and serves nothing when it names a deleted backend
(`RefusedByDefaultOnly`); backends are said to be identified by id, and the
console's edits go by index (`EditsMissOnlyAfterLoss`).

## Proofs

TLC answers for the instances above; the theorems below hold for every value of
the constants that meets the assumptions of the module. tlapm checks them with
`tlapm <Module>.tla`.

| Module | Theorems | Property |
|---|---|---|
| `ChatProxyProofs` | `InvHolds`, `TypeCorrect`, `LogIsWindow`, `OutcomeTold`, `FinishedAnnounced`, `AllAnswersAccounted`, `SettledForGood`, `ChatImplementsCallLog` | `Inv`, `TypeOK`, `StoreIsWindow`, `RecordTellsOutcome`, `DoneIsAnnounced`, `AnswersAccountedFor`, `SettledStays`, `ImplementsCallLog` |
| `BackendPoolProofs` | `PoolTypes`, `StaleWhileClearing`, `OnlyDefaultsRefuse`, `TurnsAreFair`, `EditsHitTheirRow` | `TypeOK`, `StaleOnlyIfLate`, `RefusedByDefaultOnly`, `RoundRobinFair`, `EditsMissOnlyAfterLoss` |
| `LruTtlCacheProofs` | `CacheTypes`, `DequeIsTheMap`, `LimitHolds`, `FrontIsOldest`, `CacheImplementsStore` | `TypeOK`, `SameKeys`, `Bounded`, `OldestFirst`, `ImplementsTtlStore` |
| `GeminiStreamProofs` | `InvHolds`, `TypeCorrect`, `CutsNeverMatter`, `NothingIsLost`, `SignaturesAreCached` | `Inv`, `TypeOK`, `CutsDoNotMatter`, `NothingBetween`, `StrippedIsCached` |
| `GeminiSignaturesProofs` | `InvHolds`, `TypeCorrect`, `SignaturesStayApart`, `MissingForAReason`, `TextIsKept` | `Inv`, `TypeOK`, `OwnSignatureOrNone`, `LostForAReason`, `TextComesBack` |
| `ConfigFilesProofs` | `InvHolds`, `TypeCorrect`, `FileHoldsLastSaved`, `RestartKeepsRouting`, `RefusesOnlyDamage`, `WrittenSurvives` | `Inv`, `TypeOK`, `FileIsLastSaved`, `RoutingKept`, `RefusedOnlyIfDamaged`, `SavedSurvives` |
| `ConsoleProofs` | `InvHolds`, `TypeCorrect`, `StaleOnlyForAReason` (of `Notify`); `LoopsInvHolds`, `SearchIsComplete`, `StatsAlwaysAddUp`, `SeriesAlwaysAgrees`, `StreamIsRebuilt`, `AliasesAreListed` (of `Algorithms`) | `Inv`, `TypeOK`, `StaleForAReason`; `LoopsInv`, `SearchTellsAll`, `StatsAddUp`, `SeriesAgreesWithStats`, `RebuildsStream`, `AliasesListed` |

`CommonFacts` has what several of them need: the least element of a set of
naturals, remainders, and what `Sift` leaves of a sequence. A set of places
counted upwards by any function is counted so by `Nth` (`CountedUpwards`), hence
what is left can be written down (`SiftCounted`), leaving out places twice is
leaving them out once (`SiftTwice`), and what is left of two sequences joined is
what is left of each (`SiftJoined`).

**The log.** `RecordTellsOutcome` is not inductive: it speaks of finished
requests, whose records were written while they ran and may have been moved or
evicted by pushes of others. `Inv` says for each place a handler can be at what
its record, if the log has it, looks like there, and that each request was
pushed once. The steps fall into two kinds. One that pushes nothing and writes
at most its own record preserves `Inv` if it preserves what `Inv` says of that
request (`OwnStep`); the updates are of this kind because an update touches the
one record with its id (`UpdateResponseEffect`). The push shifts the window by
one or by none (`PushEffect`, `PushStep`). `SettledForGood` then looks at each
step that writes: where it does, `Inv` has the record still open.
`AnswersAccountedFor` needs less and more: `AccountInv` adds that a handler past
the push has its record and that its client has seen nothing before the answer,
so that each status a client sees is of the kind its place allows.

**The log implements `CallLog`.** What the console sees of a record is a function
of status, label and body (`ShownFacts`), so an update changes one call or none
(`UpdateReports`) and a push enters one (`PushEnters`); all other steps are
stutters (`NextImplements`). `Inv` is needed to know that an update finds its
record unsettled.

**The pool.** The assumptions (`PoolAssumption`) are that the rules of a routing
have natural numbers for places and that "no backend" is not a backend.
`StaleOnlyIfLate` is inductive by itself. `RefusedByDefaultOnly` rests on
`Resolved`, which says when `resolve_backend` finds nothing. For the turns
`Turns` adds the exact state of play: before the first edit each of the first
`counter % AtStart` backends has had one turn more than the rest. For the edits
`Lists` adds that the list and each page's copy of it are in the order of their
ids, and that the copy misses no backend older than one it shows; `RowsAgree`
then shows that a row at or above which nothing is gone is the place in the list.

**The cache.** `Inv` says that the map, the deque and the history of puts fit
(`Fits`): the deque lists the keys of the map in the order of their last puts;
the map holds copies of the newest puts, without a gap; and each key it lacks is
expired or has `MaxEntries` newer ones. The last clause is what the refinement
needs and what eviction must keep: the key popped has all others in the map
above it and, once the new key is in, `MaxEntries` newer ones (`ReadyAbsent`,
`Placed`). Expired entries are the front of the deque (`ListsFresh`), and the
loop never pops more than one key (`PoppedIs`). After the expired entries are
dropped a key is in the map just when the store would find it (`HeldIsAlive`), so
`get` answers alike. The keys are assumed finite; the bounds on the clock and on
the number of puts are any numbers.

**The stream.** The three properties speak of all that has come, a step of one
chunk. `Inv` names the place `e` in the bytes up to which they have been passed:
`At` says that a line ends there and none after it among what has come, so that
`pending` is what lies between, and what went out, but for `\r`, is the bytes up
to `e` made clean (`Passed`). What makes it inductive is that nothing a chunk is
turned into depends on the cut: to keep some elements (`Those`) and to put each
through a function (`Through`) treat the parts of a sequence one by one
(`ThoseJoined`, `ThroughJoined`, `CleanJoined`), and between two ends of lines
there are only whole lines, in which a signed line is recognised as such
(`SegmentIs`, `SegmentSigned`), whether or not another line has the marker that
makes the code rewrite the chunk (`SegmentSent`). That an end of a line divides
the bytes into earlier and later lines (`UpToEnd`, `EndedUpTo`) gives the set of
lines that `Expected` speaks of. `NothingBetween` compares what went out with what
came by the bytes that a cut cannot change (`LastingOfBytes`, `LastingOfClean`).
The only assumption is that `MaxLines` is a
natural number.

**The signatures.** None of the three properties is inductive: each speaks of
what has been sent, and what is sent is looked up in a cache, one signature after
the other. `CacheOK` says what a cache is to the history of issued signatures:
each entry holds a signature of that key and provider, and the newest one; and
each signature issued by the provider has an entry under its key that is at least
as new. So a lookup finds the newest of a key or, where it finds nothing, another
provider, time or `MaxEntries` newer keys are the reason (`LookedUp`). `FoundOK`
says this of all that a request has looked up for the message in hand, and stays
true while others put and time passes (`StillFound`): a signature once gone does
not come back (`StillGone`). `Signed` says what a reply is to the history: its
signatures carry the keys of its calls and marks, and the marks stand in the
order in which they were issued, so the last found is the latest found
(`LastFoundIsOwn`), and those after it are gone or hidden. `Echoed` says the same
of each message sent. For `TextComesBack` the marks are taken out of a text in
thought (`Wrote`): if none of them closes an open block, a part that the upstream
wrote is in a block just if it is in one without the marks (`MarksHideNothing`),
so what is left is the same but for line ends (`MarksLeaveNoTrace`). Assumed are
that "nothing" is no number and that the upstream writes no marks of its own, a
mark's id being random.

**The files.** Each property has the condition that nothing has damaged the file. The invariant says
that a file which no save under way has truncated holds the last text that was written to its end
(`WholeFile`), that the rules in memory are those if it was also confirmed (`WholeMemory`), and that
a save that is alone finds in the file just what it has put there so far (`AloneInFile`), which
makes its last write complete the text. What a start reads from a whole text is the list it was made
from (`ParsedText`); from any other it reads some list or refuses (`ParsedIsList`). The assumptions:
no item looks like a mark, and "no file" is no text.

**The page.** `StaleForAReason` looks at a page with nothing under way, so the invariant has to say
what is under way while it is stale: `Told` names an event not yet sent, one in the channel or in an
answer of the poll, or a load that has read the last version or will; an event that is never sent
sets `missed`. Each step hands this on from one of them to the next, or sets `missed`. The loads of
a page are a bag, since two may be alike; `Copies` counts them.

**The algorithms.** A loop modelled by its body needs no induction over data:
the induction is over the steps, and `LoopsInv` says what each loop has so far.
`StatsOK` repeats `StatsAddUp` for the input so far and adds which backends have
figures; one more record changes the figures of one backend, or enters it with
its first record (`FirstsGrow`, `FiguresGrow`), so the sum over the backends
changes by as much (`SumsGrow`), and wrapping each sum or their total is the
same (`WrapsAlike`). `SeriesOK` numbers the buckets by their periods: `first` is
the period of the oldest bucket times the seconds, nothing in its calculation
wraps (`BucketsBegin`), and a record goes to the bucket of its period just when
the window has that period (`PlacedIn`). `StreamOK` says that the text and
the first fields built are those sent so far, and the calls too if the stream is
well-formed so far; a well-formed stream was so one line before (`WellFormedBefore`).
`ModelsOK` says which of the aliases the list has so far, that those which
replaced a model are in its place and those added at the end appear once
(`PutKeeps`). A search is no loop there, and is followed through what `Sift`
keeps of the reversed log (`Found`).

The sums of the properties are defined by a recursive function. That it exists,
and is the only one, is shown by induction with a set of numbers in the place of
a predicate (`Upwards`, `SumsExist`, `SumOfIs`); what happens to the sum when an
element is added or changed follows (`SumGrows`, `SumChanges`).
The assumptions: the marks `Absent` and `Null` are no values; the records, lines
and models have the fields the code reads; the seconds of a bucket are not zero,
and the hours asked for, at most 168 (`api.rs:182`, with buckets of at most an
hour), are no more than have passed since the epoch.

Only model-checked: liveness (`EveryCallSettles`, `EventuallyFresh`), which the
prover cannot do under fairness. Every invariant of a run has a theorem.

## Not modelled

The HTTP side of the providers (`openai_compat.rs`, `ollama.rs`) and the
availability probe: external services whose results are inputs. Embedded files,
the display of proxy variables, the command line, the exports of the
configuration as text, `get` of one record, rendering in the console
(`inspection.js`, `i18n.js`): no state of their own. Headers, query strings,
names and wording of errors: no property is about them.

A `backends.conf` edited by hand may hold two backends with one id, which the
program never makes; the pool then serves both with one provider. A page that
saves the routing sends the whole configuration it loaded, and overwrites what
another page saved since: `ConfigFiles` lets a console send any rules, so this
is a behaviour of the model, but no property calls it right or wrong. What
`SseRebuild` makes of null fields, calls without an index and several choices is
modelled; the repository does not say what it should be, so `RebuildsStream` is
about well-formed streams of one choice. A list of models that is no JSON, or has
no `data` array, is passed on as it is (`openai.rs:628`); `ModelAliases` is about
the others. The total that is added up from a reply's own counts (`openai.rs:292`),
which wraps where they are absurd, is not modelled; the sums of the statistics are.

Liveness and `ENABLED` are beyond the prover and stay with TLC.
