----------------------------- MODULE Algorithms -----------------------------
(***************************************************************************)
(* The loops over everything they may be given: logs that grow record by   *)
(* record, streams line by line, lists of models and rules entry by entry. *)
(* What a loop has so far is a variable, its body a step.  Each invariant  *)
(* compares what an algorithm has with a definition, over the whole input, *)
(* that says what it is for.                                               *)
(***************************************************************************)
EXTENDS LogQueries, SseRebuild, ModelAliases

CONSTANTS
  Records,   \* what a record may be, but for its id
  Lines,     \* what a line may be; the text and arguments of the n-th are n
  Models,    \* what the backend may list
  Rules,     \* what a rule may be
  Now,       \* now_secs() of the queries
  Sinces, Limits, Hours, Secs,  \* parameters of the queries
  MaxInput   \* bound on the length of an input, for each task

(* The marks are none of the values they stand beside.  The console asks   *)
(* for no more than a week in buckets of at most an hour, and the clock is *)
(* later than a week after the epoch.                                      *)
ASSUME AlgorithmsAssumption ==
  /\ \A r \in Records : r.at \in Nat /\ r.tokens \in Nat \cup {NoTokens} /\ r.hit \in BOOLEAN
  /\ Absent # Null /\ Absent \notin Nat /\ Null \notin Nat
  /\ Absent \notin Seq(Nat) /\ Null \notin Seq(Nat) /\ Absent # "id"
  /\ Lines \subseteq
       [choice : Nat, head : {l.head : l \in Lines}, text : Nat \cup {Absent},
        call : {Absent} \cup [index : Nat \cup {Absent}, id : {"id", Absent},
                              args : Nat \cup {Absent, Null}]]
  /\ \A m \in Models : m = [id |-> m.id, owner |-> m.owner]
  /\ Now \in Nat /\ Sinces \subseteq Nat /\ Limits \subseteq Nat
  /\ Hours \subseteq Nat /\ Secs \subseteq Nat \ {0}
  /\ \A hours \in Hours : hours * Hour <= Now
  /\ \A secs \in Secs : Now + secs < Width
  /\ MaxInput \in [{"log", "stream", "models", "rules"} -> Nat]

VARIABLES
  task,     \* which loop runs
  input,    \* what it was given so far: records, lines or models
  stats,    \* get_stats, for each since
  series,   \* get_timeseries, for each number of hours and of seconds
  built,    \* reconstruct_from_sse
  rules,    \* the routing rules
  aliases,  \* handle_models: alias_ids
  merged    \* handle_models: data, and how many aliases have been put into it

loops == <<task, input, stats, series, built, rules, aliases, merged>>

Start ==
  /\ task \in {"log", "stream", "models"}
  /\ input = << >>
  /\ stats = [since \in Sinces |-> NoStats]
  /\ series = [q \in Hours \X Secs |-> EmptyBuckets(Now, q[1], q[2])]
  /\ built = NothingBuilt
  /\ rules = << >>
  /\ aliases = << >>
  /\ merged = [data |-> << >>, put |-> 0]

NewRecordOf(r) ==
  [id |-> Len(input) + 1, at |-> r.at, backend |-> r.backend, tokens |-> r.tokens,
   hit |-> r.hit]

Count ==
  /\ task = "log" /\ Len(input) < MaxInput.log
  /\ \E r \in Records :
       /\ input' = Append(input, NewRecordOf(r))
       /\ stats' = [since \in Sinces |-> Tallied(stats[since], NewRecordOf(r), since)]
       /\ series' = [q \in Hours \X Secs |->
                       Placed(series[q], NewRecordOf(r), FirstBucket(Now, q[1], q[2]), q[2])]
  /\ UNCHANGED <<task, built, rules, aliases, merged>>

(* The n-th piece is the number n, so that no two are alike. *)
Numbered(line, n) ==
  [line EXCEPT !.text = IF @ = Absent THEN @ ELSE n,
               !.call = IF @ = Absent \/ @.args \in {Absent, Null} THEN @
                        ELSE [@ EXCEPT !.args = n]]

Feed ==
  /\ task = "stream" /\ Len(input) < MaxInput.stream
  /\ \E l \in Lines :
       /\ input' = Append(input, Numbered(l, Len(input) + 1))
       /\ built' = WithLine(built, Numbered(l, Len(input) + 1))
  /\ UNCHANGED <<task, stats, series, rules, aliases, merged>>

AddModel ==
  /\ task = "models" /\ Len(input) < MaxInput.models /\ rules = << >>
  /\ \E m \in Models :
       /\ input' = Append(input, m)
       /\ merged' = [merged EXCEPT !.data = Append(@, m)]
  /\ UNCHANGED <<task, stats, series, built, rules, aliases>>

AddRule ==
  /\ task = "models" /\ Len(rules) < MaxInput.rules /\ merged.put = 0
  /\ \E r \in Rules :
       /\ rules' = Append(rules, r)
       /\ aliases' = WithAlias(aliases, r)
  /\ UNCHANGED <<task, input, stats, series, built, merged>>

Merge ==
  /\ task = "models" /\ merged.put < Len(aliases)
  /\ merged' = [data |-> PutAlias(merged.data, aliases[merged.put + 1]),
                put  |-> merged.put + 1]
  /\ UNCHANGED <<task, input, stats, series, built, rules, aliases>>

Step == Count \/ Feed \/ AddModel \/ AddRule \/ Merge

Loops == Start /\ [][Step]_loops

----------------------------------------------------------------------------
(* The log *)

SumOf(v) ==
  LET sum[n \in 0 .. Len(v)] == IF n = 0 THEN 0 ELSE sum[n - 1] + v[n]
  IN  sum[Len(v)]

(* The exact number of tokens of the records at the places I. *)
TokensAt(I) ==
  SumOf([i \in DOMAIN input |-> IF i \in I THEN Tokens(input[i]) ELSE 0])

(* The chart and the figures of a page agree: the buckets of a series are  *)
(* adjacent, the last one holds now, and together they count what the      *)
(* statistics count since the first, but for records later than the last.  *)
(* A series of no hours has no bucket.                                     *)
SeriesAgreesWithStats ==
  task = "log" => \A hours \in Hours, secs \in Secs :
    LET buckets == series[<<hours, secs>>]
        n       == Len(buckets)
        inView  == {i \in DOMAIN input : /\ input[i].at >= buckets[1].ts
                                         /\ input[i].at < ((Now \div secs) + 1) * secs}
    IN  /\ n = NumBuckets(hours, secs)
        /\ n > 0 => /\ \A i \in 2 .. n : buckets[i].ts = buckets[i - 1].ts + secs
                    /\ Now \in buckets[n].ts .. buckets[n].ts + secs - 1
                    /\ SumOf([i \in 1 .. n |-> buckets[i].requests]) = Cardinality(inView)
                    /\ SumOf([i \in 1 .. n |-> buckets[i].tokens]) % Width
                         = TokensAt(inView) % Width

(* A search returns the newest hits the limit has room for, says how many  *)
(* there are in all, and says "truncated" exactly if some are not          *)
(* returned: where everything is a hit it returns what list lists.         *)
SearchTellsAll ==
  task = "log" => \A limit \in Limits :
    LET found == Search(input, limit)
        told  == {found.ids[i] : i \in DOMAIN found.ids}
        hits  == {input[i].id : i \in {i \in DOMAIN input : input[i].hit}}
    IN  /\ found.matched = Cardinality(hits)
        /\ told \subseteq hits
        /\ \A i \in DOMAIN found.ids : i > 1 => found.ids[i] < found.ids[i - 1]
        /\ \A id \in hits \ told : /\ Len(found.ids) = IF limit = 0 THEN 1 ELSE limit
                                   /\ \A n \in told : id < n
        /\ found.truncated <=> hits # told
        /\ limit > 0 /\ (\A i \in DOMAIN input : input[i].hit) =>
             found.ids = [i \in DOMAIN List(input, limit) |-> List(input, limit)[i].id]

(* The figures of the backends add up to the totals, which are those of    *)
(* the records that are asked for, modulo a u64; a backend was last used   *)
(* at the latest time of its records, also if the clock was set back in    *)
(* between.                                                                *)
StatsAddUp ==
  task = "log" => \A since \in Sinces :
    LET asked == {i \in DOMAIN input : input[i].at >= since}
        first == {i \in asked : \A j \in asked : input[j].backend = input[i].backend => i <= j}
        figures == stats[since].by_backend
        ByBackend(f) == SumOf([i \in DOMAIN input |->
                                 IF i \in first THEN figures[input[i].backend][f] ELSE 0])
    IN  /\ DOMAIN figures = {input[i].backend : i \in asked}
        /\ ByBackend("count") = stats[since].total
        /\ ByBackend("tokens") % Width = stats[since].tokens
        /\ stats[since].total = Cardinality(asked)
        /\ stats[since].tokens = TokensAt(asked) % Width
        /\ \A i \in asked : input[i].at <= figures[input[i].backend].last_at
        /\ \A b \in DOMAIN figures :
             \E i \in asked : input[i].backend = b /\ input[i].at = figures[b].last_at

----------------------------------------------------------------------------
(* The stream *)

HasCall(i) == input[i].call # Absent
SameCall(i, j) == HasCall(i) /\ HasCall(j) /\ input[i].call.index = input[j].call.index

(* A stream as the OpenAI API sends it for one choice: every entry of a    *)
(* tool call has its index, its first one the id, the others only pieces.  *)
WellFormed ==
  \A i \in DOMAIN input :
    /\ input[i].choice = 0
    /\ HasCall(i) =>
         /\ input[i].call.index # Absent /\ input[i].call.args # Null
         /\ input[i].call.id = IF \E j \in 1 .. i - 1 : SameCall(i, j) THEN Absent ELSE "id"

Indices == {input[i].call.index : i \in {i \in DOMAIN input : HasCall(i)}}

TextSent ==
  Sift([i \in DOMAIN input |-> input[i].text], {i \in DOMAIN input : input[i].text # Absent})
ArgsSent(k) ==
  Sift([i \in DOMAIN input |-> IF HasCall(i) THEN input[i].call.args ELSE Absent],
       {i \in DOMAIN input : /\ HasCall(i) /\ input[i].call.index = k
                             /\ input[i].call.args # Absent})
HeadSent ==
  LET heads == {i \in DOMAIN input : input[i].head # Absent}
  IN  IF heads = {} THEN Absent ELSE input[Nth(heads, 1)].head

(* The log shows the reply that was streamed: however the calls, the text  *)
(* and the rest are interleaved, the text is all its pieces in order, and  *)
(* each call has its id and all its own pieces in order.                   *)
RebuildsStream ==
  task = "stream" /\ WellFormed /\ built.parsed =>
    LET reply == Rebuilt(built)
        order == InOrder(Indices)
    IN  /\ reply.text = IF TextSent = << >> /\ Indices # {} THEN Null ELSE TextSent
        /\ reply.head = HeadSent
        /\ Len(reply.calls) = Len(order)
        /\ \A n \in DOMAIN order :
             reply.calls[n] =
               [id |-> "id",
                args |-> IF ArgsSent(order[n]) = << >> THEN Absent ELSE ArgsSent(order[n])]

----------------------------------------------------------------------------
(* The models *)

Wanted ==
  {rules[i].value : i \in {i \in DOMAIN rules : rules[i].kind = "model" /\ rules[i].value # Blank}}

Named(list, id) == {i \in DOMAIN list : list[i].id = id}

(* A client that looks through the models finds each alias, as Pomfret's,  *)
(* and no model twice that the backend does not list twice; every model    *)
(* that is no alias is where the backend has it.                           *)
AliasesListed ==
  task = "models" /\ merged.put = Len(aliases) =>
    LET list == merged.data IN
    /\ \A id \in Wanted : \E i \in DOMAIN list : list[i] = AliasEntry(id)
    /\ \A i \in DOMAIN list :
         LET listed == Cardinality(Named(input, list[i].id)) IN
         Cardinality(Named(list, list[i].id)) = IF listed = 0 THEN 1 ELSE listed
    /\ \A i \in DOMAIN input : input[i].id \notin Wanted =>
         i \in DOMAIN list /\ list[i] = input[i]
    /\ \A i \in DOMAIN list : \/ \E j \in DOMAIN input : list[i] = input[j]
                              \/ list[i].id \in Wanted
=============================================================================
