----------------------------- MODULE LogQueries -----------------------------
(***************************************************************************)
(* src/store/memory.rs: what the console asks of the request log.  The log *)
(* is a sequence of records, oldest first:                                 *)
(*   [id, at, backend, tokens, hit]                                        *)
(* at is created_at, in whole seconds; tokens stands for each of the three *)
(* counts, which are treated alike (NoTokens for None); hit says whether a *)
(* body contains what is searched.  Arithmetic is that of u64 in a release *)
(* build: modulo Width.  A query that loops over the log is the body of    *)
(* its loop.                                                               *)
(***************************************************************************)
EXTENDS Integers, Sequences, Sift

CONSTANTS
  Width,    \* 2^64
  Hour,     \* 3600, the seconds of an hour
  NoTokens

ASSUME LogQueriesAssumption ==
  Width \in Nat \ {0} /\ Hour \in Nat \ {0} /\ NoTokens \notin Nat

NewestFirst(log) == [i \in 1 .. Len(log) |-> log[Len(log) + 1 - i]]

(* MemoryStore::list *)
List(log, limit) ==
  LET start == IF Len(log) > limit THEN Len(log) - limit ELSE 0
  IN  NewestFirst(SubSeq(log, start + 1, Len(log)))

\* Variant of Truncated: as soon as the limit is reached.
TruncatedAtLimit(matched, limit) == Len(matched) >= limit

Truncated(matched, limit) == Len(matched) > limit

(* search_request_ids *)
Search(log, wanted) ==
  LET limit   == IF wanted = 0 THEN 1 ELSE wanted
      newest  == NewestFirst(log)
      matched == Sift(newest, {i \in DOMAIN newest : newest[i].hit})
  IN  [ids |-> [i \in 1 .. (IF Len(matched) > limit THEN limit ELSE Len(matched))
                  |-> matched[i].id],
       matched |-> Len(matched),
       truncated |-> Truncated(matched, limit)]

Tokens(r) == IF r.tokens = NoTokens THEN 0 ELSE r.tokens

Add(a, b) == (a + b) % Width
Sub(a, b) == (a - b) % Width
Mul(a, b) == (a * b) % Width

(* The figures of a backend, and of the log; by_backend has the backends   *)
(* that are met.                                                           *)
NoFigures == [count |-> 0, tokens |-> 0, last_at |-> 0]
NoStats == [total |-> 0, tokens |-> 0, by_backend |-> [b \in {} |-> NoFigures]]

\* Variant of LastAt: the newest record, whatever the clock said.
LastAtOfNewest(figures, r) == r.at

LastAt(figures, r) == IF r.at > figures.last_at THEN r.at ELSE figures.last_at

FiguresOf(stats, b) ==
  IF b \in DOMAIN stats.by_backend THEN stats.by_backend[b] ELSE NoFigures

WithRecord(figures, r) ==
  [count |-> figures.count + 1, tokens |-> Add(figures.tokens, Tokens(r)),
   last_at |-> LastAt(figures, r)]

(* get_stats, one record *)
Tallied(stats, r, since) ==
  IF r.at < since THEN stats
  ELSE [total  |-> stats.total + 1,
        tokens |-> Add(stats.tokens, Tokens(r)),
        by_backend |->
          [b \in DOMAIN stats.by_backend \cup {r.backend} |->
             IF b = r.backend THEN WithRecord(FiguresOf(stats, b), r)
             ELSE stats.by_backend[b]]]

NumBuckets(hours, secs) == (hours * Hour) \div secs

\* Variant of FirstBucket: one bucket too early, so the current one is none.
FirstBucketEarly(now, hours, secs) ==
  Sub((now \div secs) * secs, Mul(NumBuckets(hours, secs), secs))

(* hours = 0: num_buckets - 1 wraps, and the first bucket is the next. *)
FirstBucket(now, hours, secs) ==
  Sub((now \div secs) * secs, Mul(Sub(NumBuckets(hours, secs), 1), secs))

(* get_timeseries, before the loop *)
EmptyBuckets(now, hours, secs) ==
  [i \in 1 .. NumBuckets(hours, secs) |->
     [ts |-> Add(FirstBucket(now, hours, secs), (i - 1) * secs), requests |-> 0, tokens |-> 0]]

(* get_timeseries, one record.  A record pushed, or a clock set back,      *)
(* after now was read may be later than the last bucket, and is left out.  *)
Placed(buckets, r, first, secs) ==
  LET start == (r.at \div secs) * secs
      idx   == ((start - first) \div secs) + 1
  IN  IF r.at < first \/ start < first \/ idx > Len(buckets) THEN buckets
      ELSE [buckets EXCEPT ![idx].requests = @ + 1,
                           ![idx].tokens = Add(@, Tokens(r))]
=============================================================================
