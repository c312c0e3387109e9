---------------------------- MODULE GeminiStream ----------------------------
(***************************************************************************)
(* src/providers/gemini/: the stream of a reply passes through a buffer    *)
(* that holds back an unfinished line, so that a line that carries a       *)
(* thought signature can be parsed, the signature put in the cache and     *)
(* taken out of what the client gets (wrap_sse_stream,                     *)
(* transform_sse_chunk_cache_strip).                                       *)
(*                                                                         *)
(* The upstream may cut its bytes into chunks anywhere, and may break off. *)
(* A byte string is a sequence of pieces; a line that is not blank has two *)
(* pieces, since a cut inside it must be possible and a second one shows   *)
(* nothing new; the two bytes of a line end are pieces of their own.       *)
(***************************************************************************)
EXTENDS Integers, Sequences, Sift

CONSTANT MaxLines  \* bound on the lines of a stream

ASSUME StreamAssumption == MaxLines \in Nat

(* What a line is: with a signature field, only with the word              *)
(* "thought_signature" in its text, another one, or empty.                 *)
Kinds == {"signed", "mention", "plain", "blank"}
Line == [kind : Kinds, eol : {"lf", "crlf"}]
(* Only the last line may have no end. *)
LastLine == [kind : Kinds \ {"blank"}, eol : {"none"}]

VARIABLES
  lines,    \* what the upstream sends
  sent,     \* how many pieces of it have come
  pending,  \* the bytes kept back
  out,      \* what the client has been sent
  cached,   \* the lines whose signature has been put in the cache, in order
  phase     \* "open", "flushed", "ended" or "failed"

vars == <<lines, sent, pending, out, cached, phase>>

Piece(l, b) == [line |-> l, b |-> b]

Slots == <<"head", "tail", "cr", "lf">>

Has(line, b) ==
  \/ b \in {"head", "tail"} /\ line.kind # "blank"
  \/ b = "cr" /\ line.eol = "crlf"
  \/ b = "lf" /\ line.eol # "none"

(* The bytes of the lines ls: of all the pieces they could have, in order, *)
(* those they have.                                                        *)
Grid(ls) == [i \in 1 .. 4 * Len(ls) |->
               Piece(((i - 1) \div 4) + 1, Slots[((i - 1) % 4) + 1])]
BytesOf(ls) ==
  Sift(Grid(ls), {i \in DOMAIN Grid(ls) : Has(ls[Grid(ls)[i].line], Grid(ls)[i].b)})

Bytes == BytesOf(lines)

Streams ==
  UNION {{s \in [1 .. n -> Line \cup LastLine] :
            \A i \in 1 .. n - 1 : s[i] \in Line} : n \in 0 .. MaxLines}

Init ==
  /\ lines \in Streams
  /\ sent = 0
  /\ pending = << >>
  /\ out = << >>
  /\ cached = << >>
  /\ phase = "open"

----------------------------------------------------------------------------
(* transform_sse_chunk_cache_strip *)

LastLf(c) ==
  IF \E i \in DOMAIN c : c[i].b = "lf"
  THEN CHOOSE i \in DOMAIN c :
         c[i].b = "lf" /\ \A j \in i + 1 .. Len(c) : c[j].b # "lf"
  ELSE 0

(* The lines that have ended, and what comes after them. *)
Complete(c) == SubSeq(c, 1, LastLf(c))
Remaining(c) == SubSeq(c, LastLf(c) + 1, Len(c))

(* A line can be parsed, or the marker found in it, only as a whole. *)
Whole(c, l) ==
  \E i \in 1 .. Len(c) - 1 : c[i] = Piece(l, "head") /\ c[i + 1] = Piece(l, "tail")

Marked(c) ==
  \E l \in DOMAIN lines : lines[l].kind \in {"signed", "mention"} /\ Whole(c, l)

Signed(c, l) == lines[l].kind = "signed" /\ Whole(c, l)

(* What of it is written again: str::lines drops the \r of every line, and *)
(* a signed line is written anew.                                          *)
Kept(c) ==
  Sift(c, {i \in DOMAIN c : /\ c[i].b # "cr"
                            /\ c[i].b = "tail" => ~ Signed(c, c[i].line)})

(* A signed line is written without its signature. *)
Rewrite(c, p) ==
  IF p.b = "head" /\ Signed(c, p.line) THEN Piece(p.line, "stripped") ELSE p

(* Without the marker in any of its lines a chunk passes byte for byte.    *)
Transform(c) ==
  IF ~ Marked(c) THEN c
  ELSE [i \in DOMAIN Kept(c) |-> Rewrite(c, Kept(c)[i])]

SignedHeads(c) == Sift(c, {i \in DOMAIN c : c[i].b = "head" /\ Signed(c, c[i].line)})

\* Variant of SignedLines: the lines are counted from 0.
SignedLinesFromZero(c) == [i \in DOMAIN SignedHeads(c) |-> SignedHeads(c)[i].line - 1]

\* Variant of SignedLines: one signature a chunk.
FirstSignedLine(c) ==
  [i \in DOMAIN SignedHeads(c) \cap {1} |-> SignedHeads(c)[i].line]

(* The signatures put in the cache on the way. *)
SignedLines(c) == [i \in DOMAIN SignedHeads(c) |-> SignedHeads(c)[i].line]

\* Variant of Pass: each chunk is looked at by itself.
PassUnbuffered(chunk) ==
  LET c == chunk IN
  /\ pending' = << >>
  /\ out' = out \o Transform(c)
  /\ cached' = cached \o SignedLines(c)

\* Variant of Pass: the lines that have ended stay in the buffer too.
PassTwice(chunk) ==
  LET c == pending \o chunk IN
  /\ pending' = c
  /\ out' = out \o Transform(Complete(c))
  /\ cached' = cached \o SignedLines(Complete(c))

Pass(chunk) ==
  LET c == pending \o chunk IN
  /\ pending' = Remaining(c)
  /\ out' = out \o Transform(Complete(c))
  /\ cached' = cached \o SignedLines(Complete(c))

----------------------------------------------------------------------------
(* wrap_sse_stream: one action per poll of the inner stream *)

Chunk(n) ==
  /\ phase = "open"
  /\ sent + n <= Len(Bytes)
  /\ sent' = sent + n
  /\ Pass(SubSeq(Bytes, sent + 1, sent + n))
  /\ UNCHANGED <<lines, phase>>

(* An error passes through, what is kept back stays; openai.rs does not    *)
(* poll the stream again after it.                                         *)
Fail ==
  /\ phase = "open"
  /\ phase' = "failed"
  /\ UNCHANGED <<lines, sent, pending, out, cached>>

(* The inner stream has ended: once, if something is kept back, it is      *)
(* passed again with nothing added to it.                                  *)
Flush ==
  /\ phase = "open" /\ sent = Len(Bytes)
  /\ pending # << >>
  /\ Pass(<< >>)
  /\ phase' = "flushed"
  /\ UNCHANGED <<lines, sent>>

End ==
  /\ \/ phase = "open" /\ sent = Len(Bytes) /\ pending = << >>
     \/ phase = "flushed"
  /\ phase' = "ended"
  /\ UNCHANGED <<lines, sent, pending, out, cached>>

Next ==
  \/ \E n \in 1 .. Len(Bytes) : Chunk(n)
  \/ Fail
  \/ Flush
  \/ End

Spec == Init /\ [][Next]_vars

----------------------------------------------------------------------------
(* The type invariant. *)
Pieces == [line : 1 .. MaxLines, b : {"head", "tail", "cr", "lf", "stripped"}]
TypeOK ==
  /\ lines \in Streams
  /\ sent \in 0 .. Len(Bytes)
  /\ pending \in Seq(Pieces) /\ out \in Seq(Pieces)
  /\ cached \in Seq(1 .. MaxLines)
  /\ phase \in {"open", "flushed", "ended", "failed"}

Received == SubSeq(Bytes, 1, sent)
NoCr(s) == Sift(s, {i \in DOMAIN s : s[i].b # "cr"})

Ended(l) == \E i \in DOMAIN Received : Received[i] = Piece(l, "lf")

(* The lines that have ended among what has come, each with its signature  *)
(* taken out: what a stream read as a whole would give.                    *)
Expected ==
  LET whole == Sift(Received, {i \in DOMAIN Received :
                  LET p == Received[i] IN
                  /\ Ended(p.line) /\ p.b # "cr"
                  /\ ~ (lines[p.line].kind = "signed" /\ p.b = "tail")})
  IN  [i \in DOMAIN whole |->
         IF lines[whole[i].line].kind = "signed" /\ whole[i].b = "head"
         THEN Piece(whole[i].line, "stripped") ELSE whole[i]]

(* Wherever the chunks are cut, the client has every line that has ended,  *)
(* in order and once, and no signature; only whether a line still ends in  *)
(* \r\n depends on the cuts.                                               *)
CutsDoNotMatter == NoCr(out) = Expected

(* The bytes of s that reach the client whatever the cuts: not the \r, not *)
(* the part of a signed line that holds the signature; what was written    *)
(* anew counts as what it was.                                             *)
Lasting(s) ==
  LET kept == Sift(s, {i \in DOMAIN s :
                /\ s[i].b # "cr"
                /\ ~ (s[i].b = "tail" /\ lines[s[i].line].kind = "signed")})
  IN  [i \in DOMAIN kept |->
         IF kept[i].b = "stripped" THEN Piece(kept[i].line, "head") ELSE kept[i]]

(* No such byte is lost between the two or is in both: what went out and,  *)
(* after it, what is kept back are what has come; and what is kept back is *)
(* part of one line.                                                       *)
NothingBetween ==
  /\ Lasting(out) \o Lasting(pending) = Lasting(Received)
  /\ \A i \in DOMAIN pending : pending[i].b # "lf"

Stripped(s) == Sift(s, {i \in DOMAIN s : s[i].b = "stripped"})

(* A signature the client does not get is in the cache, put there once and *)
(* before the line goes out, and a line without one puts nothing there.    *)
StrippedIsCached ==
  cached = [i \in DOMAIN Stripped(out) |-> Stripped(out)[i].line]

(* The trace message says "flushed pending sse buffer at stream end": when *)
(* a stream has ended, nothing of it is kept back.                         *)
FlushedAtEnd == phase = "ended" => pending = << >>
=============================================================================
