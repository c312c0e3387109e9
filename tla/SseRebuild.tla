----------------------------- MODULE SseRebuild -----------------------------
(***************************************************************************)
(* src/proxy/openai.rs, reconstruct_from_sse: the reply the log shows for  *)
(* a stream, built line by line.  A line holds one delta:                  *)
(*   [choice, head, text, call]                                            *)
(* head stands for the fields of which the first one counts (id, model,    *)
(* created, role, finish_reason, usage); text for a piece of content; call *)
(* for an entry of tool_calls, [index, id, args], where id stands for its  *)
(* fields other than the arguments.  Absent is a field that is not there,  *)
(* Null one that is null.                                                  *)
(***************************************************************************)
EXTENDS Integers, Sequences, Sift

CONSTANTS Absent, Null

NothingBuilt ==
  [parsed |-> FALSE, head |-> Absent, text |-> << >>, calls |-> [i \in {} |-> << >>]]

NewCall == [id |-> Absent, args |-> Absent]

(* merge_tool_call_object: pieces of the arguments are put together; for   *)
(* any other field, and for arguments that are no string, the last counts. *)
MergeCall(acc, call) ==
  [id   |-> IF call.id = Absent THEN acc.id ELSE call.id,
   args |-> CASE call.args = Absent -> acc.args
              [] call.args = Null   -> Null
              [] OTHER -> IF acc.args \in {Absent, Null} THEN <<call.args>>
                          ELSE Append(acc.args, call.args)]

\* Variant of IndexOf: the place of the entry in its own delta.
IndexInDelta(call) == 0

IndexOf(call) == IF call.index = Absent THEN 0 ELSE call.index

(* The entry of the map that the call goes to, as it is so far. *)
CallAt(calls, k) == IF k \in DOMAIN calls THEN calls[k] ELSE NewCall

(* The choice is not looked at: the deltas of all choices go to one        *)
(* message.                                                                *)
WithLine(acc, line) ==
  [parsed |-> TRUE,
   head   |-> IF acc.head = Absent THEN line.head ELSE acc.head,
   text   |-> IF line.text = Absent THEN acc.text ELSE Append(acc.text, line.text),
   calls  |-> IF line.call = Absent THEN acc.calls
              ELSE [i \in DOMAIN acc.calls \cup {IndexOf(line.call)} |->
                      IF i = IndexOf(line.call)
                      THEN MergeCall(CallAt(acc.calls, i), line.call)
                      ELSE acc.calls[i]]]

InOrder(S) == [n \in 1 .. Cardinality(S) |-> Nth(S, n)]

(* The calls in the order of their index; no content but calls is null.    *)
(* Where no line was parsed the answer is the stream as it came.           *)
Rebuilt(acc) ==
  LET order == InOrder(DOMAIN acc.calls)
  IN  [head  |-> acc.head,
       text  |-> IF acc.text = << >> /\ order # << >> THEN Null ELSE acc.text,
       calls |-> [i \in DOMAIN order |-> acc.calls[order[i]]]]
=============================================================================
