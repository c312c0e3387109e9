---------------------------- MODULE MemoryStore ----------------------------
(***************************************************************************)
(* src/store/memory.rs: the request log, a deque of records with first-in  *)
(* first-out eviction.  Every operation runs under one lock, so each is an *)
(* operator from a deque s to the deque it leaves.                         *)
(*                                                                         *)
(* A record is its id, the status (0 for None), the status label, the      *)
(* response body and the token usage.  What the record says of the request *)
(* itself is fixed when it is made and left out.                           *)
(***************************************************************************)
EXTENDS Integers, Sequences

CONSTANTS
  MaxLen,   \* max_len
  NoUsage   \* the None of the token counts

ASSUME MaxLenAssumption == MaxLen \in Nat

NoBody == [kind |-> "none", text |-> << >>, usage |-> NoUsage]

NewRecord(id) ==
  [id |-> id, status |-> 0, label |-> "none", body |-> NoBody,
   tokens |-> NoUsage]

PopFront(s) == IF s = << >> THEN s ELSE Tail(s)

\* Variant of Push: room is made one record too late.
PushLate(s, rec) == Append(IF Len(s) > MaxLen THEN PopFront(s) ELSE s, rec)

Push(s, rec) == Append(IF Len(s) >= MaxLen THEN PopFront(s) ELSE s, rec)

\* Variant of Find: the newest record instead of the one asked for.
FindLast(s, id) == {i \in DOMAIN s : i = Len(s)}

(* iter_mut().find: the place of the first record with this id, if any. *)
Find(s, id) ==
  {i \in DOMAIN s : s[i].id = id /\ \A j \in 1 .. i - 1 : s[j].id # id}

(* An update of a record that has been evicted changes nothing. *)
UpdateResponse(s, id, body, status, label) ==
  [i \in DOMAIN s |->
     IF i \in Find(s, id)
     THEN [s[i] EXCEPT !.body = body, !.status = status, !.label = label]
     ELSE s[i]]

UpdateTokens(s, id, usage) ==
  [i \in DOMAIN s |->
     IF i \in Find(s, id) THEN [s[i] EXCEPT !.tokens = usage] ELSE s[i]]
=============================================================================
