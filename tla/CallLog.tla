------------------------------ MODULE CallLog ------------------------------
(***************************************************************************)
(* What the request log promises the console, without handlers, chunks and *)
(* locks: every call that is recorded enters the log once; the log holds   *)
(* the last ones, in the order they entered; and a call in the log gets    *)
(* its outcome at most once, as a whole, and keeps it until it is evicted. *)
(* ChatProxy is shown to implement it.                                     *)
(***************************************************************************)
EXTENDS Integers, Sequences

CONSTANTS
  Calls,     \* the calls proxied
  Outcomes,  \* a final status with the body that goes with it
  Open,      \* the outcome of a call still running
  Room       \* how many calls the log holds

VARIABLES
  log,     \* what the console can see: [id, outcome], oldest first
  entered  \* the calls recorded so far

vars == <<log, entered>>

Entry(r, o) == [id |-> r, outcome |-> o]

Init ==
  /\ log = << >>
  /\ entered = {}

Latest(s) == SubSeq(s, IF Len(s) > Room THEN Len(s) - Room + 1 ELSE 1, Len(s))

Enter(r) ==
  /\ r \notin entered
  /\ entered' = entered \cup {r}
  /\ log' = Latest(Append(log, Entry(r, Open)))

Report(r) ==
  /\ \E i \in 1 .. Len(log) :
       /\ log[i] = Entry(r, Open)
       /\ log'[i].outcome \in Outcomes
       /\ log' = [j \in 1 .. Len(log) |->
                   IF j = i THEN Entry(r, log'[i].outcome) ELSE log[j]]
  /\ UNCHANGED entered

Next == \E r \in Calls : Enter(r) \/ Report(r)

Spec == Init /\ [][Next]_vars
=============================================================================
