---------------------------- MODULE MCAlgorithms ----------------------------
(* Logs of three records around a window of eight seconds, with counts     *)
(* whose sum wraps; streams of four lines; three models and three rules.   *)
EXTENDS Algorithms

CONSTANTS b1, b2, m1, m2, Upstream, h1, h2

MCRecords ==
  [at : {7, 11, 14, 16}, backend : {b1, b2}, tokens : {NoTokens, 3, 50}, hit : BOOLEAN]

TextLines == [choice : {0, 1}, head : {Absent, h1, h2}, text : {0}, call : {Absent}]
CallLines ==
  [choice : {0}, head : {Absent}, text : {Absent},
   call : [index : {0, 1, Absent}, id : {"id", Absent}, args : {0, Absent, Null}]]
MCLines == TextLines \cup CallLines

MCModels == [id : {m1, m2}, owner : {Upstream}]
MCRules == [kind : {"model", "length"}, value : {m1, m2, Blank}]
MCMaxInput == [log |-> 3, stream |-> 4, models |-> 3, rules |-> 3]
=============================================================================
