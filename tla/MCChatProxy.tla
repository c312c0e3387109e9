---------------------------- MODULE MCChatProxy ----------------------------
(* With three requests and a log of two, or two and a log of one, a record *)
(* may be evicted while its request is in flight.  A stream of two chunks, *)
(* with or without a usage, has its usage in the first, the last or both.  *)
EXTENDS ChatProxy, TLC

Symmetry == Permutations(Requests)
=============================================================================
