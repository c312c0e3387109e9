-------------------------------- MODULE Sift --------------------------------
(***************************************************************************)
(* What is left of a sequence when only some of its places are kept, in    *)
(* their order: retain of VecDeque, filter of Iterator.  The places kept   *)
(* are an argument of their own, for proofs about them.                    *)
(***************************************************************************)
EXTENDS Naturals, FiniteSets

(* The n-th of a set of places. *)
Nth(I, n) == CHOOSE i \in I : Cardinality({j \in I : j <= i}) = n

Sift(s, I) == [n \in 1 .. Cardinality(I) |-> s[Nth(I, n)]]
=============================================================================
