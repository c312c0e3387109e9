--------------------------- MODULE MCLruTtlCache ---------------------------
(* Three keys and room for two, so that puts evict; a lifetime of two      *)
(* ticks on a clock of four, so that entries expire and are put again.     *)
EXTENDS LruTtlCache, TLC

Symmetry == Permutations(Keys) \cup Permutations(Values)
=============================================================================
