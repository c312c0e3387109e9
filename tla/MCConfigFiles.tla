--------------------------- MODULE MCConfigFiles ---------------------------
(* Two consoles, lists of up to two of two items.                          *)
EXTENDS ConfigFiles, TLC

Symmetry == Permutations(Consoles) \cup Permutations(Items)
=============================================================================
