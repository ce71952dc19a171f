----------------------------- MODULE MCWarmAhead ----------------------------
(* Fragments of two sizes, for TLC.                                         *)
EXTENDS WarmAhead, TLC

MCSize == [k \in Items |-> IF k = 1 THEN 2 ELSE 1]
Symmetry == Permutations(Loaders)
=============================================================================
