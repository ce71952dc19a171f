------------------------------ MODULE MCLoader ------------------------------
(* Loaders that are interchangeable to the page, for TLC.                   *)
EXTENDS Loader, TLC

Symmetry == Permutations(Loaders)
=============================================================================
