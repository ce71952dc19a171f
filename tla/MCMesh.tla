------------------------------- MODULE MCMesh -------------------------------
(* Three viewers: the first has no free slot, the second no links and the   *)
(* third one.                                                               *)
EXTENDS Mesh

SomeCrowds == <<{2}, {0}, {1}>>
=============================================================================
