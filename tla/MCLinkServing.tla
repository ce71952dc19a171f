---------------------------- MODULE MCLinkServing ----------------------------
(* Values for the constants of LinkServing.                                 *)
EXTENDS LinkServing, TLC

CONSTANTS k1

MCKey == {k1}
MCSize == k1 :> 2
=============================================================================
