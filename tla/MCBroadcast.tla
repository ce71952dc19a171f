---------------------------- MODULE MCBroadcast -----------------------------
(* Two publishers of one directory, each with an encoder and a forwarder,   *)
(* the second started at any time.                                          *)
EXTENDS Broadcast
=============================================================================
