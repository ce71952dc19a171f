----------------------------- MODULE MCTransfer -----------------------------
(* Small transfers for TLC.  A page learns from a worker only that the      *)
(* transfer ended, so that behind one the object may as well be sound.      *)
EXTENDS Transfer

Every == [mode : {"mixed", "exclusive", "peer_only"}, sound : BOOLEAN, worker : BOOLEAN]
AllCases == {c \in Every : c.worker => c.sound}
PeersAlone == {c \in Every : c.mode = "peer_only" /\ c.sound /\ ~c.worker}
=============================================================================
