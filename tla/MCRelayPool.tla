----------------------------- MODULE MCRelayPool ----------------------------
(* Two relays, for TLC.                                                     *)
EXTENDS RelayPool

MCUrls == {"a", "b"}
MCModes == {"reconnect", "first", "all"}
Reconnecting == {"reconnect"}
=============================================================================
