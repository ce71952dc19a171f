----------------------------- MODULE MCPeerLink -----------------------------
(* Values for the constants of PeerLink.                                    *)
EXTENDS PeerLink, TLC

CONSTANTS a, b, k1, k2

Piece(from, to) == [start |-> from, end |-> to]
Want(k, r, e) == [key |-> k, range |-> r, expected |-> e]

MCNode == {a, b}
MCKey == {k1, k2}
MCSize == k1 :> 3 @@ k2 :> 1
MCHeld == [n \in MCNode |-> MCSize]

\* One viewer asks: a whole object of known size, one of unknown size, and a
\* piece range.
OneAsks == a :> {Want(k1, Whole, 3), Want(k2, Whole, 0), Want(k1, Piece(1, 3), 2)}
           @@ b :> {}
OneBound == a :> 2 @@ b :> 0

\* Both ask, over holders whose object under k2 is not the size that its
\* commitment says: one a whole object, the other a piece range.
BothAsk == a :> {Want(k1, Whole, 3), Want(k2, Whole, 1)}
           @@ b :> {Want(k1, Piece(0, 2), 2)}
BothBound == a :> 1 @@ b :> 1
Misheld == [n \in MCNode |-> k1 :> 3 @@ k2 :> 2]
=============================================================================
