---------------------------- MODULE LoadContract ----------------------------
(* What a player is promised by a fragment loader: each load it asks for is *)
(* answered by exactly one callback, none after it has given the loader up, *)
(* and a load is asked for only when the one before it is over.             *)
EXTENDS Naturals

CONSTANTS Loaders, MaxLoads

VARIABLE asked                  \* asked[l][n]: what became of load n of l

Loads == 1..MaxLoads
Fates == {"unasked", "open", "answered", "dropped"}
Moves == {<<"unasked", "open">>, <<"open", "answered">>, <<"open", "dropped">>}

InOrder(a) == \A l \in Loaders, n \in Loads : 
    n + 1 \in Loads /\ a[l][n + 1] # "unasked" => a[l][n] \in {"answered", "dropped"}

Init == asked = [l \in Loaders |-> [n \in Loads |-> "unasked"]]

\* A stop of the page can answer several loads at once.
Next ==
    /\ asked' \in [Loaders -> [Loads -> Fates]]
    /\ \A l \in Loaders, n \in Loads :
          asked'[l][n] # asked[l][n] => <<asked[l][n], asked'[l][n]>> \in Moves
    /\ InOrder(asked')

Spec == Init /\ [][Next]_asked
=============================================================================
