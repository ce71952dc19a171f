-------------------------- MODULE MCAccountBudget ---------------------------
(* Two pages, a Nostr and a website identity, for TLC.                      *)
EXTENDS AccountBudget

Act(kind, ids, limit, reset) ==
    [kind |-> kind, ids |-> ids, limit |-> limit, reset |-> reset]
\* One page links the two identities, the other starts its account anew.
SomeActs ==
    <<{Act("link", <<"n", "w">>, 0, FALSE)}, {Act("settings", <<"n">>, 1, TRUE)}>>
=============================================================================
