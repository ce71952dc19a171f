----------------------------- MODULE Allowance ------------------------------
(* What an account's allowance promises to the pages that upload under it,  *)
(* whatever crashes, is retried or is answered late: a page uploads only    *)
(* what the durable account has been charged for, and a charge stays.       *)
CONSTANT
    Charge                      \* the reservations pages may make

VARIABLES
    charged,                    \* those the durable ledger has counted
    admitted                    \* those a page was told it may upload

vars == <<charged, admitted>>

Init == charged = {} /\ admitted = {}

\* One durable write counts all the reservations of a batch.
Count ==
    /\ \E batch \in (SUBSET (Charge \ charged)) \ {{}} : charged' = charged \union batch
    /\ UNCHANGED admitted

Admit ==
    /\ \E c \in charged \ admitted : admitted' = admitted \union {c}
    /\ UNCHANGED charged

Next == Count \/ Admit

Spec == Init /\ [][Next]_vars
=============================================================================
