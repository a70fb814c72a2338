---------------------------- MODULE ActiveCatalog ----------------------------
(***************************************************************************)
(* What the blue/green catalog promises a search: the documents it finds   *)
(* cases of change only as a whole, from what was shown to a snapshot that *)
(* passed the quality gate, and one such snapshot waits at a time.  A      *)
(* catalog that has shown something never becomes empty again.             *)
(***************************************************************************)
CONSTANT Doc

VARIABLES
    shown,      \* the documents a search can find cases of
    offered     \* the snapshot that passed the gate and is not shown yet

Snapshot == (SUBSET Doc) \ {{}}
Nothing == {}

Init == shown = Nothing /\ offered = Nothing

Offer ==
    /\ offered = Nothing
    /\ offered' \in Snapshot
    /\ UNCHANGED shown

Withdraw == offered' = Nothing /\ UNCHANGED shown

Switch ==
    /\ offered # Nothing
    /\ shown' = offered
    /\ offered' = Nothing

Next == Offer \/ Withdraw \/ Switch

Spec == Init /\ [][Next]_<<shown, offered>>
===============================================================================
