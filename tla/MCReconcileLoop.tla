--------------------------- MODULE MCReconcileLoop ---------------------------
(***************************************************************************)
(* Every call on up to MaxFull rules and a next template of up to          *)
(* MaxNext.  UUIDs are interchangeable, so the old full order is 1, 2, ... *)
(* and the choice of the shared ones among them and of the next template   *)
(* covers the rest; nextShared lists the rules in reverse.                 *)
(***************************************************************************)
EXTENDS ReconcileLoop

CONSTANTS MaxFull, MaxNext, nil

MCID == 1 .. MaxFull + 1

NextOrders == {s \in SetToAllKPermutations(MCID) : Len(s) <= MaxNext}

OldOrder(n) == [k \in 1 .. n |-> k]

Snapshot(n, S) ==
    [shared        |-> SelectSeq(OldOrder(n), LAMBDA id : id \in S),
     local         |-> SelectSeq(OldOrder(n), LAMBDA id : id \notin S),
     templateOrder |-> Reverse(SelectSeq(OldOrder(n), LAMBDA id : id \in S)),
     personalOrder |-> OldOrder(n),
     exclusions    |-> <<>>]

MCCalls ==
    {<<Snapshot(n, S), Reverse(next), next>> :
        n \in 0 .. MaxFull, S \in SUBSET (1 .. MaxFull), next \in NextOrders}
=============================================================================
