---------------------------- MODULE MCRouterOrder ----------------------------
(***************************************************************************)
(* RouterOrder on a few UUIDs.  A template offers every order of up to     *)
(* MaxShared rules; its document lists them in that order or in reverse.   *)
(* Every kind of malformed offer the validation refuses is there as well.  *)
(***************************************************************************)
EXTENDS RouterOrder

CONSTANTS a, b, c, d, bad, nil

MCValidID == {a, b, c, d}
MCID == MCValidID \cup {bad}

CONSTANT MaxShared   \* bound: rules of the template

Orders == {s \in SetToAllKPermutations(MCValidID) : Len(s) <= MaxShared}

Malformed ==
    {<<s, Tail(s)>> : s \in Orders \ {<<>>}}            \* a rule without a place
    \cup {<<Tail(s), s>> : s \in Orders \ {<<>>}}       \* a place without a rule
    \cup {<<s, s \o s>> : s \in Orders \ {<<>>}}        \* a place taken twice
    \cup {<<s \o s, s>> : s \in Orders \ {<<>>}}        \* a rule listed twice
    \cup {<<<<bad>>, <<bad>>>>}                         \* a malformed UUID

MCTemplateOffers ==
    {<<s, s>> : s \in Orders} \cup {<<Reverse(s), s>> : s \in Orders} \cup Malformed

Symmetry == Permutations(MCValidID)

=============================================================================
