------------------------------ MODULE RuleLists ------------------------------
(***************************************************************************)
(* Lists of rules: the loops of rule_order.go and catalog.go that copy a   *)
(* list and skip, replace or insert some entries.                          *)
(***************************************************************************)
EXTENDS SequencesExt

\* The entries of s that are in keep, in the order of s.
Retain(s, keep) ==
    FoldLeft(LAMBDA kept, e : IF e \in keep THEN Append(kept, e) ELSE kept, <<>>, s)

\* How many of the first k entries are not in L: the value of sharedIndex once
\* the loop of ResetRuleOrder has passed a shared rule k.
SharedUpTo(full, L, k) == Cardinality({j \in 1 .. k : full[j] \notin L})

\* Members of L keep their slots, the other slots are refilled from T in order.
Refill(full, T, L) ==
    [k \in DOMAIN full |-> IF full[k] \in L THEN full[k] ELSE T[SharedUpTo(full, L, k)]]

\* The entries of order that are not in known are inserted into list one by
\* one, in order, each at its own index.
Place(list, order, known) ==
    FoldLeftDomain(LAMBDA placed, k : IF order[k] \in known
                                      THEN placed ELSE InsertAt(placed, k, order[k]),
                   list, order)

\* Relative order in a list, for stating properties.
Precedes(s, x, y) == \E i, j \in DOMAIN s : i < j /\ s[i] = x /\ s[j] = y
=============================================================================
