---------------------------- MODULE ReconcileLoop ----------------------------
(***************************************************************************)
(* One call of ReconcileRuleOrder on a personalised router, iteration by   *)
(* iteration: the loop that filters the old order, the loop that inserts   *)
(* the template's new rules with slices.Insert (which panics when the      *)
(* index lies past the end of the list) and the final validation.          *)
(* RuleOrder gives the same result as a fold, in one expression.           *)
(***************************************************************************)
EXTENDS RuleOrder

CONSTANT Calls   \* the arguments <<input, nextShared, nextTemplateOrder>> of the call

ASSUME CallsAssumption == Calls \subseteq Snapshots \X Seq(ID) \X Seq(ID)

VARIABLES
    in, nextShared, nextOrder,   \* the arguments
    ids,                         \* the list under construction
    pos,                         \* the entry the current loop is at, from 1
    pc                           \* "filter", "insert", "validate", "accepted" or "rejected"

args == <<in, nextShared, nextOrder>>
vars == <<in, nextShared, nextOrder, ids, pos, pc>>

TypeOK ==
    /\ in \in Snapshots /\ nextShared \in Seq(ID) /\ nextOrder \in Seq(ID)
    /\ ids \in Seq(ID)
    /\ pos \in Nat \ {0}
    /\ pc \in {"filter", "insert", "validate", "accepted", "rejected"}

\* The call has passed both validations and the nil-order return.
Init ==
    /\ \E call \in Calls : in = call[1] /\ nextShared = call[2] /\ nextOrder = call[3]
    /\ Assembles(in)
    /\ Assembles(NextTemplate(nextShared, nextOrder))
    /\ in.personalOrder # Nil
    /\ ids = <<>> /\ pos = 1 /\ pc = "filter"

\* Mutant: only local rules outlive the update.
Outlives_LocalOnly(id) == id \in Range(in.local)

\* A local rule stays, a shared one stays if the next template has it.
Outlives(id) == id \in Range(in.local) \cup Range(nextShared)

\* Mutant: survivors are prepended.
Filter_Prepends ==
    /\ pc = "filter" /\ pos <= Len(Full(in))
    /\ ids' = IF Outlives(Full(in)[pos]) THEN <<Full(in)[pos]>> \o ids ELSE ids
    /\ pos' = pos + 1
    /\ UNCHANGED <<args, pc>>

Filter ==
    /\ pc = "filter" /\ pos <= Len(Full(in))
    /\ ids' = IF Outlives(Full(in)[pos]) THEN Append(ids, Full(in)[pos]) ELSE ids
    /\ pos' = pos + 1
    /\ UNCHANGED <<args, pc>>

EndFilter ==
    /\ pc = "filter" /\ pos > Len(Full(in))
    /\ pc' = "insert" /\ pos' = 1
    /\ UNCHANGED <<args, ids>>

\* Mutant: new rules are appended.
Insert_Appends ==
    /\ pc = "insert" /\ pos <= Len(nextOrder)
    /\ ids' = IF nextOrder[pos] \in Range(in.shared)
              THEN ids ELSE Append(ids, nextOrder[pos])
    /\ pos' = pos + 1
    /\ UNCHANGED <<args, pc>>

Insert ==
    /\ pc = "insert" /\ pos <= Len(nextOrder)
    /\ ids' = IF nextOrder[pos] \in Range(in.shared)
              THEN ids ELSE InsertAt(ids, pos, nextOrder[pos])
    /\ pos' = pos + 1
    /\ UNCHANGED <<args, pc>>

\* Mutant: the loop ends one entry early.
EndInsert_Early ==
    /\ pc = "insert" /\ pos >= Len(nextOrder)
    /\ pc' = "validate"
    /\ UNCHANGED <<args, ids, pos>>

EndInsert ==
    /\ pc = "insert" /\ pos > Len(nextOrder)
    /\ pc' = "validate"
    /\ UNCHANGED <<args, ids, pos>>

\* Mutant: the merged order is validated against the template alone.
Validate_TemplateOnly ==
    /\ pc = "validate"
    /\ pc' = IF AssemblesAs(NextTemplate(nextShared, nextOrder), ids)
             THEN "accepted" ELSE "rejected"
    /\ UNCHANGED <<args, ids, pos>>

Validate ==
    /\ pc = "validate"
    /\ LET next == [NextTemplate(nextShared, nextOrder) EXCEPT !.local = in.local]
       IN  pc' = IF AssemblesAs(next, ids) THEN "accepted" ELSE "rejected"
    /\ UNCHANGED <<args, ids, pos>>

Next == Filter \/ EndFilter \/ Insert \/ EndInsert \/ Validate

Spec == Init /\ [][Next]_vars

-----------------------------------------------------------------------------
(* Safety *)

\* slices.Insert never panics: whatever the update removed, enough entries
\* stand before the index at which a new rule is inserted.
InsertInBounds ==
    pc = "insert" /\ pos <= Len(nextOrder) /\ nextOrder[pos] \notin Range(in.shared)
        => pos <= Len(ids) + 1

\* A new rule that was inserted stays at its template index while the rest of
\* the new rules is inserted around it.
PlacedAtTemplateIndex ==
    pc # "filter" =>
        \A k \in DOMAIN nextOrder :
            (k < pos /\ nextOrder[k] \notin Range(in.shared)) =>
                k \in DOMAIN ids /\ ids[k] = nextOrder[k]

\* Rules that outlive the update keep the relative order the router gave them.
SurvivorsKeepOrder ==
    pc # "filter" =>
        \A x, y \in Range(Full(in)) :
            Outlives(x) /\ Outlives(y) /\ Precedes(Full(in), x, y) => Precedes(ids, x, y)

\* The final validation refuses the merged order in exactly one case: a rule
\* of the new template has the UUID of a local rule.
RefusedIffCollision ==
    LET collision == Range(nextOrder) \cap Range(in.local) # {}
    IN  /\ pc = "rejected" => collision
        /\ pc = "accepted" => ~collision

\* The loops compute the order that RuleOrder states as a fold.
LoopsMatchFold ==
    pc \in {"validate", "accepted", "rejected"} =>
        ids = ReconciledIDs(in, nextShared, nextOrder)
=============================================================================
