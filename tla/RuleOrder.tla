------------------------------ MODULE RuleOrder ------------------------------
(***************************************************************************)
(* The order of routing rules on one router: the pure functions of         *)
(* internal/configuration/rule_order.go over one snapshot                  *)
(*                                                                         *)
(*   [shared, local, templateOrder, personalOrder, exclusions]             *)
(*                                                                         *)
(* (RuleOrderInput).  An element reference is its UUID: the positions,     *)
(* owners and diagnostics that go with it decide nothing here.  A function *)
(* that may refuse its input is a pair of operators, the condition under   *)
(* which it returns a candidate and the candidate itself.                  *)
(***************************************************************************)
EXTENDS Naturals, Sequences, FiniteSets, Functions, SequencesExt, RuleLists

CONSTANTS
    ID,       \* the strings a caller may pass as UUIDs
    ValidID,  \* those that ValidElementID accepts
    Nil       \* a nil PersonalOrder: the router follows its template

ASSUME ValidIDAssumption == ValidID \subseteq ID
ASSUME NilAssumption == Nil \notin Seq(ID)

Snapshots ==
    [shared : Seq(ID), local : Seq(ID), templateOrder : Seq(ID),
     personalOrder : Seq(ID) \cup {Nil}, exclusions : Seq(ID)]

-----------------------------------------------------------------------------
(* Validation and assembly *)

\* No UUID is malformed and none occurs twice.
DistinctValid(ids) == ids \in Seq(ValidID) /\ IsInjective(ids)

\* Mutant: an exclusion whose source vanished is accepted.
ValidMetadata_DanglingAccepted(in) ==
    /\ DistinctValid(in.shared)
    /\ DistinctValid(in.local)
    /\ Range(in.shared) \cap Range(in.local) = {}
    /\ DistinctValid(in.exclusions)

\* Shared and local rules share one UUID space, shared ones first; an exclusion
\* names each source at most once and only a source the template still has.
ValidMetadata(in) ==
    /\ DistinctValid(in.shared)
    /\ DistinctValid(in.local)
    /\ Range(in.shared) \cap Range(in.local) = {}
    /\ DistinctValid(in.exclusions)
    /\ Range(in.exclusions) \subseteq Range(in.shared)

\* The list names every expected UUID once and nothing else.
ValidOrderedIDs(ids, expected) == DistinctValid(ids) /\ Range(ids) = expected

\* RuleOrder.Full: an explicit order, even an empty one, wins over the template.
Full(in) == IF in.personalOrder = Nil THEN in.templateOrder ELSE in.personalOrder

\* RuleOrder.Visible: the full order without the excluded shared rules.
Visible(in) == Retain(Full(in), ID \ Range(in.exclusions))

\* The rules SelectRouterElements selects content for, and whose content
\* SelectOrderedRouterElements looks up by the visible order.
Selected(in) == (Range(in.shared) \ Range(in.exclusions)) \cup Range(in.local)

\* AssembleRuleOrder returns no issue for the snapshot and the full order ids.
AssemblesAs(in, ids) ==
    /\ ValidMetadata(in)
    /\ ValidOrderedIDs(in.templateOrder, Range(in.shared))
    /\ ValidOrderedIDs(ids, Range(in.shared) \cup Range(in.local))

Assembles(in) == AssemblesAs(in, Full(in))

-----------------------------------------------------------------------------
(* Edits.  An index is counted from 0, as in the code. *)

Candidate(full, personal) == [full |-> full, personalOrder |-> personal]

\* Mutant: the order is appended to a list made with its length, so it begins
\* with as many empty strings.
Personalized_Appends(ids) ==
    LET copy == [k \in DOMAIN ids |-> ""] \o ids IN Candidate(copy, copy)

Personalized(ids) == Candidate(ids, ids)

CanInsertLocal(in, id, index) ==
    /\ Assembles(in)
    /\ index \in 0..Len(Full(in))
    /\ id \in ValidID
    /\ id \notin Range(Full(in))

InsertLocalRule(in, id, index) == Personalized(InsertAt(Full(in), index + 1, id))

CanMove(in, id, index) ==
    /\ Assembles(in)
    /\ id \in ValidID
    /\ index \in 0 .. Len(Full(in)) - 1
    /\ id \in Range(Full(in))

\* The index counts in the list from which the moved UUID has been taken out.
MoveRule(in, id, index) ==
    LET old == CHOOSE k \in DOMAIN Full(in) : Full(in)[k] = id
    IN  Personalized(InsertAt(RemoveAt(Full(in), old), index + 1, id))

CanReset(in) == Assembles(in)

\* Mutant: local rules gather at the front instead of keeping their slots.
ResetRuleOrder_LocalFirst(in) ==
    IF Range(in.local) = {} THEN Candidate(in.templateOrder, Nil)
    ELSE Personalized(in.local \o in.templateOrder)

\* A local rule keeps its numeric slot between the rules of the template order;
\* a router without local rules follows its template again.
ResetRuleOrder(in) ==
    LET ids == Refill(Full(in), in.templateOrder, Range(in.local))
    IN  IF Range(in.local) = {} THEN Candidate(ids, Nil) ELSE Personalized(ids)

\* The template alone, as ReconcileRuleOrder assembles it first.
NextTemplate(nextShared, nextOrder) ==
    [shared |-> nextShared, local |-> <<>>, templateOrder |-> nextOrder,
     personalOrder |-> Nil, exclusions |-> <<>>]

\* Rules of the old full order that outlive the template change.
Survivors(in, nextShared) ==
    Retain(Full(in), Range(in.local) \cup Range(nextShared))

\* Mutant: the shared rules are rebuilt in template order.
ReconciledIDs_Rebuilt(in, nextShared, nextOrder) ==
    nextOrder \o Retain(Full(in), Range(in.local))

\* Every UUID the template did not have is inserted at its new template index,
\* in template order.
ReconciledIDs(in, nextShared, nextOrder) ==
    Place(Survivors(in, nextShared), nextOrder, Range(in.shared))

\* Mutant: the merged order is not validated.
CanReconcile_Unvalidated(in, nextShared, nextOrder) ==
    Assembles(in) /\ Assembles(NextTemplate(nextShared, nextOrder))

\* The merged order is validated against the new template and the local
\* rules, without exclusions.
CanReconcile(in, nextShared, nextOrder) ==
    LET next == NextTemplate(nextShared, nextOrder)
    IN  /\ Assembles(in)
        /\ Assembles(next)
        /\ in.personalOrder # Nil =>
              AssemblesAs([next EXCEPT !.local = in.local],
                          ReconciledIDs(in, nextShared, nextOrder))

\* Mutant: the length of the order is tested instead of nil.
ReconcileRuleOrder_LenZero(in, nextShared, nextOrder) ==
    IF in.personalOrder \in {Nil, <<>>}
    THEN Candidate(nextOrder, Nil)
    ELSE Personalized(ReconciledIDs(in, nextShared, nextOrder))

ReconcileRuleOrder(in, nextShared, nextOrder) ==
    IF in.personalOrder = Nil
    THEN Candidate(nextOrder, Nil)
    ELSE Personalized(ReconciledIDs(in, nextShared, nextOrder))

=============================================================================
