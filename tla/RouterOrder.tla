----------------------------- MODULE RouterOrder -----------------------------
(***************************************************************************)
(* The rule order of one router over a long sequence of legal calls.  The  *)
(* state is the snapshot a caller keeps and passes to every call           *)
(* (RuleOrderInput); a call that returns a candidate is followed by the    *)
(* caller storing it, a call that returns issues changes nothing.          *)
(* The exclusion records are the caller's own: the functions only validate *)
(* and apply them.                                                         *)
(***************************************************************************)
EXTENDS RuleOrder

CONSTANTS
    TemplateOffers,   \* pairs <<shared, templateOrder>> a template may change to
    MaxLocal,         \* bound: local rules of the router
    MaxExclusions     \* bound: exclusion records of the router

ASSUME OffersAssumption == TemplateOffers \subseteq Seq(ID) \X Seq(ID)
ASSUME BoundsAssumption == MaxLocal \in Nat /\ MaxExclusions \in Nat

VARIABLES
    shared,         \* UUIDs of the template's rules, in document order
    local,          \* UUIDs of the router's own rules
    templateOrder,  \* the template's order of its rules
    personalOrder,  \* the router's order, or Nil
    exclusions      \* UUIDs of the shared rules hidden on this router

vars == <<shared, local, templateOrder, personalOrder, exclusions>>

Snapshot == [shared |-> shared, local |-> local, templateOrder |-> templateOrder,
             personalOrder |-> personalOrder, exclusions |-> exclusions]

TypeOK == Snapshot \in Snapshots

\* A router connects to a template with no personal settings of its own.
Init ==
    /\ \E offer \in TemplateOffers :
        /\ shared = offer[1] /\ templateOrder = offer[2]
        /\ DistinctValid(shared) /\ ValidOrderedIDs(templateOrder, Range(shared))
    /\ local = <<>>
    /\ personalOrder = Nil
    /\ exclusions = <<>>

-----------------------------------------------------------------------------
(* Rule order operations *)

InsertLocal(id, index) ==
    /\ Len(local) < MaxLocal
    /\ CanInsertLocal(Snapshot, id, index)
    /\ local' = Append(local, id)
    /\ personalOrder' = InsertLocalRule(Snapshot, id, index).personalOrder
    /\ UNCHANGED <<shared, templateOrder, exclusions>>

Move(id, index) ==
    /\ CanMove(Snapshot, id, index)
    /\ personalOrder' = MoveRule(Snapshot, id, index).personalOrder
    /\ UNCHANGED <<shared, local, templateOrder, exclusions>>

Reset ==
    /\ CanReset(Snapshot)
    /\ personalOrder' = ResetRuleOrder(Snapshot).personalOrder
    /\ UNCHANGED <<shared, local, templateOrder, exclusions>>

\* The template changes; the router's exclusions are not touched, whether or
\* not their sources are still there.
Reconcile(nextShared, nextOrder) ==
    /\ CanReconcile(Snapshot, nextShared, nextOrder)
    /\ shared' = nextShared
    /\ templateOrder' = nextOrder
    /\ personalOrder' = ReconcileRuleOrder(Snapshot, nextShared, nextOrder).personalOrder
    /\ UNCHANGED <<local, exclusions>>

-----------------------------------------------------------------------------
(* The caller's exclusion records *)

\* Mutant: a record is stored without validation.
Exclude_Unvalidated(id) ==
    /\ Len(exclusions) < MaxExclusions
    /\ exclusions' = Append(exclusions, id)
    /\ UNCHANGED <<shared, local, templateOrder, personalOrder>>

\* A record is stored only when the whole snapshot passes the validation.
Exclude(id) ==
    /\ Len(exclusions) < MaxExclusions
    /\ exclusions' = Append(exclusions, id)
    /\ ValidMetadata([Snapshot EXCEPT !.exclusions = Append(exclusions, id)])
    /\ UNCHANGED <<shared, local, templateOrder, personalOrder>>

\* A record can always be dropped, a dangling one too.
DropExclusion(k) ==
    /\ exclusions' = RemoveAt(exclusions, k)
    /\ UNCHANGED <<shared, local, templateOrder, personalOrder>>

-----------------------------------------------------------------------------

Next ==
    \/ \E id \in ID, index \in 0..Len(Full(Snapshot)) : InsertLocal(id, index)
    \/ \E id \in ID, index \in 0..Len(Full(Snapshot)) : Move(id, index)
    \/ Reset
    \/ \E offer \in TemplateOffers : Reconcile(offer[1], offer[2])
    \/ \E id \in ID : Exclude(id)
    \/ \E k \in DOMAIN exclusions : DropExclusion(k)

Spec == Init /\ [][Next]_vars

-----------------------------------------------------------------------------
(* Safety *)

\* Some exclusion names a rule the template no longer has.
Dangling == ~ Range(exclusions) \subseteq Range(shared)

\* The stored order never loses, duplicates or invents a rule, however often
\* the template changed under it; a router that follows its template has no
\* local rules that this order would drop (AssembleRuleOrder).
OrderComplete ==
    IF personalOrder = Nil
    THEN local = <<>>
    ELSE ValidOrderedIDs(personalOrder, Range(shared) \cup Range(local))

\* What the calls leave behind is always accepted by the next call, the one
\* exception being an exclusion whose source a template change removed.
AssemblesUnlessDangling == Assembles(Snapshot) <=> ~Dangling

\* An exclusion is a record about a shared rule.  It never comes to hide a
\* local rule, not even when its source vanished and the UUID is used again.
ExclusionNeverHidesLocal == Range(exclusions) \cap Range(local) = {}

\* Order and selection are computed from the same snapshot by two functions
\* that share the validation of the records and nothing after it; whatever the calls before, the visible order has exactly
\* the rules that were selected, so none is missing from the router's
\* configuration and none is looked up in vain (SelectOrderedRouterElements).
SelectionIsVisible ==
    Assembles(Snapshot) => Range(Visible(Snapshot)) = Selected(Snapshot)

-----------------------------------------------------------------------------
(* Action properties *)

FullNow == Full(Snapshot)

TemplateChanges == shared' # shared \/ templateOrder' # templateOrder

\* Two rules that are present before and after a step swap their relative
\* order only for a reason the administrator knows: one of them was moved, the
\* order was reset (two local rules never swap then), or the router follows a
\* template that changed.  In particular a template update never reorders the
\* rules of a personalised router.
SwapsOnlyByIntent ==
    [][\A x, y \in Range(FullNow) \cap Range(FullNow') :
         Precedes(FullNow, x, y) /\ Precedes(FullNow', y, x) =>
            \/ \E i \in 0..Len(FullNow) : Move(x, i) \/ Move(y, i)
            \/ Reset /\ ~ {x, y} \subseteq Range(local)
            \/ personalOrder = Nil /\ TemplateChanges]_vars

\* ResetRuleOrder: local rules keep their numeric slots and what stands
\* between them is the template order, complete.
ResetRestoresTemplate ==
    [][Reset =>
         /\ \A k \in DOMAIN FullNow :
                FullNow[k] \in Range(local) => FullNow'[k] = FullNow[k]
         /\ Retain(FullNow', Range(shared)) = templateOrder]_vars

\* Once a router has an order of its own it follows the template again only
\* through a reset with no local rule left; a template update, even one that
\* empties the template, does not make it follow.
PersonalUntilReset ==
    [][personalOrder # Nil /\ personalOrder' = Nil => Reset /\ local = <<>>]_vars

\* While an exclusion dangles nothing but the exclusion records can change:
\* the order, the local rules and the template snapshot are frozen.
FrozenWhileDangling ==
    [][Dangling => UNCHANGED <<shared, local, templateOrder, personalOrder>>]_vars
=============================================================================
