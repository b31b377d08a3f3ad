----------------------------- MODULE InboundDraft -----------------------------
(***************************************************************************)
(* The draft of one router while its rules, its inbounds and its template  *)
(* change.  Everything but the removal and the deactivation of an inbound  *)
(* is free, even if it leaves a draft that is not ready; those two go      *)
(* through GuardInboundChange, which sees the candidate with the other     *)
(* edits of the same change in it.                                         *)
(***************************************************************************)
EXTENDS InboundDependencies

CONSTANTS
    TemplateIDs,   \* bound: the elements a template may have
    LocalIDs       \* bound: the elements a router may add

ASSUME BoundsAssumption == TemplateIDs \subseteq ID /\ LocalIDs \subseteq ID

VARIABLE draft   \* the snapshot the caller keeps

TypeOK == draft \in Snapshots

\* A router connects to a template with no settings of its own.
Init ==
    \E shared \in SUBSET TemplateIDs, content \in [ID -> RuleContents \cup InboundContents] :
        /\ \A id \in ID : content[id] \in Contents(id)
        /\ draft = [shared |-> shared, local |-> {}, excluded |-> {}, disabled |-> {},
                    content |-> content]

-----------------------------------------------------------------------------
(* Free edits of the caller *)

\* Other content is selected: the template's, an override's or a local edit.
EditContent(id) ==
    \E c \in Contents(id) : draft' = [draft EXCEPT !.content[id] = c]

\* The template gains or loses an element, records of the router that name it
\* are not touched.
ChangeTemplate(id) ==
    draft' = [draft EXCEPT !.shared =
                IF id \in draft.shared THEN draft.shared \ {id} ELSE draft.shared \cup {id}]

AddLocal(id) ==
    /\ id \notin draft.shared \cup draft.local
    /\ draft' = [draft EXCEPT !.local = @ \cup {id}]

RemoveLocalRule(id) ==
    /\ id \in draft.local \cap RuleID
    /\ draft' = [draft EXCEPT !.local = @ \ {id}, !.disabled = @ \ {id}]

HideRule(id) ==
    /\ id \in (draft.shared \cup draft.local) \cap RuleID
    /\ \/ draft' = [draft EXCEPT !.disabled = @ \cup {id}]
       \/ id \in draft.shared /\ draft' = [draft EXCEPT !.excluded = @ \cup {id}]

\* A mark of a rule or an inbound is dropped, a dangling one too.
Restore(id) ==
    /\ id \in draft.disabled \cup draft.excluded
    /\ \/ draft' = [draft EXCEPT !.disabled = @ \ {id}]
       \/ draft' = [draft EXCEPT !.excluded = @ \ {id}]

-----------------------------------------------------------------------------
(* Guarded changes *)

\* The candidate: the draft with at most one rule edited in the same change.
\* (Whether the mark of the action is set in it too makes no difference, see
\* MarksDoNotMatter.)
Candidates ==
    {draft} \cup {[draft EXCEPT !.content[r] = c] : r \in RuleID, c \in RuleContents}
            \cup {[draft EXCEPT !.disabled = @ \cup {r}] :
                      r \in (draft.shared \cup draft.local) \cap RuleID}

ChangeInbound(target, action, in) ==
    /\ draft' = Apply(in, target, action)
    /\ CanChange(in, target)

-----------------------------------------------------------------------------

Next ==
    \/ \E id \in ID : EditContent(id) \/ RemoveLocalRule(id) \/ HideRule(id) \/ Restore(id)
    \/ \E id \in TemplateIDs : ChangeTemplate(id)
    \/ \E id \in LocalIDs : AddLocal(id)
    \/ \E in \in Candidates, target \in InboundID, action \in Actions :
          ChangeInbound(target, action, in)

Spec == Init /\ [][Next]_draft

-----------------------------------------------------------------------------
(* Properties *)

\* What the guard says of the candidate holds of the draft it leads to: the
\* analysis accepts it and finds it ready exactly if the guard did, although
\* the guard counted the target as a provider (InboundActionCandidate.Ready).
GuardTellsOutcome ==
    [][\A in \in Candidates, target \in InboundID, action \in Actions :
         ChangeInbound(target, action, in) =>
            /\ Analyzes(draft', None)
            /\ Ready(draft', None) <=> Ready(in, target)]_draft

\* A guarded change never moves or breaks a reference that outlives it: what
\* an active rule named resolves to the same inbound as before.
SameProvider ==
    [][\A in \in Candidates, target \in InboundID, action \in Actions :
         ChangeInbound(target, action, in) =>
            \A ref \in References(draft) \cap References(draft') :
                Resolved(draft', None, ref) = Resolved(draft, None, ref)]_draft

\* A guarded deactivation can be taken back: with the marks of the target
\* dropped the draft is analysed without an issue, no tag became ambiguous.
DisableIsReversible ==
    [][\A in \in Candidates, target \in InboundID :
         ChangeInbound(target, "disable", in) =>
            Analyzes([draft' EXCEPT !.disabled = @ \ {target}, !.excluded = @ \ {target}],
                     None)]_draft

\* The guard gives the same answer whether the candidate it is shown has the
\* target's mark set already or not.
MarksDoNotMatter ==
    \A target \in InboundID \cap (draft.shared \cup draft.local) :
        \A action \in {"disable"} \cup (IF target \in draft.shared THEN {"remove"} ELSE {}) :
            CanChange(Apply(draft, target, action), target) = CanChange(draft, target)

\* What the specification of routing dependencies says of an inbound no active
\* rule refers to: it may be disabled or removed.  (Of a draft the analysis
\* accepts, for an inbound whose content can be read.)
UnusedInboundMayGo ==
    \A target \in InboundID \cap (draft.shared \cup draft.local) :
        /\ Analyzes(draft, None)
        /\ target \notin draft.excluded
        /\ draft.content[target] # Broken
        /\ \A ref \in References(draft) : ref[2] \notin Tags(draft, target)
        => CanChange(draft, target)
=============================================================================
