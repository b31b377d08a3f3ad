----------------------------- MODULE CatalogDraft -----------------------------
(***************************************************************************)
(* The draft of one router from which the catalog is assembled, over any   *)
(* sequence of edits.  Every edit is free, a draft may be unready for as   *)
(* long as its editor likes, except that inbounds are disabled and removed *)
(* through GuardInboundChange and rules are ordered by the operations of   *)
(* the rule order.                                                         *)
(***************************************************************************)
EXTENDS Catalog

CONSTANTS
    ContentChoices,  \* bound: the contents an element may have
    Markers,         \* bound: the markers an element may carry
    TemplateRules,   \* bound: the orders the template may have
    LocalRules,      \* bound: rules the router may add
    LocalRecords,    \* bound: other elements the router may add
    TemplateRecords, \* bound: other elements the template may gain or lose
    Suppliable       \* bound: optional sections the caller may pass or not

ASSUME ChoicesAssumption ==
    \A id \in ID : ContentChoices[id] \subseteq Contents(id) /\ ContentChoices[id] # {}
ASSUME MarkersAssumption == \A id \in ID : Markers[id] \subseteq ID \cup {Absent}
ASSUME TemplateAssumption == TemplateRules \subseteq Seq(RuleID)
ASSUME LocalAssumption ==
    /\ LocalRules \subseteq RuleID
    /\ LocalRecords \subseteq RecordID
    /\ TemplateRecords \subseteq RecordID \ LocalRecords
ASSUME SuppliableAssumption == Suppliable \subseteq Optional

VARIABLE draft   \* the snapshot the caller keeps

TypeOK == IsSnapshot(draft)

\* A router connects to a template with no settings of its own.
Init ==
    \E order \in TemplateRules :
        draft = [supplied |-> Sections \ Suppliable, shared |-> RecordID \ LocalRecords, local |-> {},
                 excluded |-> {}, disabled |-> {},
                 content |-> [id \in ID |-> CHOOSE c \in ContentChoices[id] : TRUE],
                 marker |-> [id \in ID |-> Absent],
                 rules |-> [shared |-> order, local |-> <<>>, templateOrder |-> order,
                            personalOrder |-> Absent, exclusions |-> <<>>]]

-----------------------------------------------------------------------------
(* Contents *)

\* Other content is selected for an element: the template's or the router's.
EditContent(id) ==
    \E c \in ContentChoices[id] \ {draft.content[id]} : draft' = [draft EXCEPT !.content[id] = c]

EditMarker(id, m) ==
    /\ draft.marker[id] # m
    /\ draft' = [draft EXCEPT !.marker[id] = m]

-----------------------------------------------------------------------------
(* Rules *)

InsertRule(id, index) ==
    /\ id \in LocalRules
    /\ Order!CanInsertLocal(draft.rules, id, index)
    /\ draft' = [draft EXCEPT
          !.rules.local = Append(@, id),
          !.rules.personalOrder = Order!InsertLocalRule(draft.rules, id, index).personalOrder]

MoveRule(id, index) ==
    /\ Order!CanMove(draft.rules, id, index)
    /\ draft' = [draft EXCEPT
          !.rules.personalOrder = Order!MoveRule(draft.rules, id, index).personalOrder]

ResetRules ==
    /\ Order!CanReset(draft.rules)
    /\ draft' = [draft EXCEPT
          !.rules.personalOrder = Order!ResetRuleOrder(draft.rules).personalOrder]

\* The template's rules change; marks and exclusions of the router stay.
ReconcileRules(order) ==
    /\ Order!CanReconcile(draft.rules, order, order)
    /\ draft' = [draft EXCEPT
          !.rules.shared = order,
          !.rules.templateOrder = order,
          !.rules.personalOrder =
              Order!ReconcileRuleOrder(draft.rules, order, order).personalOrder]

DisableRule(id) ==
    /\ id \in Range(Order!Full(draft.rules)) \ draft.disabled
    /\ draft' = [draft EXCEPT !.disabled = @ \cup {id}]

ExcludeRule(id) ==
    /\ id \in Range(draft.rules.shared) \ Range(draft.rules.exclusions)
    /\ draft' = [draft EXCEPT !.rules.exclusions = Append(@, id)]

\* A mark is dropped, a dangling one too.
RestoreRule(id) ==
    \/ /\ id \in draft.disabled
       /\ draft' = [draft EXCEPT !.disabled = @ \ {id}]
    \/ /\ id \in Range(draft.rules.exclusions)
       /\ draft' = [draft EXCEPT !.rules.exclusions = Retain(@, RuleID \ {id})]

-----------------------------------------------------------------------------
(* The other elements *)

\* Inbounds are disabled or removed only if nobody needs them.
ChangeInbound(id, action) ==
    /\ CASE action = "disable" -> draft' = [draft EXCEPT !.disabled = @ \cup {id}]
         [] action = "remove" /\ id \in draft.shared ->
                draft' = [draft EXCEPT !.excluded = @ \cup {id}]
         [] action = "remove" /\ id \notin draft.shared ->
                draft' = [draft EXCEPT !.local = @ \ {id}, !.disabled = @ \ {id}]
    /\ Inbound!CanChange(InboundView(draft), id)

Exclude(id) ==
    /\ id \in draft.shared \ (draft.excluded \cup InboundID)
    /\ draft' = [draft EXCEPT !.excluded = @ \cup {id}]

Restore(id) ==
    \/ /\ id \in draft.excluded
       /\ draft' = [draft EXCEPT !.excluded = @ \ {id}]
    \/ /\ id \in draft.disabled \cap InboundID
       /\ draft' = [draft EXCEPT !.disabled = @ \ {id}]

AddLocal(id) ==
    /\ id \in LocalRecords \ (draft.shared \cup draft.local)
    /\ draft' = [draft EXCEPT !.local = @ \cup {id}]

RemoveLocal(id) ==
    /\ id \in draft.local \ InboundID
    /\ draft' = [draft EXCEPT !.local = @ \ {id}]

\* The template gains or loses an element; what the router has of it stays.
ChangeTemplate(id) ==
    /\ id \in TemplateRecords
    /\ draft' = [draft EXCEPT !.shared = IF id \in @ THEN @ \ {id} ELSE @ \cup {id}]

\* The caller passes an optional section, or stops passing it.
ChangeSupply(g) ==
    draft' = [draft EXCEPT !.supplied = IF g \in @ THEN @ \ {g} ELSE @ \cup {g}]

-----------------------------------------------------------------------------

Next ==
    \/ \E id \in ID : EditContent(id)
    \/ \E id \in ID : \E m \in Markers[id] : EditMarker(id, m)
    \/ \E id \in RuleID, index \in 0 .. Len(Order!Full(draft.rules)) :
          InsertRule(id, index) \/ MoveRule(id, index)
    \/ ResetRules
    \/ \E order \in TemplateRules : ReconcileRules(order)
    \/ \E id \in RuleID : DisableRule(id) \/ ExcludeRule(id) \/ RestoreRule(id)
    \/ \E id \in InboundID, action \in Inbound!Actions : ChangeInbound(id, action)
    \/ \E id \in RecordID :
          Exclude(id) \/ Restore(id) \/ AddLocal(id) \/ RemoveLocal(id) \/ ChangeTemplate(id)
    \/ \E g \in Suppliable : ChangeSupply(g)

Spec == Init /\ [][Next]_draft

-----------------------------------------------------------------------------
(* What the catalog promises about any draft *)

\* The catalog is refused for its dependencies exactly if one of the two
\* analyses fails or is not ready, although it selects the contents itself and
\* tells from the list of findings, not from Ready, whether they block
\* (analyzeCatalogDependencies).
BlockedIffNotReady ==
    ValidMetadata(draft) /\ Prepares(draft) /\ Projects(draft) =>
        (Assembles(draft) <=>
            /\ Inbound!Analyzes(InboundView(draft), Absent)
            /\ Inbound!Ready(InboundView(draft), Absent)
            /\ Analyzes(Reading(draft))
            /\ Ready(Reading(draft)))

Carrying(values, tag) == {v \in values : tag \in v.content}

\* Whether the rule v finds in the files all it names, and only once.
Served(v, files) ==
    /\ \A tag \in v.content.inbound : Cardinality(Carrying(files["inbounds"], tag)) = 1
    /\ v.content.direct # NoTag =>
          Cardinality(Carrying(files["outbounds"], v.content.direct)) = 1
    /\ v.content.direct = NoTag /\ v.content.balancer # NoTag =>
          \E s \in files["routing"] : \E b \in s.content.balancers :
              /\ {c \in s.content.balancers : c.tag = v.content.balancer} = {b}
              /\ IF b.fallback # Absent
                 THEN Cardinality(Carrying(files["outbounds"], b.fallback)) = 1
                 ELSE \E prefix \in b.selector : \E t \in StartsWith[prefix] :
                          Carrying(files["outbounds"], t) # {}

\* Read on its own, without the draft, an assembled catalog is closed: every
\* rule in it finds its inbounds, its outbound or its balancer in it, and never
\* two of them (AssembleXrayCatalog).
CatalogIsClosed ==
    Assembles(draft) =>
        LET files == Catalog(draft)
        IN  \A k \in DOMAIN files["rules"] : Served(files["rules"][k], files)

-----------------------------------------------------------------------------
(* What an edit may do to the catalog *)

\* Hiding a rule, either way, never blocks a catalog: the rule disappears, the
\* other rules keep their order and the other sections are the same.
HidingRuleOnlyDropsIt ==
    [][\A id \in RuleID :
         (DisableRule(id) \/ ExcludeRule(id)) /\ Assembles(draft) =>
            /\ Assembles(draft')
            /\ Catalog(draft') =
                  [Catalog(draft) EXCEPT !["rules"] = Retain(@, {v \in Range(@) : v.marker # id})]]_draft

\* GuardInboundChange looks at rules and inbounds alone, and that is enough: what
\* it releases never blocks a catalog that could be assembled.
GuardedChangeKeepsCatalog ==
    [][\A id \in InboundID, action \in Inbound!Actions :
         ChangeInbound(id, action) /\ Assembles(draft) => Assembles(draft')]_draft

\* Whether the findings of a catalog name o as the only one that serves a
\* reference, or as the only match of a balancer without a fallback.
OnlyServer(findings, o) ==
    \E f \in findings :
        \/ f.kind \in {"direct", "fallback"} /\ f.providers = {o}
        \/ /\ f.kind = "selector"
           /\ {o} = UNION {g.providers : g \in {h \in findings :
                              /\ h.kind \in {"selector", "fallback"}
                              /\ h.element = f.element
                              /\ h.path[1] = f.path[1]}}

\* The removal of an outbound has no guard.  The findings that came with the last
\* catalog say whether it blocks the next one.
FindingsForetellRemoval ==
    [][\A o \in OutboundID :
         (Exclude(o) \/ RemoveLocal(o)) /\ o \in Active(draft, "outbounds") /\ Assembles(draft) =>
            (Assembles(draft') <=> ~OnlyServer(Findings(draft), o))]_draft

\* A section that is one value and has no active element, because it is empty or
\* the template's is excluded, takes a local one without an objection.
LocalFillsEmptySection ==
    [][\A g \in Sections \ Collections : \A id \in Elements(g) :
         /\ AddLocal(id) /\ Active(draft, g) = {}
         /\ Assembles(draft)
         /\ Prepares(draft') /\ Projects(draft')
         => Assembles(draft')]_draft

=============================================================================
