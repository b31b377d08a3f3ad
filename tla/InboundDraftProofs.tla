-------------------------- MODULE InboundDraftProofs --------------------------
(***************************************************************************)
(* Proofs about InboundDraft, for any sets of rules, inbounds and tags.    *)
(***************************************************************************)
EXTENDS InboundDraft, TLAPS

-----------------------------------------------------------------------------
(* Lemmas about GuardInboundChange *)

\* No inbound is a rule and no rule an inbound.
LEMMA KindsApart ==
    ASSUME NEW r \in RuleID, NEW i \in InboundID
    PROVE  r # i /\ r \notin InboundID /\ i \notin RuleID
BY KindsAssumption

\* Apply leaves a snapshot.
LEMMA ApplyType ==
    ASSUME NEW in \in Snapshots, NEW target \in InboundID, NEW action \in Actions
    PROVE  Apply(in, target, action) \in Snapshots
<1>1. target \in ID
  BY DEF ID
<1>2. CASE action = "disable"
  BY <1>1, <1>2 DEF Apply, Snapshots
<1>3. CASE action = "remove" /\ target \in in.shared
  BY <1>1, <1>3 DEF Apply, Snapshots
<1>4. CASE action = "remove" /\ target \notin in.shared
  BY <1>1, <1>4 DEF Apply, Snapshots
<1> QED BY <1>2, <1>3, <1>4 DEF Actions

\* What Apply changes: the target is no longer active, all else is.
LEMMA ApplyEffect ==
    ASSUME NEW in \in Snapshots, NEW target \in InboundID, NEW action \in Actions,
           ValidMetadata(in), target \in ActiveInbounds(in, target)
    PROVE  LET out == Apply(in, target, action)
           IN  /\ out.content = in.content
               /\ ValidMetadata(out)
               /\ ActiveRules(out) = ActiveRules(in)
               /\ ActiveInbounds(out, None) = ActiveInbounds(in, target) \ {target}
<1> DEFINE out == Apply(in, target, action)
<1>1. /\ target \notin RuleID /\ None \notin InboundID
      /\ target \in in.shared \cup in.local
  BY KindsAssumption, TargetAssumption DEF ActiveInbounds
<1>2. CASE action = "disable"
  <2>1. /\ out.content = in.content /\ out.shared = in.shared /\ out.local = in.local
        /\ out.excluded = in.excluded /\ out.disabled = in.disabled \cup {target}
    BY <1>2 DEF Apply, Snapshots
  <2> HIDE DEF out
  <2> QED BY <1>1, <2>1 DEF ValidMetadata, ActiveRules, ActiveInbounds, Hidden, out
<1>3. CASE action = "remove" /\ target \in in.shared
  <2>1. /\ out.content = in.content /\ out.shared = in.shared /\ out.local = in.local
        /\ out.excluded = in.excluded \cup {target} /\ out.disabled = in.disabled
    BY <1>3 DEF Apply, Snapshots
  <2> HIDE DEF out
  <2> QED BY <1>1, <1>3, <2>1 DEF ValidMetadata, ActiveRules, ActiveInbounds, Hidden, out
<1>4. CASE action = "remove" /\ target \notin in.shared
  <2>1. /\ out.content = in.content /\ out.shared = in.shared
        /\ out.local = in.local \ {target}
        /\ out.excluded = in.excluded /\ out.disabled = in.disabled \ {target}
    BY <1>4 DEF Apply, Snapshots
  <2> HIDE DEF out
  <2> QED BY <1>1, <1>4, <2>1 DEF ValidMetadata, ActiveRules, ActiveInbounds, Hidden, out
<1> QED BY <1>2, <1>3, <1>4 DEF Actions

\* After a guarded change the references are those the guard saw, and each
\* resolves to what the guard resolved it to.
LEMMA GuardedReferences ==
    ASSUME NEW in \in Snapshots, NEW target \in InboundID, NEW action \in Actions,
           CanChange(in, target)
    PROVE  LET out == Apply(in, target, action)
           IN  /\ Analyzes(out, None)
               /\ References(out) = References(in)
               /\ \A ref \in References(in) :
                     Resolved(out, None, ref) = Resolved(in, target, ref)
<1> DEFINE out == Apply(in, target, action)
<1>1. /\ Analyzes(in, target) /\ ValidMetadata(in)
      /\ target \in ActiveInbounds(in, target)
  BY DEF CanChange, Analyzes
<1>2. /\ out.content = in.content
      /\ ValidMetadata(out)
      /\ ActiveRules(out) = ActiveRules(in)
      /\ ActiveInbounds(out, None) = ActiveInbounds(in, target) \ {target}
  BY <1>1, ApplyEffect
<1> HIDE DEF out
<1>3. \A id : Tags(out, id) = Tags(in, id)
  BY <1>2 DEF Tags
<1>4. References(out) = References(in)
  BY <1>2, <1>3 DEF References
<1>5. \A tag : Providers(out, None, tag) = Providers(in, target, tag) \ {target}
  BY <1>2, <1>3 DEF Providers
<1>6. Analyzes(out, None)
  <2>1. \A id \in ActiveRules(out) \cup ActiveInbounds(out, None) : out.content[id] # Broken
    BY <1>1, <1>2 DEF Analyzes
  <2>2. \A tag \in Tag : \A i, j \in Providers(out, None, tag) : i = j
    BY <1>1, <1>5 DEF Analyzes
  <2> QED BY <1>2, <2>1, <2>2 DEF Analyzes
<1>7. ASSUME NEW ref \in References(in)
      PROVE  Resolved(out, None, ref) = Resolved(in, target, ref)
  <2>1. target \notin Resolved(in, target, ref)
    BY DEF CanChange
  <2> QED BY <2>1, <1>5 DEF Resolved
<1> QED BY <1>4, <1>6, <1>7 DEF out

-----------------------------------------------------------------------------
(* Type correctness *)

\* A candidate is a snapshot that differs from the draft only in what it says
\* of rules.
LEMMA CandidateType ==
    ASSUME TypeOK, NEW in \in Candidates
    PROVE  /\ in \in Snapshots
           /\ in.shared = draft.shared /\ in.local = draft.local
           /\ in.excluded = draft.excluded
           /\ in.disabled \cap InboundID = draft.disabled \cap InboundID
           /\ \A i \in InboundID : in.content[i] = draft.content[i]
<1>1. CASE in = draft
  BY <1>1 DEF TypeOK
<1>2. ASSUME NEW r \in RuleID, NEW c \in RuleContents,
             in = [draft EXCEPT !.content[r] = c]
      PROVE  /\ in \in Snapshots
             /\ in.shared = draft.shared /\ in.local = draft.local
             /\ in.excluded = draft.excluded
             /\ in.disabled \cap InboundID = draft.disabled \cap InboundID
             /\ \A i \in InboundID : in.content[i] = draft.content[i]
  <2>1. /\ draft.content \in [ID -> RuleContents \cup InboundContents]
        /\ \A id \in ID : draft.content[id] \in Contents(id)
        /\ draft = [shared |-> draft.shared, local |-> draft.local,
                    excluded |-> draft.excluded, disabled |-> draft.disabled,
                    content |-> draft.content]
        /\ draft.shared \in SUBSET ID /\ draft.local \in SUBSET ID
        /\ draft.excluded \in SUBSET ID /\ draft.disabled \in SUBSET ID
    BY DEF TypeOK, Snapshots
  <2> DEFINE content == [draft.content EXCEPT ![r] = c]
  <2>2. in = [shared |-> draft.shared, local |-> draft.local,
              excluded |-> draft.excluded, disabled |-> draft.disabled,
              content |-> content]
    BY <1>2, <2>1
  <2>3. /\ content \in [ID -> RuleContents \cup InboundContents]
        /\ \A id \in ID : content[id] \in Contents(id)
    BY <2>1 DEF Contents, ID
  <2>4. \A i \in InboundID : content[i] = draft.content[i]
    BY <2>1, KindsApart DEF ID
  <2> HIDE DEF content
  <2> QED BY <2>1, <2>2, <2>3, <2>4 DEF Snapshots
<1>3. ASSUME NEW r \in RuleID, in = [draft EXCEPT !.disabled = @ \cup {r}]
      PROVE  /\ in \in Snapshots
             /\ in.shared = draft.shared /\ in.local = draft.local
             /\ in.excluded = draft.excluded
             /\ in.disabled \cap InboundID = draft.disabled \cap InboundID
             /\ \A i \in InboundID : in.content[i] = draft.content[i]
  BY <1>3, KindsApart DEF TypeOK, Snapshots, ID
<1> QED BY <1>1, <1>2, <1>3 DEF Candidates

\* Every step of a caller leaves a snapshot.
LEMMA TypeStep == ASSUME TypeOK, [Next]_draft PROVE TypeOK'
<1>1. /\ draft = [shared |-> draft.shared, local |-> draft.local,
                  excluded |-> draft.excluded, disabled |-> draft.disabled,
                  content |-> draft.content]
      /\ draft.content \in [ID -> RuleContents \cup InboundContents]
      /\ \A id \in ID : draft.content[id] \in Contents(id)
      /\ draft.shared \in SUBSET ID /\ draft.local \in SUBSET ID
      /\ draft.excluded \in SUBSET ID /\ draft.disabled \in SUBSET ID
  BY DEF TypeOK, Snapshots
<1>2. ASSUME NEW id \in ID, EditContent(id) PROVE TypeOK'
  <2>1. PICK c \in Contents(id) : draft' = [draft EXCEPT !.content[id] = c]
    BY <1>2 DEF EditContent
  <2> DEFINE content == [draft.content EXCEPT ![id] = c]
  <2>2. draft' = [shared |-> draft.shared, local |-> draft.local,
                  excluded |-> draft.excluded, disabled |-> draft.disabled,
                  content |-> content]
    BY <1>1, <2>1
  <2>3. /\ content \in [ID -> RuleContents \cup InboundContents]
        /\ \A e \in ID : content[e] \in Contents(e)
    BY <1>1 DEF Contents
  <2> HIDE DEF content
  <2> QED BY <1>1, <2>2, <2>3 DEF TypeOK, Snapshots
<1>3. ASSUME NEW id \in TemplateIDs, ChangeTemplate(id) PROVE TypeOK'
  BY <1>3, BoundsAssumption DEF ChangeTemplate, TypeOK, Snapshots
<1>4. ASSUME NEW id \in LocalIDs, AddLocal(id) PROVE TypeOK'
  BY <1>4, BoundsAssumption DEF AddLocal, TypeOK, Snapshots
<1>5. ASSUME NEW id \in ID, RemoveLocalRule(id) PROVE TypeOK'
  BY <1>5 DEF RemoveLocalRule, TypeOK, Snapshots
<1>6. ASSUME NEW id \in ID, HideRule(id) PROVE TypeOK'
  BY <1>6 DEF HideRule, TypeOK, Snapshots
<1>7. ASSUME NEW id \in ID, Restore(id) PROVE TypeOK'
  BY <1>7 DEF Restore, TypeOK, Snapshots
<1>8. ASSUME NEW in \in Candidates, NEW target \in InboundID, NEW action \in Actions,
             ChangeInbound(target, action, in)
      PROVE  TypeOK'
  <2>1. in \in Snapshots
    BY CandidateType
  <2> QED BY <1>8, <2>1, ApplyType DEF ChangeInbound, TypeOK
<1>9. CASE UNCHANGED draft
  BY <1>9 DEF TypeOK
<1> QED BY <1>2, <1>3, <1>4, <1>5, <1>6, <1>7, <1>8, <1>9 DEF Next

\* The draft stays a snapshot, whatever the template and the caller do.
THEOREM DraftTypeCorrect == Spec => []TypeOK
<1>1. Init => TypeOK
  <2> SUFFICES ASSUME NEW shared \in SUBSET TemplateIDs,
                      NEW content \in [ID -> RuleContents \cup InboundContents],
                      \A id \in ID : content[id] \in Contents(id),
                      draft = [shared |-> shared, local |-> {}, excluded |-> {},
                               disabled |-> {}, content |-> content]
               PROVE  TypeOK
    BY DEF Init
  <2>1. shared \in SUBSET ID
    BY BoundsAssumption
  <2> QED BY <2>1 DEF TypeOK, Snapshots
<1> QED BY <1>1, TypeStep, PTL DEF Spec

-----------------------------------------------------------------------------
(* Properties of guarded changes *)

\* What the guard reports of the candidate (no issue, ready or not) is what the
\* analysis finds in the draft after the change: GuardInboundChange never
\* releases an inbound that a rule still needs.
THEOREM GuardIsTruthful == Spec => GuardTellsOutcome
<1> DEFINE Outcome ==
      \A in \in Candidates, target \in InboundID, action \in Actions :
         ChangeInbound(target, action, in) =>
            /\ Analyzes(draft', None)
            /\ Ready(draft', None) <=> Ready(in, target)
<1>1. TypeOK => Outcome
  <2> SUFFICES ASSUME TypeOK, NEW in \in Candidates, NEW target \in InboundID,
                      NEW action \in Actions, ChangeInbound(target, action, in)
               PROVE  /\ Analyzes(draft', None)
                      /\ Ready(draft', None) <=> Ready(in, target)
    OBVIOUS
  <2>1. in \in Snapshots /\ CanChange(in, target) /\ draft' = Apply(in, target, action)
    BY CandidateType DEF ChangeInbound
  <2>2. /\ Analyzes(draft', None)
        /\ References(draft') = References(in)
        /\ \A ref \in References(in) :
              Resolved(draft', None, ref) = Resolved(in, target, ref)
    BY <2>1, GuardedReferences
  <2> QED BY <2>2 DEF Ready
<1>2. Spec => [][Outcome]_draft
  BY <1>1, DraftTypeCorrect, PTL
<1> QED BY <1>2 DEF GuardTellsOutcome

\* A guarded change takes no reference away from the inbound it resolved to
\* and gives none another inbound.
THEOREM ReferencesKeepTheirInbound == Spec => SameProvider
<1> DEFINE Kept ==
      \A in \in Candidates, target \in InboundID, action \in Actions :
         ChangeInbound(target, action, in) =>
            \A ref \in References(draft) \cap References(draft') :
                Resolved(draft', None, ref) = Resolved(draft, None, ref)
<1>1. TypeOK => Kept
  <2> SUFFICES ASSUME TypeOK, NEW in \in Candidates, NEW target \in InboundID,
                      NEW action \in Actions, ChangeInbound(target, action, in),
                      NEW ref \in References(draft) \cap References(draft')
               PROVE  Resolved(draft', None, ref) = Resolved(draft, None, ref)
    OBVIOUS
  <2>1. /\ in \in Snapshots
        /\ in.shared = draft.shared /\ in.local = draft.local
        /\ in.excluded = draft.excluded
        /\ in.disabled \cap InboundID = draft.disabled \cap InboundID
        /\ \A i \in InboundID : in.content[i] = draft.content[i]
    BY CandidateType
  <2>2. CanChange(in, target) /\ draft' = Apply(in, target, action)
    BY DEF ChangeInbound
  <2>3. /\ References(draft') = References(in)
        /\ \A r \in References(in) : Resolved(draft', None, r) = Resolved(in, target, r)
    BY <2>1, <2>2, GuardedReferences
  <2>4. /\ Resolved(draft', None, ref) = Resolved(in, target, ref)
        /\ target \notin Resolved(in, target, ref)
    BY <2>2, <2>3 DEF CanChange
  <2>5. ActiveInbounds(in, target) \ {target} = ActiveInbounds(draft, None) \ {target}
    BY <2>1, TargetAssumption DEF ActiveInbounds, Hidden
  <2>6. \A i \in InboundID : Tags(in, i) = Tags(draft, i)
    BY <2>1 DEF Tags
  <2>7. target \in ActiveInbounds(in, target) /\ ActiveInbounds(in, target) \subseteq InboundID
        /\ ActiveInbounds(draft, None) \subseteq InboundID
    BY <2>2 DEF CanChange, ActiveInbounds
  <2>8. ref[2] \notin Tags(in, target)
    BY <2>4, <2>7 DEF Resolved, Providers
  <2>9. Providers(in, target, ref[2]) = Providers(draft, None, ref[2])
    BY <2>5, <2>6, <2>7, <2>8 DEF Providers
  <2> QED BY <2>4, <2>9 DEF Resolved
<1>2. Spec => [][Kept]_draft
  BY <1>1, DraftTypeCorrect, PTL
<1> QED BY <1>2 DEF SameProvider

\* The guard's answer does not depend on whether the caller has already marked
\* the target as disabled or excluded.
THEOREM GuardIgnoresOwnMark == Spec => []MarksDoNotMatter
<1>1. TypeOK => MarksDoNotMatter
  <2> SUFFICES ASSUME TypeOK, NEW target \in InboundID,
                      target \in draft.shared \cup draft.local, NEW action \in Actions,
                      action = "disable" \/ target \in draft.shared
               PROVE  CanChange(Apply(draft, target, action), target) = CanChange(draft, target)
    BY DEF MarksDoNotMatter, Actions
  <2> DEFINE out == Apply(draft, target, action)
  <2>1. /\ out.content = draft.content /\ out.shared = draft.shared /\ out.local = draft.local
        /\ out.excluded \ {target} = draft.excluded \ {target}
        /\ out.disabled \ {target} = draft.disabled \ {target}
        /\ target \notin out.excluded \ draft.excluded \/ target \in draft.shared
        /\ draft.excluded \subseteq out.excluded /\ draft.disabled \subseteq out.disabled
    BY DEF Apply, TypeOK, Snapshots, Actions
  <2> HIDE DEF out
  <2>2. ValidMetadata(out) <=> ValidMetadata(draft)
    BY <2>1 DEF ValidMetadata
  <2>3. ActiveRules(out) = ActiveRules(draft)
    BY <2>1, KindsAssumption DEF ActiveRules, Hidden
  <2>4. ActiveInbounds(out, target) = ActiveInbounds(draft, target)
    BY <2>1 DEF ActiveInbounds, Hidden
  <2>5. \A id : Tags(out, id) = Tags(draft, id)
    BY <2>1 DEF Tags
  <2>6. References(out) = References(draft)
    BY <2>3, <2>5 DEF References
  <2>7. \A tag : Providers(out, target, tag) = Providers(draft, target, tag)
    BY <2>4, <2>5 DEF Providers
  <2>8. Analyzes(out, target) <=> Analyzes(draft, target)
    BY <2>1, <2>2, <2>3, <2>4, <2>7 DEF Analyzes
  <2>9. CanChange(out, target) <=> CanChange(draft, target)
    BY <2>4, <2>6, <2>7, <2>8 DEF CanChange, Resolved
  <2>10. CanChange(out, target) \in BOOLEAN /\ CanChange(draft, target) \in BOOLEAN
    BY DEF CanChange, Analyzes, ValidMetadata
  <2> QED BY <2>9, <2>10 DEF out
<1> QED BY <1>1, DraftTypeCorrect, PTL

\* A guarded deactivation can be taken back.
THEOREM DeactivationCanBeTakenBack == Spec => DisableIsReversible
<1> DEFINE Reversible ==
      \A in \in Candidates, target \in InboundID :
         ChangeInbound(target, "disable", in) =>
            Analyzes([draft' EXCEPT !.disabled = @ \ {target}, !.excluded = @ \ {target}],
                     None)
<1>1. TypeOK => Reversible
  <2> SUFFICES ASSUME TypeOK, NEW in \in Candidates, NEW target \in InboundID,
                      ChangeInbound(target, "disable", in)
               PROVE  Analyzes([draft' EXCEPT !.disabled = @ \ {target},
                                              !.excluded = @ \ {target}], None)
    OBVIOUS
  <2> DEFINE back == [draft' EXCEPT !.disabled = @ \ {target}, !.excluded = @ \ {target}]
  <2>1. in \in Snapshots /\ Analyzes(in, target) /\ draft' = Apply(in, target, "disable")
    BY CandidateType DEF ChangeInbound, CanChange
  <2>2. /\ back.content = in.content /\ back.shared = in.shared /\ back.local = in.local
        /\ back.excluded = in.excluded \ {target} /\ back.disabled = in.disabled \ {target}
    <3>1. draft' = [shared |-> in.shared, local |-> in.local, excluded |-> in.excluded,
                    disabled |-> in.disabled \cup {target}, content |-> in.content]
      BY <2>1 DEF Apply, Snapshots
    <3>2. target \in InboundID /\ (in.disabled \cup {target}) \ {target} = in.disabled \ {target}
      OBVIOUS
    <3> QED BY <3>1, <3>2
  <2> HIDE DEF back
  <2>3. ValidMetadata(back)
    BY <2>1, <2>2 DEF Analyzes, ValidMetadata
  <2>4. ActiveRules(back) = ActiveRules(in)
    BY <2>2, KindsAssumption DEF ActiveRules, Hidden
  <2>5. ActiveInbounds(back, None) = ActiveInbounds(in, target)
    BY <2>2, TargetAssumption DEF ActiveInbounds, Hidden
  <2>6. \A tag : Providers(back, None, tag) = Providers(in, target, tag)
    BY <2>2, <2>5 DEF Providers, Tags
  <2>7. Analyzes(back, None)
    BY <2>1, <2>2, <2>3, <2>4, <2>5, <2>6 DEF Analyzes
  <2> QED BY <2>7 DEF back
<1>2. Spec => [][Reversible]_draft
  BY <1>1, DraftTypeCorrect, PTL
<1> QED BY <1>2 DEF DisableIsReversible
=============================================================================
