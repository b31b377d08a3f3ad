---------------------------- MODULE CatalogProofs ----------------------------
(***************************************************************************)
(* Theorems about the catalog of a draft and about the runs that write its *)
(* files, for drafts of any size and any number of writers.                *)
(***************************************************************************)
EXTENDS CatalogCopies, CatalogWriter, EditLemmas
-----------------------------------------------------------------------------
(* Snapshots *)

\* The fields of a snapshot.
LEMMA SnapshotFields ==
    ASSUME NEW in, IsSnapshot(in)
    PROVE  /\ DOMAIN in = {"supplied", "rules", "shared", "local", "excluded", "disabled",
                           "content", "marker"}
           /\ in.supplied \in SUBSET Sections
           /\ in.rules \in Order!Snapshots
           /\ in.shared \in SUBSET RecordID /\ in.local \in SUBSET RecordID
           /\ in.excluded \in SUBSET RecordID
           /\ in.disabled \in SUBSET (RuleID \cup InboundID)
           /\ in.marker \in [ID -> ID \cup {Absent}]
           /\ in.content = [id \in ID |-> in.content[id]]
           /\ \A id \in ID : in.content[id] \in Contents(id)
<1> DEFINE masked == [in EXCEPT !.content = Absent]
<1>1. masked \in [supplied : SUBSET Sections, rules : Order!Snapshots,
                  shared : SUBSET RecordID, local : SUBSET RecordID, excluded : SUBSET RecordID,
                  disabled : SUBSET (RuleID \cup InboundID),
                  content : {Absent}, marker : [ID -> ID \cup {Absent}]]
  BY DEF IsSnapshot
<1>2. DOMAIN masked = DOMAIN in
  OBVIOUS
<1>3. \A f \in DOMAIN in : f # "content" => masked[f] = in[f]
  OBVIOUS
<1> HIDE DEF masked
<1>4. DOMAIN masked = {"supplied", "rules", "shared", "local", "excluded", "disabled",
                           "content", "marker"}
  BY <1>1
<1>5. /\ masked.supplied \in SUBSET Sections
      /\ masked.rules \in Order!Snapshots
      /\ masked.shared \in SUBSET RecordID /\ masked.local \in SUBSET RecordID
      /\ masked.excluded \in SUBSET RecordID
      /\ masked.disabled \in SUBSET (RuleID \cup InboundID)
      /\ masked.marker \in [ID -> ID \cup {Absent}]
  BY <1>1
<1> QED BY <1>2, <1>3, <1>4, <1>5 DEF IsSnapshot

\* A record with such fields is a snapshot.
LEMMA FieldsMakeSnapshot ==
    ASSUME NEW in,
           DOMAIN in = {"supplied", "rules", "shared", "local", "excluded", "disabled",
                        "content", "marker"},
           in.supplied \in SUBSET Sections,
           in.rules \in Order!Snapshots,
           in.shared \in SUBSET RecordID, in.local \in SUBSET RecordID,
           in.excluded \in SUBSET RecordID,
           in.disabled \in SUBSET (RuleID \cup InboundID),
           in.marker \in [ID -> ID \cup {Absent}],
           in.content = [id \in ID |-> in.content[id]],
           \A id \in ID : in.content[id] \in Contents(id)
    PROVE  IsSnapshot(in)
<1> DEFINE masked == [in EXCEPT !.content = Absent]
<1>1. masked = [supplied |-> in.supplied, rules |-> in.rules, shared |-> in.shared,
                local |-> in.local, excluded |-> in.excluded, disabled |-> in.disabled,
                content |-> Absent, marker |-> in.marker]
  OBVIOUS
<1> HIDE DEF masked
<1>2. masked \in [supplied : SUBSET Sections, rules : Order!Snapshots,
                  shared : SUBSET RecordID, local : SUBSET RecordID, excluded : SUBSET RecordID,
                  disabled : SUBSET (RuleID \cup InboundID),
                  content : {Absent}, marker : [ID -> ID \cup {Absent}]]
  BY <1>1
<1> QED BY <1>2 DEF IsSnapshot, masked

\* The list operators of the rule order are the ones the catalog uses.
LEMMA OrderLists ==
    /\ \A s : Order!Range(s) = Range(s)
    /\ \A s : Order!IsInjective(s) <=> IsInjective(s)
    /\ \A s, K : Order!Retain(s, K) = Retain(s, K)
    /\ \A s, i, e : Order!InsertAt(s, i, e) = InsertAt(s, i, e)
    /\ \A s, i : Order!RemoveAt(s, i) = RemoveAt(s, i)
    /\ \A s, T, L : Order!Refill(s, T, L) = Refill(s, T, L)
<1>1. \A s : Order!Range(s) = Range(s)
  BY DEF Order!Range, Range
<1>2. \A s : Order!IsInjective(s) <=> IsInjective(s)
  BY DEF Order!IsInjective, IsInjective
<1>3. \A s, K : Order!Retain(s, K) = Retain(s, K)
  BY Zenon DEF Order!Retain, Order!FoldLeft, Order!MapThenFoldSet, Order!Max,
         Retain, FoldLeft, MapThenFoldSet, Max
<1>4. \A s, i, e : Order!InsertAt(s, i, e) = InsertAt(s, i, e)
  BY DEF Order!InsertAt, InsertAt
<1>5. \A s, i : Order!RemoveAt(s, i) = RemoveAt(s, i)
  BY DEF Order!RemoveAt, RemoveAt
<1>6. \A s, L, k : Order!SharedUpTo(s, L, k) = SharedUpTo(s, L, k)
  BY Zenon DEF Order!SharedUpTo, SharedUpTo, Order!Cardinality, Cardinality
<1>7. \A s, T, L : Order!Refill(s, T, L) = Refill(s, T, L)
  BY <1>6 DEF Order!Refill, Refill
<1> QED BY <1>1, <1>2, <1>3, <1>4, <1>5, <1>7

\* What the rule order knows of a snapshot it assembles.
LEMMA OrderedRules ==
    ASSUME NEW in, Order!Assembles(in)
    PROVE  /\ Order!Full(in) \in Seq(RuleID) /\ IsInjective(Order!Full(in))
           /\ Range(Order!Full(in)) = Range(in.shared) \cup Range(in.local)
           /\ in.shared \in Seq(RuleID) /\ in.local \in Seq(RuleID)
           /\ Range(in.shared) \cap Range(in.local) = {}
           /\ in.templateOrder \in Seq(RuleID) /\ IsInjective(in.templateOrder)
           /\ Range(in.templateOrder) = Range(in.shared)
           /\ in.exclusions \in Seq(RuleID) /\ IsInjective(in.exclusions)
           /\ Range(in.exclusions) \subseteq Range(in.shared)
BY OrderLists
   DEF Order!Assembles, Order!AssemblesAs, Order!ValidMetadata, Order!ValidOrderedIDs,
       Order!DistinctValid

\* The orders that the operations of the rule order return are lists of rules.
LEMMA OrderResults ==
    ASSUME NEW in
    PROVE  /\ \A id, index : Order!CanInsertLocal(in, id, index) =>
                 Order!InsertLocalRule(in, id, index).personalOrder \in Seq(RuleID)
           /\ \A id, index : Order!CanMove(in, id, index) =>
                 Order!MoveRule(in, id, index).personalOrder \in Seq(RuleID)
           /\ Order!CanReset(in) =>
                 Order!ResetRuleOrder(in).personalOrder \in Seq(RuleID) \cup {Absent}
           /\ \A shared, order : Order!CanReconcile(in, shared, order) =>
                 Order!ReconcileRuleOrder(in, shared, order).personalOrder
                    \in Seq(RuleID) \cup {Absent}
<1> DEFINE full == Order!Full(in)
<1>1. ASSUME NEW id, NEW index, Order!CanInsertLocal(in, id, index)
      PROVE  Order!InsertLocalRule(in, id, index).personalOrder \in Seq(RuleID)
  <2>1. full \in Seq(RuleID) /\ id \in RuleID /\ index \in 0 .. Len(full)
    BY <1>1, OrderedRules DEF Order!CanInsertLocal
  <2>2. Order!InsertLocalRule(in, id, index).personalOrder = InsertAt(full, index + 1, id)
    BY OrderLists DEF Order!InsertLocalRule, Order!Personalized, Order!Candidate
  <2> HIDE DEF full
  <2>3. index + 1 \in 1 .. Len(full) + 1
    BY <2>1, LenProperties
  <2> QED BY <2>1, <2>2, <2>3, InsertAtPositions
<1>2. ASSUME NEW id, NEW index, Order!CanMove(in, id, index)
      PROVE  Order!MoveRule(in, id, index).personalOrder \in Seq(RuleID)
  <2> DEFINE old  == CHOOSE k \in DOMAIN full : full[k] = id
             rest == RemoveAt(full, old)
  <2>1. /\ full \in Seq(RuleID) /\ id \in RuleID /\ id \in Range(full)
        /\ index \in 0 .. Len(full) - 1
    BY <1>2, OrderedRules, OrderLists DEF Order!CanMove
  <2>2. Order!MoveRule(in, id, index).personalOrder = InsertAt(rest, index + 1, id)
    BY OrderLists DEF Order!MoveRule, Order!Personalized, Order!Candidate
  <2>3. DOMAIN full = 1 .. Len(full) /\ Len(full) \in Nat
    BY <2>1, LenProperties
  <2>4. old \in 1 .. Len(full)
    BY <2>1, <2>3 DEF Range
  <2> HIDE DEF full, old
  <2>5. rest \in Seq(RuleID) /\ Len(rest) = Len(full) - 1
    BY <2>1, <2>4, RemoveAtPositions
  <2> HIDE DEF rest
  <2>6. index + 1 \in 1 .. Len(rest) + 1
    BY <2>1, <2>3, <2>5
  <2> QED BY <2>1, <2>2, <2>5, <2>6, InsertAtPositions
<1>3. ASSUME Order!CanReset(in)
      PROVE  Order!ResetRuleOrder(in).personalOrder \in Seq(RuleID) \cup {Absent}
  <2> DEFINE T == in.templateOrder
             L == Range(in.local)
             ids == Refill(full, T, L)
  <2>1. /\ full \in Seq(RuleID) /\ IsInjective(full) /\ T \in Seq(RuleID) /\ IsInjective(T)
        /\ Range(T) \cap L = {} /\ Range(full) = Range(T) \cup L
    BY <1>3, OrderedRules DEF Order!CanReset
  <2>2. Order!ResetRuleOrder(in).personalOrder \in {ids, Absent}
    BY OrderLists DEF Order!ResetRuleOrder, Order!Personalized, Order!Candidate
  <2> HIDE DEF full, T, L
  <2>3. ids \in Seq(RuleID)
    BY <2>1, SlotRefill
  <2> QED BY <2>2, <2>3
<1>4. ASSUME NEW shared, NEW order, Order!CanReconcile(in, shared, order)
      PROVE  Order!ReconcileRuleOrder(in, shared, order).personalOrder
                \in Seq(RuleID) \cup {Absent}
  <2> DEFINE ids == Order!ReconciledIDs(in, shared, order)
  <2>1. Order!ReconcileRuleOrder(in, shared, order).personalOrder =
           IF in.personalOrder = Absent THEN Absent ELSE ids
    BY DEF Order!ReconcileRuleOrder, Order!Personalized, Order!Candidate
  <2>2. in.personalOrder # Absent => ids \in Seq(RuleID)
    BY <1>4 DEF Order!CanReconcile, Order!AssemblesAs, Order!ValidOrderedIDs, Order!DistinctValid
  <2> QED BY <2>1, <2>2
<1> QED BY <1>1, <1>2, <1>3, <1>4

\* The kinds of elements are apart.
LEMMA KindsApart ==
    /\ RuleID \cap InboundID = {} /\ RuleID \cap OutboundID = {} /\ RuleID \cap RoutingID = {}
    /\ InboundID \cap OutboundID = {} /\ InboundID \cap RoutingID = {}
    /\ OutboundID \cap RoutingID = {}
    /\ SettingsID \cap (RuleID \cup InboundID \cup OutboundID \cup RoutingID) = {}
<1>1. /\ Elements("rules") = RuleID /\ Elements("inbounds") = InboundID
      /\ Elements("outbounds") = OutboundID /\ Elements("routing") = RoutingID
  BY DEF Elements
<1>2. {"rules", "inbounds", "outbounds", "routing"} \subseteq Sections
  BY DEF Sections, Required
<1>3. \A g \in Sections \ {"rules", "inbounds", "outbounds", "routing"} :
         Elements(g) = {id \in SettingsID : Section[id] = g}
  BY DEF Elements
<1>4. \A id \in SettingsID : id \in Elements(Section[id])
                             /\ Section[id] \in Sections \ {"rules", "inbounds", "outbounds", "routing"}
  BY <1>3, SectionAssumption
<1>5. \A g, h \in Sections : g # h => Elements(g) \cap Elements(h) = {}
  BY OneSectionAssumption
<1>6. /\ RuleID \cap InboundID = {} /\ RuleID \cap OutboundID = {} /\ RuleID \cap RoutingID = {}
      /\ InboundID \cap OutboundID = {} /\ InboundID \cap RoutingID = {}
      /\ OutboundID \cap RoutingID = {}
  BY <1>1, <1>2, <1>5
<1>7. ASSUME NEW id \in SettingsID,
             id \in RuleID \cup InboundID \cup OutboundID \cup RoutingID
      PROVE  FALSE
  <2>1. PICK g \in {"rules", "inbounds", "outbounds", "routing"} : id \in Elements(g)
    BY <1>1, <1>7
  <2> QED BY <2>1, <1>2, <1>4, <1>5
<1> QED BY <1>6, <1>7

\* No section outside the four has an element of them.
LEMMA OwnElements ==
    /\ Elements("rules") = RuleID /\ Elements("inbounds") = InboundID
    /\ Elements("outbounds") = OutboundID /\ Elements("routing") = RoutingID
    /\ \A g, h \in Sections : g # h => Elements(g) \cap Elements(h) = {}
    /\ \A g \in Sections : Elements(g) \subseteq ID
<1>1. \A g \in Sections : Elements(g) \subseteq ID
  BY DEF Elements, ID, RecordID
<1> QED BY <1>1, OneSectionAssumption DEF Elements

\* Every edit leaves a snapshot.
LEMMA TypeStep == ASSUME TypeOK, [Next]_draft PROVE TypeOK'
<1> USE DEF TypeOK
<1> DEFINE Fields == {"supplied", "rules", "shared", "local", "excluded", "disabled",
                      "content", "marker"}
           \* All fields of the draft but those of F are the same.
           Keeps(F) == DOMAIN draft' = Fields /\ \A f \in Fields \ F : draft'[f] = draft[f]
<1>1. /\ DOMAIN draft = Fields
      /\ draft.supplied \in SUBSET Sections
      /\ draft.rules \in Order!Snapshots
      /\ draft.shared \in SUBSET RecordID /\ draft.local \in SUBSET RecordID
      /\ draft.excluded \in SUBSET RecordID
      /\ draft.disabled \in SUBSET (RuleID \cup InboundID)
      /\ draft.marker \in [ID -> ID \cup {Absent}]
      /\ draft.content = [id \in ID |-> draft.content[id]]
      /\ \A id \in ID : draft.content[id] \in Contents(id)
  BY SnapshotFields
<1>2. ASSUME NEW id \in ID, EditContent(id) PROVE TypeOK'
  <2>1. PICK c \in ContentChoices[id] : draft' = [draft EXCEPT !.content[id] = c]
    BY <1>2 DEF EditContent
  <2>2. Keeps({"content"}) /\ draft'.content = [draft.content EXCEPT ![id] = c]
    BY <1>1, <2>1
  <2>3. /\ draft'.content = [i \in ID |-> draft'.content[i]]
        /\ \A i \in ID : draft'.content[i] = IF i = id THEN c ELSE draft.content[i]
    BY <1>1, <2>2
  <2>4. c \in Contents(id)
    BY ChoicesAssumption
  <2> QED BY <1>1, <2>2, <2>3, <2>4, FieldsMakeSnapshot
<1>3. ASSUME NEW id \in ID, NEW m \in Markers[id], EditMarker(id, m) PROVE TypeOK'
  <2>1. draft' = [draft EXCEPT !.marker[id] = m]
    BY <1>3 DEF EditMarker
  <2>2. Keeps({"marker"}) /\ draft'.marker = [draft.marker EXCEPT ![id] = m]
    BY <1>1, <2>1
  <2>3. m \in ID \cup {Absent}
    BY MarkersAssumption
  <2>4. draft'.marker \in [ID -> ID \cup {Absent}]
    BY <1>1, <2>2, <2>3
  <2> QED BY <1>1, <2>2, <2>4, FieldsMakeSnapshot
<1>4. ASSUME Keeps({"rules"}), NEW l, NEW p, l \in Seq(RuleID), p \in Seq(RuleID) \cup {Absent},
             draft'.rules = [draft.rules EXCEPT !.local = l, !.personalOrder = p]
      PROVE  TypeOK'
  <2>1. draft'.rules \in Order!Snapshots
    BY <1>1, <1>4 DEF Order!Snapshots
  <2> QED BY <1>1, <1>4, <2>1, FieldsMakeSnapshot
<1>5. ASSUME NEW id \in RuleID, NEW index \in 0 .. Len(Order!Full(draft.rules)),
             InsertRule(id, index)
      PROVE  TypeOK'
  <2> DEFINE l == Append(draft.rules.local, id)
             p == Order!InsertLocalRule(draft.rules, id, index).personalOrder
  <2>1. l \in Seq(RuleID)
    BY <1>1 DEF Order!Snapshots
  <2>2. p \in Seq(RuleID)
    BY <1>5, OrderResults DEF InsertRule
  <2> HIDE DEF l, p
  <2>3. draft' = [draft EXCEPT !.rules.local = l, !.rules.personalOrder = p]
    BY <1>5 DEF InsertRule, l, p
  <2>4. Keeps({"rules"}) /\ draft'.rules = [draft.rules EXCEPT !.local = l, !.personalOrder = p]
    BY <1>1, <2>3
  <2> QED BY <1>4, <2>1, <2>2, <2>4
<1>6. ASSUME NEW p, p \in Seq(RuleID) \cup {Absent},
             draft' = [draft EXCEPT !.rules.personalOrder = p]
      PROVE  TypeOK'
  <2>1. Keeps({"rules"}) /\ draft'.rules = [draft.rules EXCEPT !.personalOrder = p]
    BY <1>1, <1>6
  <2>2. draft'.rules \in Order!Snapshots
    BY <1>1, <1>6, <2>1 DEF Order!Snapshots
  <2> QED BY <1>1, <2>1, <2>2, FieldsMakeSnapshot
<1>7. ASSUME NEW id \in RuleID, NEW index \in 0 .. Len(Order!Full(draft.rules)),
             MoveRule(id, index)
      PROVE  TypeOK'
  BY <1>6, <1>7, OrderResults DEF MoveRule
<1>8. ASSUME ResetRules PROVE TypeOK'
  BY <1>6, <1>8, OrderResults DEF ResetRules
<1>9. ASSUME NEW order \in TemplateRules, ReconcileRules(order) PROVE TypeOK'
  <2> DEFINE p == Order!ReconcileRuleOrder(draft.rules, order, order).personalOrder
  <2>1. p \in Seq(RuleID) \cup {Absent}
    BY <1>9, OrderResults DEF ReconcileRules
  <2> HIDE DEF p
  <2>2. draft' = [draft EXCEPT !.rules.shared = order, !.rules.templateOrder = order,
                               !.rules.personalOrder = p]
    BY <1>9 DEF ReconcileRules, p
  <2>3. /\ Keeps({"rules"})
        /\ draft'.rules = [draft.rules EXCEPT !.shared = order, !.templateOrder = order,
                                              !.personalOrder = p]
    BY <1>1, <2>2
  <2>4. order \in Seq(RuleID)
    BY TemplateAssumption
  <2>5. draft'.rules \in Order!Snapshots
    BY <1>1, <2>1, <2>3, <2>4 DEF Order!Snapshots
  <2> QED BY <1>1, <2>3, <2>5, FieldsMakeSnapshot
<1>10. ASSUME NEW d, d \in SUBSET (RuleID \cup InboundID), draft' = [draft EXCEPT !.disabled = d]
       PROVE  TypeOK'
  <2>1. Keeps({"disabled"}) /\ draft'.disabled = d
    BY <1>1, <1>10
  <2> QED BY <1>1, <1>10, <2>1, FieldsMakeSnapshot
<1>11. ASSUME NEW x, x \in Seq(RuleID), draft' = [draft EXCEPT !.rules.exclusions = x]
       PROVE  TypeOK'
  <2>1. Keeps({"rules"}) /\ draft'.rules = [draft.rules EXCEPT !.exclusions = x]
    BY <1>1, <1>11
  <2>2. draft'.rules \in Order!Snapshots
    BY <1>1, <1>11, <2>1 DEF Order!Snapshots
  <2> QED BY <1>1, <2>1, <2>2, FieldsMakeSnapshot
<1>12. ASSUME NEW id \in RuleID, DisableRule(id) PROVE TypeOK'
  <2>1. draft.disabled \cup {id} \in SUBSET (RuleID \cup InboundID)
    BY <1>1
  <2> QED BY <1>10, <1>12, <2>1 DEF DisableRule
<1>13. ASSUME NEW id \in RuleID, ExcludeRule(id) PROVE TypeOK'
  <2>1. Append(draft.rules.exclusions, id) \in Seq(RuleID)
    BY <1>1 DEF Order!Snapshots
  <2> QED BY <1>11, <1>13, <2>1 DEF ExcludeRule
<1>14. ASSUME NEW id \in RuleID, RestoreRule(id) PROVE TypeOK'
  <2>1. Retain(draft.rules.exclusions, RuleID \ {id}) \in Seq(RuleID)
    <3>1. draft.rules.exclusions \in Seq(RuleID)
      BY <1>1 DEF Order!Snapshots
    <3> QED BY <3>1, RetainMembers
  <2>2. draft.disabled \ {id} \in SUBSET (RuleID \cup InboundID)
    BY <1>1
  <2> QED BY <1>10, <1>11, <1>14, <2>1, <2>2 DEF RestoreRule
<1>15. ASSUME NEW x, x \in SUBSET RecordID, draft' = [draft EXCEPT !.excluded = x]
       PROVE  TypeOK'
  <2>1. Keeps({"excluded"}) /\ draft'.excluded = x
    BY <1>1, <1>15
  <2> QED BY <1>1, <1>15, <2>1, FieldsMakeSnapshot
<1>16. ASSUME NEW l, l \in SUBSET RecordID, draft' = [draft EXCEPT !.local = l]
       PROVE  TypeOK'
  <2>1. Keeps({"local"}) /\ draft'.local = l
    BY <1>1, <1>16
  <2> QED BY <1>1, <1>16, <2>1, FieldsMakeSnapshot
<1>17. ASSUME NEW id \in InboundID, NEW action \in Inbound!Actions, ChangeInbound(id, action)
       PROVE  TypeOK'
  <2>1. \/ draft' = [draft EXCEPT !.disabled = @ \cup {id}]
        \/ draft' = [draft EXCEPT !.excluded = @ \cup {id}]
        \/ draft' = [draft EXCEPT !.local = @ \ {id}, !.disabled = @ \ {id}]
    BY <1>17 DEF ChangeInbound, Inbound!Actions
  <2>2. id \in RecordID
    BY DEF RecordID
  <2>3. CASE draft' = [draft EXCEPT !.local = @ \ {id}, !.disabled = @ \ {id}]
    <3>1. /\ Keeps({"local", "disabled"})
          /\ draft'.local = draft.local \ {id} /\ draft'.disabled = draft.disabled \ {id}
      BY <1>1, <2>3
    <3> QED BY <1>1, <3>1, FieldsMakeSnapshot
  <2> QED BY <1>1, <1>10, <1>15, <2>1, <2>2, <2>3
<1>18. ASSUME NEW id \in RecordID,
              Exclude(id) \/ Restore(id) \/ AddLocal(id) \/ RemoveLocal(id)
       PROVE  TypeOK'
  BY <1>1, <1>10, <1>15, <1>16, <1>18 DEF Exclude, Restore, AddLocal, RemoveLocal
<1>19. ASSUME NEW id \in RecordID, ChangeTemplate(id) PROVE TypeOK'
  <2> DEFINE s == IF id \in draft.shared THEN draft.shared \ {id} ELSE draft.shared \cup {id}
  <2>1. s \in SUBSET RecordID
    BY <1>1
  <2> HIDE DEF s
  <2>2. draft' = [draft EXCEPT !.shared = s]
    BY <1>19 DEF ChangeTemplate, s
  <2>3. Keeps({"shared"}) /\ draft'.shared = s
    BY <1>1, <2>2
  <2> QED BY <1>1, <2>1, <2>3, FieldsMakeSnapshot
<1>20. ASSUME NEW g \in Suppliable, ChangeSupply(g) PROVE TypeOK'
  <2> DEFINE s == IF g \in draft.supplied THEN draft.supplied \ {g} ELSE draft.supplied \cup {g}
  <2>1. s \in SUBSET Sections
    BY <1>1, SuppliableAssumption DEF Sections
  <2> HIDE DEF s
  <2>2. draft' = [draft EXCEPT !.supplied = s]
    BY <1>20 DEF ChangeSupply, s
  <2>3. Keeps({"supplied"}) /\ draft'.supplied = s
    BY <1>1, <2>2
  <2> QED BY <1>1, <2>1, <2>3, FieldsMakeSnapshot
<1>21. CASE UNCHANGED draft
  BY <1>21
<1> QED
  BY <1>2, <1>3, <1>5, <1>7, <1>8, <1>9, <1>12, <1>13, <1>14, <1>17, <1>18, <1>19, <1>20, <1>21
     DEF Next

\* So is the draft of a new router.
LEMMA InitDraft == Init => TypeOK
<1> SUFFICES ASSUME Init PROVE IsSnapshot(draft)
  BY DEF TypeOK
<1>1. PICK order \in TemplateRules :
         draft = [supplied |-> Sections \ Suppliable, shared |-> RecordID \ LocalRecords,
                  local |-> {}, excluded |-> {}, disabled |-> {},
                  content |-> [id \in ID |-> CHOOSE c \in ContentChoices[id] : TRUE],
                  marker |-> [id \in ID |-> Absent],
                  rules |-> [shared |-> order, local |-> <<>>, templateOrder |-> order,
                             personalOrder |-> Absent, exclusions |-> <<>>]]
  BY DEF Init
<1>2. order \in Seq(RuleID) /\ <<>> \in Seq(RuleID)
  BY TemplateAssumption
<1>3. draft.rules \in Order!Snapshots
  BY <1>1, <1>2 DEF Order!Snapshots
<1>4. \A id \in ID : draft.content[id] \in Contents(id)
  <2> SUFFICES ASSUME NEW id \in ID PROVE draft.content[id] \in Contents(id)
    OBVIOUS
  <2>1. draft.content[id] = CHOOSE c \in ContentChoices[id] : TRUE
    BY <1>1
  <2>2. ContentChoices[id] # {} /\ ContentChoices[id] \subseteq Contents(id)
    BY ChoicesAssumption
  <2> QED BY <2>1, <2>2
<1>5. draft.content = [id \in ID |-> draft.content[id]]
  BY <1>1
<1> QED BY <1>1, <1>3, <1>4, <1>5, FieldsMakeSnapshot

\* The draft stays a snapshot, whatever is edited, ordered, supplied or changed in
\* the template, and its contents stay contents of their element.
THEOREM DraftTypeCorrect == Spec => []TypeOK
BY InitDraft, TypeStep, PTL DEF Spec

-----------------------------------------------------------------------------
(* What is active *)

\* The contents of an element, by its kind.
LEMMA KindsOfContent ==
    ASSUME NEW id \in ID
    PROVE  Contents(id) = {Broken} \cup (IF id \in RuleID THEN Rules
                                         ELSE IF id \in InboundID \cup OutboundID THEN Outbounds
                                         ELSE IF id \in RoutingID THEN Routings ELSE {Plain})
<1>1. CASE id \in RuleID
  BY <1>1, KindsApart DEF Contents
<1>2. CASE id \in InboundID
  BY <1>2, KindsApart DEF Contents
<1>3. CASE id \in OutboundID
  BY <1>3, KindsApart DEF Contents
<1>4. CASE id \in RoutingID
  BY <1>4, KindsApart DEF Contents
<1>5. CASE id \notin RuleID \cup InboundID \cup OutboundID \cup RoutingID
  BY <1>5 DEF Contents
<1> QED BY <1>1, <1>2, <1>3, <1>4, <1>5

\* The rules in the files are the rules that no mark hides, each once.
LEMMA EmittedOrder ==
    ASSUME NEW in, Order!Assembles(in.rules)
    PROVE  /\ EmittedRules(in) \in Seq(RuleID) /\ IsInjective(EmittedRules(in))
           /\ Active(in, "rules") = Range(EmittedRules(in))
           /\ Active(in, "rules") = (Range(in.rules.shared) \cup Range(in.rules.local))
                                       \ (Range(in.rules.exclusions) \cup in.disabled)
<1> DEFINE full == Order!Full(in.rules)
           visible == Retain(full, RuleID \ Range(in.rules.exclusions))
           K == RuleID \ in.disabled
           V == RuleID \ Range(in.rules.exclusions)
<1>1. /\ full \in Seq(RuleID) /\ IsInjective(full)
      /\ Range(full) = Range(in.rules.shared) \cup Range(in.rules.local)
  BY OrderedRules
<1>2. EmittedRules(in) = Retain(visible, K)
  BY OrderLists DEF EmittedRules, Order!Visible
<1>3. Range(full) \subseteq RuleID
  BY <1>1, ElementOfSeq DEF Range
<1> HIDE DEF full, K, V
<1>4. /\ visible \in Seq(RuleID) /\ IsInjective(visible)
      /\ Range(visible) = Range(full) \cap V
  BY <1>1, RetainMembers DEF V
<1> HIDE DEF visible
<1>5. /\ EmittedRules(in) \in Seq(RuleID) /\ IsInjective(EmittedRules(in))
      /\ Range(EmittedRules(in)) = Range(visible) \cap K
  BY <1>2, <1>4, RetainMembers
<1>6. Active(in, "rules") = Range(EmittedRules(in))
  BY DEF Active
<1> QED BY <1>1, <1>3, <1>4, <1>5, <1>6 DEF K, V

\* What is active, section by section.
LEMMA ActiveRecords ==
    ASSUME NEW in
    PROVE  /\ "inbounds" \in in.supplied =>
                 Active(in, "inbounds") =
                    ((in.shared \cup in.local) \cap InboundID) \ (in.excluded \cup in.disabled)
           /\ \A g \in Sections \ {"rules", "inbounds"} :
                 Active(in, g) = IF g \in in.supplied
                                 THEN ((in.shared \cup in.local) \cap Elements(g)) \ in.excluded
                                 ELSE {}
<1>1. ASSUME NEW g \in Sections \ {"rules", "inbounds"}
      PROVE  Active(in, g) = IF g \in in.supplied
                             THEN ((in.shared \cup in.local) \cap Elements(g)) \ in.excluded
                             ELSE {}
  BY DEF Active, Present
<1>2. "inbounds" \in in.supplied =>
         Active(in, "inbounds") =
            ((in.shared \cup in.local) \cap InboundID) \ (in.excluded \cup in.disabled)
  BY OwnElements DEF Active, Present
<1> QED BY <1>1, <1>2

\* A catalog that passes the first checks has all the sections of the analyses.
LEMMA ActiveElements ==
    ASSUME NEW in, ValidMetadata(in)
    PROVE  /\ Active(in, "inbounds") =
                 ((in.shared \cup in.local) \cap InboundID) \ (in.excluded \cup in.disabled)
           /\ Active(in, "outbounds") = ((in.shared \cup in.local) \cap OutboundID) \ in.excluded
           /\ Active(in, "routing") = ((in.shared \cup in.local) \cap RoutingID) \ in.excluded
<1>1. {"inbounds", "outbounds", "routing"} \subseteq in.supplied
  BY DEF ValidMetadata, Required
<1>2. {"outbounds", "routing"} \subseteq Sections \ {"rules", "inbounds"}
  BY DEF Sections, Required
<1> QED BY <1>1, <1>2, OwnElements, ActiveRecords

\* The analysis of inbounds looks at the same active elements as the catalog.
LEMMA ViewOfInbounds ==
    ASSUME NEW in, ValidMetadata(in)
    PROVE  /\ Inbound!ActiveRules(InboundView(in)) = Active(in, "rules")
           /\ Inbound!ActiveInbounds(InboundView(in), Absent) = Active(in, "inbounds")
           /\ \A id \in InboundID : Inbound!Tags(InboundView(in), id) =
                 IF in.content[id] = Broken THEN {} ELSE in.content[id]
           /\ \A id \in RuleID : Inbound!Tags(InboundView(in), id) =
                 IF in.content[id] = Broken \/ in.content[id].inbound = Broken
                 THEN {} ELSE in.content[id].inbound
<1> DEFINE view == InboundView(in)
<1>1. /\ view.shared = Range(in.rules.shared) \cup (in.shared \cap InboundID)
      /\ view.local = Range(in.rules.local) \cup (in.local \cap InboundID)
      /\ view.excluded = Range(in.rules.exclusions) \cup (in.excluded \cap InboundID)
      /\ view.disabled = in.disabled
      /\ \A id \in InboundID : view.content[id] = in.content[id]
      /\ \A id \in RuleID : view.content[id] =
            IF in.content[id] # Broken THEN in.content[id].inbound ELSE in.content[id]
  BY KindsApart DEF InboundView
<1>2. Order!Assembles(in.rules)
  BY DEF ValidMetadata
<1>3. /\ Range(in.rules.shared) \subseteq RuleID /\ Range(in.rules.local) \subseteq RuleID
      /\ Range(in.rules.exclusions) \subseteq RuleID
  BY <1>2, OrderedRules, ElementOfSeq DEF Range
<1> HIDE DEF view
<1>4. Inbound!ActiveRules(view) = Active(in, "rules")
  BY <1>1, <1>2, <1>3, EmittedOrder, KindsApart DEF Inbound!ActiveRules, Inbound!Hidden
<1>5. Absent \notin InboundID
  BY AbsentAssumption DEF ID, RecordID
<1>6. Inbound!ActiveInbounds(view, Absent) = Active(in, "inbounds")
  BY <1>1, <1>3, <1>5, ActiveElements, KindsApart DEF Inbound!ActiveInbounds, Inbound!Hidden
<1> QED BY <1>1, <1>4, <1>6 DEF Inbound!Tags, view

-----------------------------------------------------------------------------
(* The list of references and Ready *)

\* Only the references of the rules and of the balancers they choose are in the
\* list (resolvePreparedOutbounds).
LEMMA ReferencesOf ==
    ASSUME NEW p
    PROVE  \A ref : ref \in References(p) <=>
              \/ \E r \in DirectRules(p) : ref = DirectReference(p, r)
              \/ \E r \in BalancedRules(p) : ref = BalancerReference(p, r)
              \/ \E r \in BalancedRules(p) : \E x \in Chosen(p, r) :
                    ref \in NestedReferences(p, r, x[1], x[2])
BY DEF References

\* A rule chooses at most one balancer, and it selects something
\* (indexSelectedBalancers, resolveBalancer).
LEMMA ChosenIsOne ==
    ASSUME NEW p, Analyzes(p), NEW r \in BalancedRules(p), NEW x \in Chosen(p, r)
    PROVE  /\ \A y \in Chosen(p, r) : y = x
           /\ x[2].selector # {}
<1>1. x \in Reachable(p) /\ x[2].tag = p.content[r].balancer
  BY DEF Chosen
<1>2. Requested(p) # {}
  BY DEF Requested
<1>3. \A y, z \in Reachable(p) : y[2].tag = z[2].tag => y = z
  BY <1>2 DEF Analyzes, IndexesBalancers
<1>4. \A y \in Chosen(p, r) : y \in Reachable(p) /\ y[2].tag = p.content[r].balancer
  BY DEF Chosen
<1>5. \A y \in Chosen(p, r) : y = x
  BY <1>1, <1>3, <1>4
<1>6. x[2].selector # {}
  BY <1>1 DEF Analyzes
<1>7. QED
  BY <1>5, <1>6

\* What a balancer refers to is in the list under the rule that chose it.
LEMMA NestedFields ==
    ASSUME NEW p, NEW r, NEW s, NEW b, NEW ref
    PROVE  ref \in NestedReferences(p, r, s, b) <=>
              \/ \E prefix \in b.selector : ref = SelectorReference(p, r, s, b, prefix)
              \/ /\ b.fallback # Absent
                 /\ ref = Located(r, s, "fallback", <<b.tag>>, Providers(p, b.fallback))
BY DEF NestedReferences

\* What a nested reference of a balancer says of its place: the rule and one of two kinds.
LEMMA NestedRule ==
    ASSUME NEW p, NEW r, NEW s, NEW b, NEW ref \in NestedReferences(p, r, s, b)
    PROVE  ref.rule = r /\ ref.kind \in {"selector", "fallback"}
<1>1. CASE \E prefix \in b.selector : ref = SelectorReference(p, r, s, b, prefix)
  BY <1>1 DEF SelectorReference, Reference
<1>2. CASE ref = Located(r, s, "fallback", <<b.tag>>, Providers(p, b.fallback))
  BY <1>2 DEF Located, Reference
<1>3. QED
  BY <1>1, <1>2, NestedFields

\* A rule is usable, told from the list, exactly if its balancer matches an
\* outbound or falls back on one.
LEMMA UsableIff ==
    ASSUME NEW p, Analyzes(p), NEW r \in BalancedRules(p), NEW x \in Chosen(p, r)
    PROVE  r \in Usable(References(p)) <=> Matches(p, x[2]) # {} \/ FallbackReady(p, x[2])
<1> DEFINE s == x[1]
           b == x[2]
<1>1. ASSUME NEW ref \in References(p), ref.rule = r, ref.kind \in {"selector", "fallback"}
      PROVE  ref \in NestedReferences(p, r, s, b)
  <2>1. \A q \in DirectRules(p) : DirectReference(p, q).kind = "direct"
    BY DEF DirectReference, Located, Reference
  <2>2. \A q \in BalancedRules(p) : BalancerReference(p, q).kind = "balancer"
    BY DEF BalancerReference, Reference
  <2>3. PICK q \in BalancedRules(p) :
           \E y \in Chosen(p, q) : ref \in NestedReferences(p, q, y[1], y[2])
    BY <1>1, <2>1, <2>2, ReferencesOf
  <2>4. q = r
    BY <1>1, <2>3, NestedRule
  <2>5. \A y \in Chosen(p, r) : y = x
    BY ChosenIsOne
  <2>6. QED
    BY <2>3, <2>4, <2>5
<1>2. \A ref \in NestedReferences(p, r, s, b) : ref \in References(p)
  BY ReferencesOf
<1>3. \A prefix \in b.selector :
         SelectorReference(p, r, s, b, prefix).status = "resolved" <=> Selected(p, prefix) # {}
  BY DEF SelectorReference, Reference
<1>4. Located(r, s, "fallback", <<b.tag>>, Providers(p, b.fallback)).status = "resolved"
        <=> Providers(p, b.fallback) # {}
  BY DEF Located, Reference
<1>5. r \in Usable(References(p))
        <=> \E ref \in NestedReferences(p, r, s, b) : ref.status = "resolved"
  <2>1. ASSUME r \in Usable(References(p))
        PROVE  \E ref \in NestedReferences(p, r, s, b) : ref.status = "resolved"
    <3>1. PICK ref \in References(p) :
             ref.rule = r /\ ref.kind \in {"selector", "fallback"} /\ ref.status = "resolved"
      BY <2>1 DEF Usable
    <3>2. QED
      BY <3>1, <1>1
  <2>2. ASSUME NEW ref \in NestedReferences(p, r, s, b), ref.status = "resolved"
        PROVE  r \in Usable(References(p))
    <3>1. ref \in References(p) /\ ref.rule = r /\ ref.kind \in {"selector", "fallback"}
      BY <1>2, NestedRule
    <3>2. QED
      BY <2>2, <3>1 DEF Usable
  <2>3. QED
    BY <2>1, <2>2
<1>6. Matches(p, b) # {} <=> \E prefix \in b.selector : Selected(p, prefix) # {}
  BY DEF Matches
<1>7. QED
  BY <1>3, <1>4, <1>5, <1>6, NestedFields DEF FallbackReady

\* What a balancer refers to blocks exactly if the balancer is not ready: an
\* empty match counts only without another match or a fallback, a fallback
\* that does not resolve always.
LEMMA BalancerBlocks ==
    ASSUME NEW p, Analyzes(p), NEW r \in BalancedRules(p), NEW x \in Chosen(p, r)
    PROVE  BalancerReady(p, x[2]) <=>
              \A ref \in NestedReferences(p, r, x[1], x[2]) : ref \notin Blocking(References(p))
<1> DEFINE s == x[1]
           b == x[2]
           fallback == Located(r, s, "fallback", <<b.tag>>, Providers(p, b.fallback))
<1>1. \A ref \in NestedReferences(p, r, s, b) : ref \in References(p)
  BY ReferencesOf
<1>2. \A ref \in NestedReferences(p, r, s, b) :
         ref \in Blocking(References(p)) <=>
            \/ ref.status = "missing"
            \/ ref.status = "no_matches" /\ ~(Matches(p, b) # {} \/ FallbackReady(p, b))
  BY <1>1, UsableIff, NestedRule DEF Blocking
<1>3. \A prefix \in b.selector :
         LET ref == SelectorReference(p, r, s, b, prefix)
         IN  /\ ref \in NestedReferences(p, r, s, b)
             /\ ref.status # "missing"
             /\ ref.status = "no_matches" <=> Selected(p, prefix) = {}
  BY NestedFields DEF SelectorReference, Reference
<1>4. b.fallback # Absent => fallback \in NestedReferences(p, r, s, b)
  BY NestedFields
<1>5. fallback.status = "missing" <=> Providers(p, b.fallback) = {}
  BY DEF Located, Reference
<1>6. fallback.status # "no_matches"
  BY DEF Located, Reference
<1>7. b.selector # {}
  BY ChosenIsOne
<1>8. ASSUME BalancerReady(p, b), NEW ref \in NestedReferences(p, r, s, b)
      PROVE  ref \notin Blocking(References(p))
  <2>1. Matches(p, b) # {} \/ FallbackReady(p, b)
    BY <1>8 DEF BalancerReady
  <2>2. ref.status # "missing"
    BY <1>8, <1>3, <1>5, NestedFields DEF BalancerReady, FallbackReady
  <2>3. QED
    BY <1>2, <2>1, <2>2
<1>9. ASSUME \A ref \in NestedReferences(p, r, s, b) : ref \notin Blocking(References(p))
      PROVE  BalancerReady(p, b)
  <2>1. Matches(p, b) # {} \/ FallbackReady(p, b)
    <3>1. SUFFICES ASSUME Matches(p, b) = {}, ~FallbackReady(p, b) PROVE FALSE
      OBVIOUS
    <3>2. PICK prefix \in b.selector : TRUE
      BY <1>7
    <3>3. Selected(p, prefix) = {}
      BY <3>1 DEF Matches
    <3>4. QED
      BY <1>2, <1>3, <1>9, <3>1, <3>3
  <2>2. b.fallback # Absent => FallbackReady(p, b)
    BY <1>2, <1>4, <1>5, <1>9 DEF FallbackReady
  <2>3. QED
    BY <2>1, <2>2 DEF BalancerReady
<1>10. QED
  BY <1>8, <1>9

\* Of an accepted analysis the list of references blocks exactly if it is not
\* ready (analyzeCatalogDependencies, OutboundAnalysis.Ready).
LEMMA BlockingIffNotReady ==
    ASSUME NEW p, Analyzes(p)
    PROVE  Blocking(References(p)) = {} <=> Ready(p)
<1>1. \A r \in DirectRules(p) :
         /\ DirectReference(p, r) \in References(p)
         /\ DirectReference(p, r) \in Blocking(References(p)) <=> Providers(p, p.content[r].direct) = {}
  <2> TAKE r \in DirectRules(p)
  <2>1. DirectReference(p, r) \in References(p)
    BY ReferencesOf
  <2>2. DirectReference(p, r).status = IF Providers(p, p.content[r].direct) # {}
                                       THEN "resolved" ELSE "missing"
    BY DEF DirectReference, Located, Reference
  <2>3. QED
    BY <2>1, <2>2 DEF Blocking
<1>2. \A r \in BalancedRules(p) :
         BalancerReference(p, r) \in Blocking(References(p)) <=> Chosen(p, r) = {}
  <2> TAKE r \in BalancedRules(p)
  <2>1. BalancerReference(p, r) \in References(p)
    BY ReferencesOf
  <2>2. BalancerReference(p, r).status = IF Chosen(p, r) # {} THEN "resolved" ELSE "missing"
    BY DEF BalancerReference, Reference
  <2>3. QED
    BY <2>1, <2>2 DEF Blocking
<1>3. \A r \in BalancedRules(p) : \A x \in Chosen(p, r) :
         BalancerReady(p, x[2]) <=>
            \A ref \in NestedReferences(p, r, x[1], x[2]) : ref \notin Blocking(References(p))
  BY BalancerBlocks
<1>4. Blocking(References(p)) \subseteq References(p)
  BY DEF Blocking
<1>5. ASSUME Ready(p), NEW ref \in Blocking(References(p))
      PROVE  FALSE
  <2>1. CASE \E r \in DirectRules(p) : ref = DirectReference(p, r)
    BY <1>1, <1>5, <2>1 DEF Ready
  <2>2. CASE \E r \in BalancedRules(p) : ref = BalancerReference(p, r)
    BY <1>2, <1>5, <2>2 DEF Ready
  <2>3. CASE \E r \in BalancedRules(p) : \E x \in Chosen(p, r) :
                ref \in NestedReferences(p, r, x[1], x[2])
    BY <1>3, <1>5, <2>3 DEF Ready
  <2>4. QED
    BY <1>4, <1>5, <2>1, <2>2, <2>3, ReferencesOf
<1>6. ASSUME Blocking(References(p)) = {}
      PROVE  Ready(p)
  BY <1>1, <1>2, <1>3, <1>6 DEF Ready
<1>7. QED
  BY <1>5, <1>6

-----------------------------------------------------------------------------
(* The catalog *)

\* The catalog is refused for its dependencies exactly if an analysis fails or
\* is not ready, for drafts of any size and whatever became of them
\* (analyzeCatalogDependencies).
THEOREM RefusalsAreForReadiness == Spec => []BlockedIffNotReady
<1>1. BlockedIffNotReady
  <2>1. BlockingInbound(draft) = {} <=> Inbound!Ready(InboundView(draft), Absent)
    BY DEF BlockingInbound, Inbound!Ready
  <2>2. Analyzes(Reading(draft)) =>
           (Blocking(References(Reading(draft))) = {} <=> Ready(Reading(draft)))
    BY BlockingIffNotReady
  <2>3. QED
    BY <2>1, <2>2 DEF BlockedIffNotReady, Assembles, AnalyzesCatalog
<1>2. QED
  BY <1>1, PTL

-----------------------------------------------------------------------------
(* The values in the files *)

\* The values of a section, the rules without their order.
ValuesIn(files, g) == IF g = "rules" THEN Range(files[g]) ELSE files[g]

\* The files hold one value for every active element and nothing else
\* (AssembleXrayCatalog).
LEMMA FileValues ==
    ASSUME NEW in, NEW g \in Keys(in)
    PROVE  ValuesIn(Catalog(in), g) = {Value(in, g, id) : id \in Active(in, g)}
<1> DEFINE emitted == EmittedRules(in)
           rules == [k \in DOMAIN emitted |-> Value(in, g, emitted[k])]
           values == {Value(in, g, id) : id \in Active(in, g)}
<1>1. Catalog(in)[g] = IF g = "rules" THEN rules ELSE values
  BY DEF Catalog
<1>2. CASE g = "rules"
  <2>1. Active(in, g) = Range(emitted)
    BY <1>2 DEF Active
  <2> HIDE DEF emitted
  <2>2. Range(rules) = values
    BY <2>1 DEF Range
  <2> QED BY <1>1, <1>2, <2>2 DEF ValuesIn
<1> QED BY <1>1, <1>2 DEF ValuesIn

-----------------------------------------------------------------------------
(* A catalog is closed *)

\* The contents that the catalog reads have the form of their kind.
LEMMA ReadableContents ==
    ASSUME NEW in, IsSnapshot(in), ValidMetadata(in), Prepares(in)
    PROVE  /\ \A r \in Active(in, "rules") : r \in RuleID /\ in.content[r] \in Rules
           /\ \A i \in Active(in, "inbounds") :
                 i \in InboundID /\ in.content[i] \in Outbounds /\ in.content[i] # Broken
           /\ \A o \in Active(in, "outbounds") :
                 o \in OutboundID /\ in.content[o] \in Outbounds /\ in.content[o] # Broken
           /\ \A s \in Active(in, "routing") : s \in RoutingID /\ in.content[s] \in Routings
<1>1. {"rules", "inbounds", "outbounds", "routing"} \subseteq Sections
  BY DEF Sections, Required
<1>2. \A g \in Sections : \A id \in Active(in, g) : in.content[id] # Broken
  BY DEF Prepares
<1>3. \A id \in ID : in.content[id] \in Contents(id)
  BY SnapshotFields
<1>4. RuleID \cup InboundID \cup OutboundID \cup RoutingID \subseteq ID
  BY DEF ID, RecordID
<1>5. /\ Active(in, "rules") \subseteq RuleID /\ Active(in, "inbounds") \subseteq InboundID
      /\ Active(in, "outbounds") \subseteq OutboundID /\ Active(in, "routing") \subseteq RoutingID
  <2>1. Order!Assembles(in.rules)
    BY DEF ValidMetadata
  <2>2. /\ EmittedRules(in) \in Seq(RuleID) /\ Active(in, "rules") = Range(EmittedRules(in))
    BY <2>1, EmittedOrder
  <2>3. Active(in, "rules") \subseteq RuleID
    BY <2>2, ElementOfSeq DEF Range
  <2> QED BY <2>3, ActiveElements
<1>6. ASSUME NEW r \in Active(in, "rules") PROVE r \in RuleID /\ in.content[r] \in Rules
  <2>1. r \in RuleID /\ r \in ID /\ in.content[r] # Broken
    BY <1>1, <1>2, <1>4, <1>5
  <2>2. in.content[r] \in {Broken} \cup Rules
    BY <2>1, <1>3, KindsOfContent
  <2> QED BY <2>1, <2>2
<1>7. ASSUME NEW i \in Active(in, "inbounds")
      PROVE  i \in InboundID /\ in.content[i] \in Outbounds /\ in.content[i] # Broken
  <2>1. i \in InboundID /\ i \in ID /\ in.content[i] # Broken /\ i \notin RuleID
    BY <1>1, <1>2, <1>4, <1>5, KindsApart
  <2>2. in.content[i] \in {Broken} \cup Outbounds
    BY <2>1, <1>3, KindsOfContent
  <2> QED BY <2>1, <2>2
<1>8. ASSUME NEW o \in Active(in, "outbounds")
      PROVE  o \in OutboundID /\ in.content[o] \in Outbounds /\ in.content[o] # Broken
  <2>1. o \in OutboundID /\ o \in ID /\ in.content[o] # Broken /\ o \notin RuleID
    BY <1>1, <1>2, <1>4, <1>5, KindsApart
  <2>2. in.content[o] \in {Broken} \cup Outbounds
    BY <2>1, <1>3, KindsOfContent
  <2> QED BY <2>1, <2>2
<1>9. ASSUME NEW s \in Active(in, "routing") PROVE s \in RoutingID /\ in.content[s] \in Routings
  <2>1. /\ s \in RoutingID /\ s \in ID /\ in.content[s] # Broken
        /\ s \notin RuleID \cup InboundID \cup OutboundID
    BY <1>1, <1>2, <1>4, <1>5, KindsApart
  <2>2. in.content[s] \in {Broken} \cup Routings
    BY <2>1, <1>3, KindsOfContent
  <2> QED BY <2>1, <2>2
<1> QED BY <1>6, <1>7, <1>8, <1>9

\* What carries a tag in a file is what carries it in the section.
LEMMA CarryingValues ==
    ASSUME NEW in, NEW g \in Keys(in) \ {"rules"}, NEW tag
    PROVE  Carrying(Catalog(in)[g], tag) =
              {Value(in, g, id) : id \in {x \in Active(in, g) : tag \in in.content[x]}}
<1>1. Catalog(in)[g] = {Value(in, g, id) : id \in Active(in, g)}
  BY FileValues DEF ValuesIn
<1>2. \A id : Value(in, g, id).content = in.content[id]
  BY DEF Value
<1> HIDE DEF Catalog
<1> QED BY <1>1, <1>2 DEF Carrying

\* So a tag with one provider is carried once.
LEMMA CarriedOnce ==
    ASSUME NEW in, NEW g \in Keys(in) \ {"rules"}, NEW tag,
           NEW o, {x \in Active(in, g) : tag \in in.content[x]} = {o}
    PROVE  Cardinality(Carrying(Catalog(in)[g], tag)) = 1
<1>1. Carrying(Catalog(in)[g], tag) = {Value(in, g, o)}
  BY CarryingValues
<1> QED BY <1>1, FS_Singleton

\* The analysis of outbounds looks at the same active elements.
LEMMA ReadingFields ==
    ASSUME NEW in
    PROVE  /\ Reading(in).rules = Active(in, "rules")
           /\ Reading(in).outbounds = Active(in, "outbounds")
           /\ Reading(in).routing = Active(in, "routing")
           /\ Reading(in).content = in.content
BY DEF Reading

\* A tag of an outbound has at most one provider among the readable ones.
LEMMA OneProvider ==
    ASSUME NEW p, IndexesOutbounds(p), NEW tag \in Tag, Providers(p, tag) # {}
    PROVE  \E o \in p.outbounds : Providers(p, tag) = {o}
<1>1. PICK o : o \in Providers(p, tag)
  OBVIOUS
<1>2. \A i, j \in Providers(p, tag) : i = j
  BY DEF IndexesOutbounds
<1> QED BY <1>1, <1>2 DEF Providers

\* An inbound tag that an active rule names has one active inbound.
LEMMA OneInbound ==
    ASSUME NEW in, IsSnapshot(in), Assembles(in), NEW r \in Active(in, "rules"),
           NEW tag \in in.content[r].inbound
    PROVE  \E i \in InboundID : {x \in Active(in, "inbounds") : tag \in in.content[x]} = {i}
<1> DEFINE view == InboundView(in)
           providers == Inbound!Providers(view, Absent, tag)
<1>1. ValidMetadata(in) /\ Prepares(in) /\ AnalyzesCatalog(in)
  BY DEF Assembles
<1>2. r \in RuleID /\ in.content[r] \in Rules /\ in.content[r] # Broken
  BY <1>1, ReadableContents, BrokenAssumption
<1>3. in.content[r].inbound \in SUBSET Tag
  BY <1>2 DEF Rules
<1>4. tag \in Tag /\ in.content[r].inbound # Broken
  BY <1>3, BrokenAssumption
<1>5. Inbound!Tags(view, r) = in.content[r].inbound /\ r \in Inbound!ActiveRules(view)
  BY <1>1, <1>2, <1>4, ViewOfInbounds
<1>6. <<r, tag>> \in Inbound!References(view)
  BY <1>2, <1>4, <1>5 DEF Inbound!References
<1>7. providers # {}
  <2>1. BlockingInbound(in) = {}
    BY <1>1 DEF AnalyzesCatalog
  <2> QED BY <1>6, <2>1 DEF BlockingInbound, Inbound!Resolved
<1>8. \A i, j \in providers : i = j
  BY <1>1, <1>4 DEF AnalyzesCatalog, Inbound!Analyzes
<1>9. providers = {x \in Active(in, "inbounds") : tag \in in.content[x]}
  <2>1. \A i \in Active(in, "inbounds") :
           i \in InboundID /\ Inbound!Tags(view, i) = in.content[i]
    BY <1>1, ReadableContents, ViewOfInbounds
  <2>2. Inbound!ActiveInbounds(view, Absent) = Active(in, "inbounds")
    BY <1>1, ViewOfInbounds
  <2> QED BY <2>1, <2>2 DEF Inbound!Providers
<1>10. \A i \in Active(in, "inbounds") : i \in InboundID
  BY <1>1, ReadableContents
<1> HIDE DEF providers
<1>11. PICK i : i \in providers
  BY <1>7
<1>12. providers = {i} /\ i \in InboundID
  BY <1>8, <1>9, <1>10, <1>11
<1> QED BY <1>9, <1>12

\* The balancer a rule chooses is whole: its element is read, its fields have
\* their types and no other balancer there has its tag.
LEMMA ChosenBalancer ==
    ASSUME NEW in, IsSnapshot(in), ValidMetadata(in), Prepares(in), Analyzes(Reading(in)),
           NEW r \in BalancedRules(Reading(in)), NEW x \in Chosen(Reading(in), r)
    PROVE  /\ x[1] \in Active(in, "routing")
           /\ x[2] \in in.content[x[1]].balancers
           /\ {c \in in.content[x[1]].balancers : c.tag = in.content[r].balancer} = {x[2]}
           /\ x[2] \in Balancers /\ x[2].fallback \in Tag \cup {Absent}
<1> DEFINE p == Reading(in)
           s == x[1]
           b == x[2]
<1>1. x \in Reachable(p) /\ b.tag = p.content[r].balancer
  BY DEF Chosen
<1>2. /\ s \in p.routing /\ b \in p.content[s].balancers /\ x = <<s, b>>
  BY <1>1 DEF Reachable
<1>3. p.content[r].balancer \in Requested(p)
  BY DEF Requested
<1>4. \A y, z \in Reachable(p) : y[2].tag = z[2].tag => y = z
  BY <1>3 DEF Analyzes, IndexesBalancers
<1>5. ASSUME NEW c \in p.content[s].balancers, c.tag = p.content[r].balancer PROVE c = b
  <2>1. <<s, c>> \in Reachable(p)
    BY <1>2, <1>3, <1>5 DEF Reachable
  <2>2. <<s, c>>[2].tag = x[2].tag
    BY <1>1, <1>5
  <2>3. <<s, c>> = x
    BY <1>1, <1>4, <2>1, <2>2
  <2> QED BY <2>3
<1>6. in.content[s] \in Routings
  BY <1>2, ReadableContents, ReadingFields
<1>7. b \in Balancers
  BY <1>2, <1>6, ReadingFields DEF Routings
<1>8. b.fallback # Broken
  BY <1>1 DEF Analyzes
<1>9. b.fallback \in Tag \cup {Absent}
  BY <1>7, <1>8 DEF Balancers
<1> QED BY <1>1, <1>2, <1>5, <1>7, <1>9, ReadingFields

\* A rule of an assembled catalog finds what it names in the files.
LEMMA RuleIsServed ==
    ASSUME NEW in, IsSnapshot(in), Assembles(in), NEW r \in Active(in, "rules")
    PROVE  Served(Value(in, "rules", r), Catalog(in))
<1> DEFINE p == Reading(in)
           files == Catalog(in)
           v == Value(in, "rules", r)
<1>1. ValidMetadata(in) /\ Prepares(in) /\ AnalyzesCatalog(in)
  BY DEF Assembles
<1>2. Analyzes(p) /\ Ready(p)
  BY <1>1, BlockingIffNotReady DEF AnalyzesCatalog
<1>3. {"inbounds", "outbounds", "routing"} \subseteq Keys(in) \ {"rules"}
  BY DEF Keys, Required
<1>4. v.content = in.content[r] /\ r \in RuleID /\ in.content[r] \in Rules
  BY <1>1, ReadableContents DEF Value
<1>5. ASSUME NEW tag \in Tag, Providers(p, tag) # {}
      PROVE  Cardinality(Carrying(files["outbounds"], tag)) = 1
  <2>1. PICK o : Providers(p, tag) = {o}
    BY <1>2, <1>5, OneProvider DEF Analyzes
  <2>2. {x \in Active(in, "outbounds") : tag \in in.content[x]} = {o}
    BY <2>1, ReadingFields DEF Providers
  <2> QED BY <1>3, <2>2, CarriedOnce
<1>6. ASSUME NEW tag \in v.content.inbound
      PROVE  Cardinality(Carrying(files["inbounds"], tag)) = 1
  <2>1. tag \in in.content[r].inbound
    BY <1>4
  <2>2. \E i \in InboundID : {x \in Active(in, "inbounds") : tag \in in.content[x]} = {i}
    BY <2>1, OneInbound
  <2> QED BY <1>3, <2>2, CarriedOnce
<1>7. ASSUME v.content.direct # NoTag
      PROVE  Cardinality(Carrying(files["outbounds"], v.content.direct)) = 1
  <2>1. r \in DirectRules(p)
    BY <1>4, <1>7, ReadingFields DEF DirectRules
  <2>2. Providers(p, v.content.direct) # {}
    BY <1>2, <1>4, <2>1, ReadingFields DEF Ready
  <2>3. v.content.direct \in Tag
    BY <1>4 DEF Rules
  <2> QED BY <1>5, <2>2, <2>3
<1>8. ASSUME v.content.direct = NoTag, v.content.balancer # NoTag
      PROVE  \E s \in files["routing"] : \E b \in s.content.balancers :
                /\ {c \in s.content.balancers : c.tag = v.content.balancer} = {b}
                /\ IF b.fallback # Absent
                   THEN Cardinality(Carrying(files["outbounds"], b.fallback)) = 1
                   ELSE \E prefix \in b.selector : \E t \in StartsWith[prefix] :
                            Carrying(files["outbounds"], t) # {}
  <2>1. r \in BalancedRules(p)
    BY <1>4, <1>8, ReadingFields DEF BalancedRules
  <2>2. PICK x \in Chosen(p, r) : BalancerReady(p, x[2])
    BY <1>2, <2>1 DEF Ready
  <2> DEFINE s == Value(in, "routing", x[1])
             b == x[2]
  <2>3. /\ x[1] \in Active(in, "routing") /\ b \in in.content[x[1]].balancers
        /\ {c \in in.content[x[1]].balancers : c.tag = in.content[r].balancer} = {b}
        /\ b \in Balancers /\ b.fallback \in Tag \cup {Absent}
    BY <1>1, <1>2, <2>1, ChosenBalancer
  <2>4. s.content = in.content[x[1]]
    BY DEF Value
  <2>5. s \in files["routing"]
    BY <1>3, <2>3, FileValues DEF ValuesIn
  <2>6. ASSUME b.fallback # Absent
        PROVE  Cardinality(Carrying(files["outbounds"], b.fallback)) = 1
    <3>1. b.fallback \in Tag /\ Providers(p, b.fallback) # {}
      BY <2>2, <2>3, <2>6 DEF BalancerReady, FallbackReady
    <3> QED BY <1>5, <3>1
  <2>7. ASSUME b.fallback = Absent
        PROVE  \E prefix \in b.selector : \E t \in StartsWith[prefix] :
                  Carrying(files["outbounds"], t) # {}
    <3>1. Matches(p, b) # {}
      BY <2>2, <2>7 DEF BalancerReady, FallbackReady
    <3>2. PICK prefix \in b.selector : Selected(p, prefix) # {}
      BY <3>1 DEF Matches
    <3>3. PICK o \in p.outbounds : p.content[o] \cap StartsWith[prefix] # {}
      BY <3>2 DEF Selected
    <3>4. PICK t \in StartsWith[prefix] : t \in in.content[o]
      BY <3>3, ReadingFields
    <3>5. Carrying(files["outbounds"], t) # {}
      BY <1>3, <3>3, <3>4, CarryingValues, ReadingFields
    <3> QED BY <3>4, <3>5
  <2> HIDE DEF files, p, s
  <2> QED BY <1>4, <2>3, <2>4, <2>5, <2>6, <2>7
<1> HIDE DEF files, v
<1>9. Served(v, files)
  BY <1>6, <1>7, <1>8 DEF Served
<1> QED BY <1>9 DEF files, v

\* An assembled catalog is closed, whatever edits led to it and whatever is in
\* it: every rule finds its inbounds and its outbound or balancer in the files,
\* and only once.
THEOREM CatalogsAreClosed == Spec => []CatalogIsClosed
<1>1. ASSUME TypeOK PROVE CatalogIsClosed
  <2> SUFFICES ASSUME Assembles(draft), NEW k \in DOMAIN Catalog(draft)["rules"]
               PROVE  Served(Catalog(draft)["rules"][k], Catalog(draft))
    BY DEF CatalogIsClosed
  <2> DEFINE emitted == EmittedRules(draft)
  <2>1. Catalog(draft)["rules"] = [l \in DOMAIN emitted |-> Value(draft, "rules", emitted[l])]
    BY DEF Catalog, Keys, Required
  <2>2. Active(draft, "rules") = Range(emitted)
    BY DEF Active
  <2> HIDE DEF emitted
  <2>3. k \in DOMAIN emitted /\ Catalog(draft)["rules"][k] = Value(draft, "rules", emitted[k])
    <3> HIDE DEF Catalog
    <3> QED BY <2>1
  <2>4. emitted[k] \in Active(draft, "rules")
    BY <2>2, <2>3 DEF Range
  <2> QED BY <1>1, <2>3, <2>4, RuleIsServed DEF TypeOK
<1> QED BY <1>1, DraftTypeCorrect, PTL

-----------------------------------------------------------------------------
(* What is copied out of the files *)

\* What is active in a section is an element of it.
LEMMA ActiveInSection ==
    ASSUME NEW in, ValidMetadata(in), NEW g \in Sections
    PROVE  Active(in, g) \subseteq Elements(g)
<1>1. CASE g = "rules"
  <2>1. Order!Assembles(in.rules)
    BY DEF ValidMetadata
  <2>2. EmittedRules(in) \in Seq(RuleID) /\ Active(in, g) = Range(EmittedRules(in))
    BY <1>1, <2>1, EmittedOrder
  <2>3. Range(EmittedRules(in)) \subseteq RuleID
    BY <2>2, ElementOfSeq DEF Range
  <2> QED BY <1>1, <2>2, <2>3, OwnElements
<1>2. CASE g = "inbounds"
  BY <1>2, ActiveElements, OwnElements
<1>3. CASE g \notin {"rules", "inbounds"}
  BY <1>3, ActiveRecords
<1> QED BY <1>1, <1>2, <1>3

\* The elements of a section have contents of one kind.
LEMMA SectionContents ==
    ASSUME NEW g \in Sections, NEW x \in Elements(g), NEW y \in Elements(g)
    PROVE  Contents(x) = Contents(y)
<1>1. x \in ID /\ y \in ID
  BY OwnElements
<1>2. CASE g \in {"rules", "inbounds", "outbounds", "routing"}
  BY <1>1, <1>2, OwnElements, KindsApart, KindsOfContent
<1>3. CASE g \notin {"rules", "inbounds", "outbounds", "routing"}
  <2>1. x \in SettingsID /\ y \in SettingsID
    BY <1>3 DEF Elements
  <2> QED BY <1>1, <2>1, KindsApart, KindsOfContent
<1> QED BY <1>2, <1>3

\* What a copy does to the markers.
MarkerGoesAlong(g, from, to) ==
    /\ g \in Marked => draft'.marker = [draft.marker EXCEPT ![to] = from]
    /\ g \notin Marked => draft'.marker = [draft.marker EXCEPT ![to] = draft.marker[from]]

\* What a copy leaves: contents of the right kind, and the marker of the element
\* it was taken from.
LEMMA CopiedDraft ==
    ASSUME TypeOK, NEW g \in Sections, NEW from \in Elements(g), NEW to \in Elements(g),
           Copy(g, from, to)
    PROVE  /\ TypeOK'
           /\ \A f \in {"supplied", "rules", "shared", "local", "excluded", "disabled"} :
                 draft'[f] = draft[f]
           /\ g = "routing" => draft'.content = [draft.content EXCEPT
                 ![to] = [draft.content[from] EXCEPT !.rules = TRUE]]
           /\ g # "routing" => draft'.content = [draft.content EXCEPT ![to] = draft.content[from]]
           /\ MarkerGoesAlong(g, from, to)
<1> DEFINE c == IF g = "routing" THEN [draft.content[from] EXCEPT !.rules = TRUE]
                ELSE draft.content[from]
           m == IF g \in Marked THEN from ELSE draft.marker[from]
<1>1. /\ DOMAIN draft = {"supplied", "rules", "shared", "local", "excluded", "disabled",
                         "content", "marker"}
      /\ draft.supplied \in SUBSET Sections
      /\ draft.rules \in Order!Snapshots
      /\ draft.shared \in SUBSET RecordID /\ draft.local \in SUBSET RecordID
      /\ draft.excluded \in SUBSET RecordID
      /\ draft.disabled \in SUBSET (RuleID \cup InboundID)
      /\ draft.marker \in [ID -> ID \cup {Absent}]
      /\ draft.content = [id \in ID |-> draft.content[id]]
      /\ \A id \in ID : draft.content[id] \in Contents(id)
  BY SnapshotFields DEF TypeOK
<1>2. from \in ID /\ to \in ID
  BY OwnElements
<1>3. Published(draft, g, from).content = c /\ Published(draft, g, from).marker = m
  BY DEF Published, Value
<1>4. m \in ID \cup {Absent}
  BY <1>1, <1>2
<1>5. c \in Contents(to)
  <2>1. CASE g = "routing"
    <3>1. from \in Active(draft, "routing") /\ ValidMetadata(draft) /\ Prepares(draft)
      BY <2>1 DEF Copy, Assembles
    <3>2. draft.content[from] \in Routings
      BY <3>1, ReadableContents DEF TypeOK
    <3>3. c \in Routings
      BY <2>1, <3>2 DEF Routings
    <3>4. to \in RoutingID
      BY <2>1, OwnElements
    <3>5. Contents(to) = {Broken} \cup Routings
      BY <1>2, <3>4, KindsApart, KindsOfContent
    <3> QED BY <3>3, <3>5
  <2>2. CASE g # "routing"
    BY <1>1, <1>2, <2>2, SectionContents
  <2> QED BY <2>1, <2>2
<1>6. draft' = [draft EXCEPT !.content[to] = c, !.marker[to] = m]
  BY <1>3, Zenon DEF Copy
<1> HIDE DEF c, m
<1>7. /\ DOMAIN draft' = DOMAIN draft
      /\ \A f \in DOMAIN draft \ {"content", "marker"} : draft'[f] = draft[f]
      /\ draft'.content = [draft.content EXCEPT ![to] = c]
      /\ draft'.marker = [draft.marker EXCEPT ![to] = m]
  <2> DEFINE half == [draft EXCEPT !.content[to] = c]
  <2>1. /\ DOMAIN half = DOMAIN draft
        /\ \A f \in DOMAIN draft \ {"content"} : half[f] = draft[f]
        /\ half.content = [draft.content EXCEPT ![to] = c]
    BY <1>1
  <2>2. draft' = [half EXCEPT !.marker[to] = m]
    BY <1>6, Zenon
  <2> HIDE DEF half
  <2> QED BY <1>1, <2>1, <2>2
<1>8. draft'.marker \in [ID -> ID \cup {Absent}]
  BY <1>1, <1>4, <1>7
<1>9. /\ draft'.content = [id \in ID |-> draft'.content[id]]
      /\ \A id \in ID : draft'.content[id] \in Contents(id)
  BY <1>1, <1>2, <1>5, <1>7
<1>10. IsSnapshot(draft)'
  BY <1>1, <1>7, <1>8, <1>9, FieldsMakeSnapshot
<1> QED BY <1>1, <1>7, <1>10 DEF TypeOK, MarkerGoesAlong, c, m

\* The content of an element that was copied carries the marker of its origin,
\* whether or not the element is active, until the marker is edited.
CopyInv ==
    /\ TypeOK
    /\ origin \in [ID -> ID \cup {Absent}]
    /\ \A g \in Sections \cap Marked : \A id \in Elements(g) :
          origin[id] # Absent => draft.marker[id] = origin[id]

LEMMA InitCopyInv == CopyInit => CopyInv
<1> SUFFICES ASSUME CopyInit PROVE CopyInv
  OBVIOUS
<1>1. TypeOK
  BY InitDraft DEF CopyInit
<1>2. origin = [id \in ID |-> Absent]
  BY DEF CopyInit
<1> QED BY <1>1, <1>2, OwnElements DEF CopyInv

LEMMA CopyKeepsInv ==
    ASSUME CopyInv, NEW g \in Sections, NEW from \in Elements(g), NEW to \in Elements(g),
           Copy(g, from, to)
    PROVE  CopyInv'
<1>1. TypeOK
  BY DEF CopyInv
<1>2. TypeOK'
  BY <1>1, CopiedDraft
<1>3. MarkerGoesAlong(g, from, to)
  BY <1>1, CopiedDraft
<1>4. /\ origin \in [ID -> ID \cup {Absent}]
      /\ origin' = IF g \in Marked THEN [origin EXCEPT ![to] = from] ELSE origin
  BY DEF CopyInv, Copy
<1>5. draft.marker \in [ID -> ID \cup {Absent}]
  BY <1>1, SnapshotFields DEF TypeOK
<1>6. from \in ID /\ to \in ID
  BY OwnElements
<1>7. ASSUME NEW h \in Sections \cap Marked, NEW id \in Elements(h), origin'[id] # Absent
      PROVE  draft'.marker[id] = origin'[id]
  <2>1. id \in ID
    BY OwnElements
  <2>2. CASE id # to
    BY <1>3, <1>4, <1>5, <1>7, <2>1, <2>2 DEF CopyInv, MarkerGoesAlong
  <2>3. CASE id = to
    <3>1. h = g
      BY <2>3, OwnElements
    <3> QED BY <1>3, <1>4, <1>5, <1>6, <2>3, <3>1 DEF MarkerGoesAlong
  <2> QED BY <2>2, <2>3
<1>8. origin' \in [ID -> ID \cup {Absent}]
  BY <1>4, <1>6
<1> QED BY <1>2, <1>7, <1>8 DEF CopyInv

LEMMA NextCopyInv == CopyInv /\ [CopyNext]_copyVars => CopyInv'
<1> SUFFICES ASSUME CopyInv, [CopyNext]_copyVars PROVE CopyInv'
  OBVIOUS
<1>0. /\ TypeOK
      /\ origin \in [ID -> ID \cup {Absent}]
      /\ \A g \in Sections \cap Marked : \A id \in Elements(g) :
            origin[id] # Absent => draft.marker[id] = origin[id]
  BY DEF CopyInv
<1>1. ASSUME NEW g \in Sections, NEW from \in Elements(g), NEW to \in Elements(g),
             Copy(g, from, to)
      PROVE  CopyInv'
  BY <1>1, CopyKeepsInv
<1>2. ASSUME Edit PROVE CopyInv'
  <2>1. TypeOK'
    BY <1>0, <1>2, TypeStep DEF Edit
  <2>2. origin' = [id \in ID |-> IF draft'.marker[id] = draft.marker[id] THEN origin[id] ELSE Absent]
    BY <1>2 DEF Edit
  <2>3. origin' \in [ID -> ID \cup {Absent}]
    BY <1>0, <2>2
  <2>4. \A id \in ID : origin'[id] # Absent =>
           origin'[id] = origin[id] /\ draft'.marker[id] = draft.marker[id]
    BY <2>2
  <2> QED BY <1>0, <2>1, <2>3, <2>4, OwnElements DEF CopyInv
<1>3. CASE UNCHANGED copyVars
  <2>1. TypeOK'
    BY <1>0, <1>3, TypeStep DEF copyVars
  <2> QED BY <1>0, <1>3, <2>1 DEF copyVars, CopyInv
<1> QED BY <1>1, <1>2, <1>3 DEF CopyNext

LEMMA AlwaysCopyInv == CopySpec => []CopyInv
BY InitCopyInv, NextCopyInv, PTL DEF CopySpec

\* Whatever is copied, activated or edited in whatever order, an assembled
\* catalog has no value under two UUIDs (ProjectElementIdentity).
THEOREM CopiesAreKeptOut == CopySpec => []CopiesStayOut
<1>1. CopyInv => CopiesStayOut
  <2> SUFFICES ASSUME CopyInv, Assembles(draft),
                      NEW g \in Sections \cap Marked, NEW id \in Active(draft, g)
               PROVE  origin[id] \in {Absent, id}
    BY DEF CopiesStayOut
  <2>1. ValidMetadata(draft) /\ draft.marker[id] \in {Absent, id}
    BY DEF Assembles, Projects
  <2>2. id \in Elements(g)
    BY <2>1, ActiveInSection
  <2> QED BY <2>1, <2>2 DEF CopyInv
<1> QED BY <1>1, AlwaysCopyInv, PTL

-----------------------------------------------------------------------------
(* What is stored again as it is in the files *)

\* Contents and markers decide nothing about what is active.
LEMMA SameActive ==
    ASSUME NEW a, NEW b,
           \A f \in {"supplied", "rules", "shared", "local", "excluded", "disabled"} : a[f] = b[f]
    PROVE  /\ EmittedRules(a) = EmittedRules(b)
           /\ \A g : Present(a, g) = Present(b, g) /\ Active(a, g) = Active(b, g)
           /\ ValidMetadata(a) <=> ValidMetadata(b)
           /\ Keys(a) = Keys(b)
<1>1. /\ a.supplied = b.supplied /\ a.rules = b.rules /\ a.shared = b.shared
      /\ a.local = b.local /\ a.excluded = b.excluded /\ a.disabled = b.disabled
  OBVIOUS
<1>2. EmittedRules(a) = EmittedRules(b)
  BY <1>1 DEF EmittedRules
<1>3. \A g : Present(a, g) = Present(b, g)
  BY <1>1 DEF Present
<1>4. \A g : Active(a, g) = Active(b, g)
  BY <1>1, <1>2, <1>3 DEF Active
<1>5. ValidMetadata(a) <=> ValidMetadata(b)
  BY <1>1, <1>3, <1>4 DEF ValidMetadata, Passed
<1>6. Keys(a) = Keys(b)
  BY <1>1, <1>3, <1>4 DEF Keys
<1> QED BY <1>2, <1>3, <1>4, <1>5, <1>6

\* Nor do markers decide whether the contents can be read and the references
\* are served.
LEMMA SameAnalysis ==
    ASSUME NEW a, NEW b, a.content = b.content,
           \A f \in {"supplied", "rules", "shared", "local", "excluded", "disabled"} : a[f] = b[f]
    PROVE  (Prepares(a) <=> Prepares(b)) /\ (AnalyzesCatalog(a) <=> AnalyzesCatalog(b))
<1>1. \A g : Active(a, g) = Active(b, g)
  BY SameActive
<1>2. Prepares(a) <=> Prepares(b)
  BY <1>1 DEF Prepares
<1>3. Reading(a) = Reading(b)
  BY <1>1 DEF Reading
<1>4. InboundView(a) = InboundView(b)
  BY DEF InboundView
<1>5. BlockingInbound(a) = BlockingInbound(b)
  BY <1>4 DEF BlockingInbound
<1>6. AnalyzesCatalog(a) <=> AnalyzesCatalog(b)
  BY <1>3, <1>4, <1>5 DEF AnalyzesCatalog
<1> QED BY <1>2, <1>6

\* Stored again for its own element, no value but the routing settings changes
\* what is assembled; those are refused.
LEMMA ReturnedValue ==
    ASSUME TypeOK, NEW g \in Sections, NEW id \in Elements(g), Copy(g, id, id)
    PROVE  IF g = "routing" THEN ~Assembles(draft')
           ELSE Assembles(draft') /\ Catalog(draft') = Catalog(draft)
<1>1. /\ \A f \in {"supplied", "rules", "shared", "local", "excluded", "disabled"} :
            draft'[f] = draft[f]
      /\ g = "routing" => draft'.content = [draft.content EXCEPT
            ![id] = [draft.content[id] EXCEPT !.rules = TRUE]]
      /\ g # "routing" => draft'.content = [draft.content EXCEPT ![id] = draft.content[id]]
      /\ g \in Marked => draft'.marker = [draft.marker EXCEPT ![id] = id]
      /\ g \notin Marked => draft'.marker = [draft.marker EXCEPT ![id] = draft.marker[id]]
  BY CopiedDraft DEF MarkerGoesAlong
<1>2. id \in Active(draft, g) /\ Assembles(draft)
  BY DEF Copy
<1>3. /\ EmittedRules(draft') = EmittedRules(draft)
      /\ \A h : Active(draft', h) = Active(draft, h)
      /\ ValidMetadata(draft') <=> ValidMetadata(draft)
      /\ Keys(draft') = Keys(draft)
  BY <1>1, SameActive
<1>4. /\ draft.marker \in [ID -> ID \cup {Absent}]
      /\ draft.content = [i \in ID |-> draft.content[i]]
      /\ id \in ID
  BY SnapshotFields, OwnElements DEF TypeOK
<1>5. CASE g = "routing"
  <2>1. draft.content[id] \in Routings
    BY <1>2, <1>5, ReadableContents DEF Assembles, TypeOK
  <2>2. draft'.content[id].rules = TRUE
    BY <1>1, <1>4, <1>5, <2>1 DEF Routings
  <2>3. ~Prepares(draft')
    BY <1>2, <1>3, <1>5, <2>2 DEF Prepares
  <2> QED BY <1>5, <2>3 DEF Assembles
<1>6. CASE g # "routing"
  <2>1. draft'.content = draft.content
    BY <1>1, <1>4, <1>6
  <2>2. (Prepares(draft') <=> Prepares(draft)) /\ (AnalyzesCatalog(draft') <=> AnalyzesCatalog(draft))
    BY <1>1, <2>1, SameAnalysis
  <2>3. Projects(draft')
    <3> SUFFICES ASSUME NEW h \in Sections \cap Marked, NEW i \in Active(draft', h)
                 PROVE  draft'.marker[i] \in {Absent, i}
      BY DEF Projects
    <3>1. draft.marker[i] \in {Absent, i} /\ ValidMetadata(draft)
      BY <1>2, <1>3 DEF Assembles, Projects
    <3>2. i \in ID
      BY <1>3, <3>1, ActiveInSection, OwnElements
    <3> QED BY <1>1, <1>4, <3>1, <3>2
  <2>4. Assembles(draft')
    BY <1>2, <1>3, <2>2, <2>3 DEF Assembles
  <2>5. ASSUME NEW h \in Sections, NEW i \in Active(draft, h)
        PROVE  Value(draft', h, i) = Value(draft, h, i)
    <3>1. ValidMetadata(draft)
      BY <1>2 DEF Assembles
    <3>2. i \in Elements(h) /\ i \in ID
      BY <3>1, ActiveInSection, OwnElements
    <3>3. h \notin Marked => draft'.marker[i] = draft.marker[i]
      <4>1. CASE i # id
        BY <1>1, <1>4, <3>2, <4>1
      <4>2. CASE i = id
        <5>1. h = g
          BY <3>2, <4>2, OwnElements
        <5> QED BY <1>1, <1>4, <4>2, <5>1
      <4> QED BY <4>1, <4>2
    <3> QED BY <2>1, <3>3 DEF Value
  <2>6. Catalog(draft') = Catalog(draft)
    <3> DEFINE emitted == EmittedRules(draft)
    <3>1. Keys(draft) \subseteq Sections
      BY DEF Keys, Sections, Required
    <3>2. Active(draft, "rules") = Range(emitted) /\ "rules" \in Sections
      BY DEF Active, Sections, Required
    <3>3. \A k \in DOMAIN emitted :
             Value(draft', "rules", emitted[k]) = Value(draft, "rules", emitted[k])
      <4> HIDE DEF emitted
      <4> QED BY <2>5, <3>2 DEF Range
    <3>4. \A h \in Keys(draft) :
             {Value(draft', h, i) : i \in Active(draft, h)} = {Value(draft, h, i) : i \in Active(draft, h)}
      BY <2>5, <3>1
    <3>5. ASSUME NEW h \in Keys(draft) PROVE Catalog(draft')[h] = Catalog(draft)[h]
      <4>1. CASE h = "rules"
        <5>1. /\ Catalog(draft)[h] = [k \in DOMAIN emitted |-> Value(draft, "rules", emitted[k])]
              /\ Catalog(draft')[h] = [k \in DOMAIN emitted |-> Value(draft', "rules", emitted[k])]
          BY <1>3, <4>1 DEF Catalog
        <5> HIDE DEF emitted
        <5> QED BY <3>3, <5>1
      <4>2. CASE h # "rules"
        BY <1>3, <3>4, <4>2 DEF Catalog
      <4> QED BY <4>1, <4>2
    <3>6. /\ DOMAIN Catalog(draft') = Keys(draft) /\ DOMAIN Catalog(draft) = Keys(draft)
          /\ Catalog(draft') = [h \in DOMAIN Catalog(draft') |-> Catalog(draft')[h]]
          /\ Catalog(draft) = [h \in DOMAIN Catalog(draft) |-> Catalog(draft)[h]]
      BY <1>3 DEF Catalog
    <3> QED BY <3>5, <3>6
  <2> QED BY <1>6, <2>4, <2>6
<1> QED BY <1>5, <1>6

\* A value of an assembled catalog can always be stored again for its element,
\* except for the routing settings, which never can (ProjectElementIdentity).
THEOREM ReturnsAreIdempotent == CopySpec => ReturnChangesNothing
<1>1. CopyInv /\ [CopyNext]_copyVars =>
         [\A g \in Sections : \A id \in Elements(g) :
            Copy(g, id, id) =>
               IF g = "routing" THEN ~Assembles(draft')
               ELSE Assembles(draft') /\ Catalog(draft') = Catalog(draft)]_copyVars
  BY ReturnedValue DEF CopyInv
<1> QED BY <1>1, AlwaysCopyInv, PTL DEF CopySpec, ReturnChangesNothing

-----------------------------------------------------------------------------
(* The first element of a section *)

\* The rules in the files depend on the order and on the marks of rules alone.
LEMMA SameRules ==
    ASSUME NEW d, NEW e, e.rules = d.rules, e.disabled \cap RuleID = d.disabled \cap RuleID
    PROVE  EmittedRules(e) = EmittedRules(d) /\ Active(e, "rules") = Active(d, "rules")
<1>1. RuleID \ e.disabled = RuleID \ d.disabled
  OBVIOUS
<1>2. EmittedRules(e) = EmittedRules(d)
  BY <1>1 DEF EmittedRules
<1> QED BY <1>2 DEF Active

\* The view of inbounds is made of these fields.
LEMMA SameView ==
    ASSUME NEW d, NEW e, e.rules = d.rules, e.disabled = d.disabled, e.content = d.content,
           e.shared \cap InboundID = d.shared \cap InboundID,
           e.local \cap InboundID = d.local \cap InboundID,
           e.excluded \cap InboundID = d.excluded \cap InboundID
    PROVE  InboundView(e) = InboundView(d)
BY DEF InboundView

\* A balancer that no rule requests is not looked at.
LEMMA NoRequests ==
    ASSUME NEW d, NEW e, Analyzes(Reading(d)), Ready(Reading(d)),
           Active(d, "routing") = {},
           Active(e, "rules") = Active(d, "rules"),
           Active(e, "outbounds") = Active(d, "outbounds"), e.content = d.content
    PROVE  Analyzes(Reading(e)) /\ Ready(Reading(e))
<1> DEFINE p == Reading(d)
           q == Reading(e)
<1>1. /\ q.rules = p.rules /\ q.outbounds = p.outbounds /\ q.content = p.content
      /\ p.routing = {}
  BY ReadingFields
<1> HIDE DEF p, q
<1>2. DirectRules(q) = DirectRules(p) /\ BalancedRules(q) = BalancedRules(p)
  BY <1>1 DEF DirectRules, BalancedRules
<1>3. \A tag : Providers(q, tag) = Providers(p, tag)
  BY <1>1 DEF Providers
<1>4. BalancedRules(p) = {}
  <2>1. Reachable(p) = {}
    BY <1>1 DEF Reachable
  <2>2. \A r \in BalancedRules(p) : Chosen(p, r) = {}
    BY <2>1 DEF Chosen
  <2>3. \A r \in BalancedRules(p) : Chosen(p, r) # {}
    BY DEF Ready, p
  <2> QED BY <2>2, <2>3
<1>5. Requested(q) = {}
  BY <1>2, <1>4 DEF Requested
<1>6. Reachable(q) = {}
  BY <1>5 DEF Reachable
<1>7. IndexesBalancers(q)
  BY <1>5 DEF IndexesBalancers
<1>8. Analyzes(p) /\ Ready(p)
  BY DEF p
<1>9. IndexesOutbounds(q)
  BY <1>1, <1>3, <1>8 DEF Analyzes, IndexesOutbounds
<1>10. Analyzes(q)
  BY <1>1, <1>6, <1>7, <1>8, <1>9 DEF Analyzes
<1>11. Ready(q)
  BY <1>1, <1>2, <1>3, <1>4, <1>8 DEF Ready
<1> QED BY <1>10, <1>11 DEF q

\* The first element of a section that is one value is no reason to refuse the
\* catalog, for any section and any other content.
THEOREM EmptySectionsCanBeFilled == Spec => LocalFillsEmptySection
<1> DEFINE d == draft
           e == draft'
<1>1. ASSUME TypeOK, NEW g \in Sections \ Collections, NEW id \in Elements(g),
             AddLocal(id), Active(d, g) = {}, Assembles(d), Prepares(e), Projects(e)
      PROVE  Assembles(e)
  <2>1. /\ e.local = d.local \cup {id} /\ e.supplied = d.supplied /\ e.rules = d.rules
        /\ e.shared = d.shared /\ e.excluded = d.excluded /\ e.disabled = d.disabled
        /\ e.content = d.content /\ id \notin d.shared
    <3>1. DOMAIN d = {"supplied", "rules", "shared", "local", "excluded", "disabled",
                      "content", "marker"}
      BY <1>1, SnapshotFields DEF TypeOK
    <3> QED BY <1>1, <3>1 DEF AddLocal
  <2>2. ValidMetadata(d) /\ AnalyzesCatalog(d)
    BY <1>1 DEF Assembles
  <2> HIDE DEF d, e
  <2>3. \A h \in Sections : h # g => id \notin Elements(h)
    BY OneSectionAssumption
  <2>4. /\ {"rules", "inbounds", "outbounds", "fakedns"} \subseteq Sections \ {g}
        /\ g \notin {"rules", "inbounds", "outbounds", "fakedns"}
    BY DEF Sections, Collections, Required, Optional
  <2>5. id \notin InboundID /\ id \notin OutboundID
    BY <2>3, <2>4, OwnElements
  <2>6. ASSUME NEW h \in Sections, h # g PROVE Active(e, h) = Active(d, h)
    <3>1. CASE h = "rules"
      BY <2>1, <3>1, SameRules
    <3>2. CASE h = "inbounds"
      BY <2>1, <2>3, <3>2, <2>6, <2>5, OwnElements DEF Active, Present
    <3>3. CASE h \notin {"rules", "inbounds"}
      BY <2>1, <2>3, <2>6, <3>3, ActiveRecords
    <3> QED BY <3>1, <3>2, <3>3
  <2>7. Active(e, g) \subseteq {id}
    BY <1>1, <2>1, <2>4, ActiveRecords DEF d
  <2>8. ValidMetadata(e)
    <3>1. Passed(e, e.shared \cap e.local) = Passed(d, d.shared \cap d.local)
      BY <2>1 DEF Passed
    <3>2. Passed(e, e.excluded) = Passed(d, d.excluded)
      BY <2>1 DEF Passed
    <3>3. Present(d, "inbounds") \subseteq Present(e, "inbounds")
      BY <2>1 DEF Present
    <3>4. \A h \in Sections \ Collections : \A x, y \in Active(e, h) : x = y
      BY <2>2, <2>6, <2>7 DEF ValidMetadata
    <3> QED BY <2>1, <2>2, <3>1, <3>2, <3>3, <3>4 DEF ValidMetadata
  <2>9. InboundView(e) = InboundView(d)
    BY <2>1, <2>5, SameView
  <2>10. /\ Active(e, "rules") = Active(d, "rules")
         /\ Active(e, "outbounds") = Active(d, "outbounds")
    BY <2>4, <2>6
  <2>11. Analyzes(Reading(d)) /\ Ready(Reading(d))
    BY <2>2, BlockingIffNotReady DEF AnalyzesCatalog
  <2>12. Analyzes(Reading(e)) /\ Ready(Reading(e))
    <3>1. CASE g = "routing"
      <4>1. Active(d, "routing") = {}
        BY <1>1, <3>1 DEF d
      <4> QED BY <2>1, <2>10, <2>11, <4>1, NoRequests
    <3>2. CASE g # "routing"
      <4>1. "routing" \in Sections
        BY DEF Sections, Required
      <4>2. Reading(e) = Reading(d)
        BY <2>1, <2>6, <2>10, <3>2, <4>1 DEF Reading
      <4> QED BY <2>11, <4>2
    <3> QED BY <3>1, <3>2
  <2>13. AnalyzesCatalog(e)
    BY <2>2, <2>9, <2>12, BlockingIffNotReady DEF AnalyzesCatalog, BlockingInbound
  <2> QED BY <1>1, <2>8, <2>13 DEF Assembles, e
<1>2. TypeOK /\ [Next]_draft =>
         [\A g \in Sections \ Collections : \A id \in Elements(g) :
            /\ AddLocal(id) /\ Active(draft, g) = {}
            /\ Assembles(draft)
            /\ Prepares(draft') /\ Projects(draft')
            => Assembles(draft')]_draft
  BY <1>1
<1> QED BY <1>2, DraftTypeCorrect, PTL DEF Spec, LocalFillsEmptySection

-----------------------------------------------------------------------------
(* Inbounds that nobody needs *)

\* Two drafts with the same template, rules, content and markers: they differ in
\* local elements, exclusions and switches only.
SameSource(d, e) ==
    /\ e.supplied = d.supplied /\ e.rules = d.rules /\ e.content = d.content
    /\ e.marker = d.marker /\ e.shared = d.shared

\* Among the records of other sections nothing changes by an edit of an inbound.
LEMMA InboundEdit ==
    ASSUME NEW d, NEW e, IsSnapshot(d), SameSource(d, e), NEW id \in InboundID,
           ValidMetadata(d),
           e.local \ {id} = d.local \ {id}, e.excluded \ {id} = d.excluded \ {id},
           e.disabled \ {id} = d.disabled \ {id},
           id \in e.local => id \in d.local, id \in d.excluded => id \in e.excluded,
           id \in e.excluded => id \in d.excluded \cup d.shared,
           id \in e.disabled => id \in d.shared \cup e.local,
           id \in e.disabled \/ id \in e.excluded \/ (id \notin d.shared /\ id \notin e.local)
    PROVE  /\ ValidMetadata(e)
           /\ \A g \in Sections \ {"inbounds"} : Active(e, g) = Active(d, g)
           /\ EmittedRules(e) = EmittedRules(d)
           /\ Active(e, "inbounds") = Active(d, "inbounds") \ {id}
<1> USE DEF SameSource
<1>1. /\ id \notin RuleID
      /\ \A g \in Sections \ {"inbounds"} : id \notin Elements(g)
      /\ "inbounds" \in Sections \cap d.supplied /\ "inbounds" \in Collections
      /\ "rules" \in Collections /\ id \in Elements("inbounds")
  <2>1. "inbounds" \in Sections /\ "inbounds" \in Required /\ "inbounds" \in Collections
        /\ "rules" \in Collections
    BY DEF Sections, Required, Collections
  <2> QED BY <2>1, KindsApart, OwnElements DEF ValidMetadata
<1>2. e.disabled \cap RuleID = d.disabled \cap RuleID
  BY <1>1
<1>3. EmittedRules(e) = EmittedRules(d) /\ Active(e, "rules") = Active(d, "rules")
  BY <1>2, SameRules
<1>4. ASSUME NEW g \in Sections \ {"inbounds"} PROVE Active(e, g) = Active(d, g)
  <2>1. CASE g = "rules"
    BY <1>3, <2>1
  <2>2. CASE g # "rules"
    <3>1. id \notin Elements(g)
      BY <1>1
    <3>2. ((e.shared \cup e.local) \cap Elements(g)) \ e.excluded =
             ((d.shared \cup d.local) \cap Elements(g)) \ d.excluded
      BY <3>1
    <3> QED BY <2>2, <3>2, ActiveRecords
  <2> QED BY <2>1, <2>2
<1>5. Active(e, "inbounds") = Active(d, "inbounds") \ {id}
  BY <1>1, ActiveRecords
<1>6. ValidMetadata(e)
  <2>1. Passed(e, e.shared \cap e.local) = {}
    <3>1. Passed(d, d.shared \cap d.local) = {}
      BY DEF ValidMetadata
    <3>2. e.shared \cap e.local \subseteq d.shared \cap d.local
      OBVIOUS
    <3> QED BY <3>1, <3>2 DEF Passed
  <2>2. Passed(e, e.excluded) \subseteq e.shared
    <3>1. Passed(d, d.excluded) \subseteq d.shared
      BY DEF ValidMetadata
    <3>2. e.excluded \subseteq d.excluded \cup (d.shared \cap {id})
      OBVIOUS
    <3> QED BY <3>1, <3>2 DEF Passed
  <2>3. e.disabled \subseteq Range(Order!Full(e.rules)) \cup Present(e, "inbounds")
    <3>1. d.disabled \subseteq Range(Order!Full(d.rules)) \cup Present(d, "inbounds")
      BY DEF ValidMetadata
    <3>2. /\ Present(d, "inbounds") = (d.shared \cup d.local) \cap Elements("inbounds")
          /\ Present(e, "inbounds") = (e.shared \cup e.local) \cap Elements("inbounds")
      BY <1>1 DEF Present
    <3> QED BY <1>1, <3>1, <3>2
  <2>4. \A g \in Sections \ Collections : \A x, y \in Active(e, g) : x = y
    BY <1>1, <1>4 DEF ValidMetadata
  <2> QED BY <2>1, <2>2, <2>3, <2>4 DEF ValidMetadata
<1> QED BY <1>3, <1>4, <1>5, <1>6

\* An inbound that no reference resolves to is no provider of one.
LEMMA NotNeeded ==
    ASSUME NEW d, ValidMetadata(d), NEW id, Inbound!CanChange(InboundView(d), id),
           NEW ref \in Inbound!References(InboundView(d))
    PROVE  id \notin Inbound!Resolved(InboundView(d), Absent, ref)
<1> DEFINE view == InboundView(d)
<1>1. id \notin Inbound!Resolved(view, id, ref) /\ id \in Inbound!ActiveInbounds(view, id)
  BY DEF Inbound!CanChange
<1> QED BY <1>1 DEF Inbound!Resolved, Inbound!Providers

\* Two views with the same rules and contents have the same references; what is
\* left of the inbounds provides what it did.
LEMMA FewerInbounds ==
    ASSUME NEW v, NEW w, NEW id,
           Inbound!ActiveRules(w) = Inbound!ActiveRules(v), w.content = v.content,
           Inbound!ActiveInbounds(w, Absent) = Inbound!ActiveInbounds(v, Absent) \ {id}
    PROVE  /\ Inbound!References(w) = Inbound!References(v)
           /\ \A tag : Inbound!Providers(w, Absent, tag) =
                 Inbound!Providers(v, Absent, tag) \ {id}
<1>1. \A x : Inbound!Tags(w, x) = Inbound!Tags(v, x)
  BY DEF Inbound!Tags
<1> QED BY <1>1 DEF Inbound!References, Inbound!Providers

\* What the guard lets through (ChangeInbound) leaves a draft that assembles
\* one that assembles.
LEMMA GuardedStep ==
    ASSUME TypeOK, NEW id \in InboundID, NEW action \in Inbound!Actions,
           ChangeInbound(id, action), Assembles(draft)
    PROVE  Assembles(draft')
<1> DEFINE d == draft
           e == draft'
           v == InboundView(d)
           w == InboundView(e)
<1>1. ValidMetadata(d) /\ Prepares(d) /\ AnalyzesCatalog(d) /\ Projects(d)
  BY DEF Assembles
<1>2. /\ IsSnapshot(d)
      /\ Inbound!CanChange(v, id)
      /\ \/ d' = [d EXCEPT !.disabled = @ \cup {id}]
         \/ id \in d.shared /\ d' = [d EXCEPT !.excluded = @ \cup {id}]
         \/ id \notin d.shared /\ d' = [d EXCEPT !.local = @ \ {id}, !.disabled = @ \ {id}]
  BY DEF TypeOK, ChangeInbound, Inbound!Actions
<1>3. id \in d.shared \cup d.local
  <2>1. id \in (v.shared \cup v.local) \cap InboundID
    BY <1>2 DEF Inbound!CanChange, Inbound!ActiveInbounds
  <2>2. Range(d.rules.shared) \subseteq RuleID /\ Range(d.rules.local) \subseteq RuleID
    <3>1. Order!Assembles(d.rules)
      BY <1>1 DEF ValidMetadata
    <3> QED BY <3>1, OrderedRules, ElementOfSeq DEF Range
  <2> QED BY <2>1, <2>2, KindsApart DEF InboundView
<1>4. /\ SameSource(d, e)
      /\ e.local \ {id} = d.local \ {id} /\ e.excluded \ {id} = d.excluded \ {id}
      /\ e.disabled \ {id} = d.disabled \ {id}
      /\ id \in e.local => id \in d.local
      /\ id \in d.excluded => id \in e.excluded
      /\ id \in e.excluded => id \in d.excluded \cup d.shared
      /\ id \in e.disabled => id \in d.shared \cup e.local
      /\ id \in e.disabled \/ id \in e.excluded \/ (id \notin d.shared /\ id \notin e.local)
  <2>1. DOMAIN d = {"supplied", "rules", "shared", "local", "excluded", "disabled",
                    "content", "marker"}
    BY <1>2, SnapshotFields
  <2>2. CASE d' = [d EXCEPT !.disabled = @ \cup {id}]
    <3>1. /\ e.disabled = d.disabled \cup {id} /\ e.local = d.local
          /\ e.excluded = d.excluded /\ SameSource(d, e)
      BY <2>1, <2>2 DEF SameSource
    <3> QED BY <1>3, <3>1
  <2>3. CASE id \in d.shared /\ d' = [d EXCEPT !.excluded = @ \cup {id}]
    <3>1. /\ e.excluded = d.excluded \cup {id} /\ e.local = d.local
          /\ e.disabled = d.disabled /\ SameSource(d, e)
      BY <2>1, <2>3 DEF SameSource
    <3> QED BY <2>3, <3>1
  <2>4. CASE id \notin d.shared /\ d' = [d EXCEPT !.local = @ \ {id}, !.disabled = @ \ {id}]
    <3>1. /\ e.local = d.local \ {id} /\ e.excluded = d.excluded
          /\ e.disabled = d.disabled \ {id} /\ SameSource(d, e)
      BY <2>1, <2>4 DEF SameSource
    <3> QED BY <2>4, <3>1
  <2> QED BY <1>2, <2>2, <2>3, <2>4
<1> HIDE DEF d, e
<1>5. /\ ValidMetadata(e)
      /\ \A g \in Sections \ {"inbounds"} : Active(e, g) = Active(d, g)
      /\ Active(e, "inbounds") = Active(d, "inbounds") \ {id}
  BY <1>1, <1>2, <1>4, InboundEdit
<1>6. \A g \in Sections : Active(e, g) \subseteq Active(d, g)
  BY <1>5
<1>7. {"rules", "outbounds", "routing"} \subseteq Sections \ {"inbounds"}
  BY DEF Sections, Required
<1>8. Prepares(e)
  <2>1. "routing" \in Sections
    BY <1>7
  <2> QED BY <1>1, <1>4, <1>6, <2>1 DEF Prepares, SameSource
<1>9. Projects(e)
  BY <1>1, <1>4, <1>6 DEF Projects, SameSource
<1>10. Reading(e) = Reading(d)
  BY <1>4, <1>5, <1>7 DEF Reading, SameSource
<1>11. /\ Inbound!ActiveRules(w) = Inbound!ActiveRules(v) /\ w.content = v.content
       /\ Inbound!ActiveInbounds(w, Absent) = Inbound!ActiveInbounds(v, Absent) \ {id}
  <2>1. w.content = v.content
    BY <1>4 DEF InboundView, SameSource
  <2> QED BY <1>1, <1>5, <1>7, <2>1, ViewOfInbounds
<1>12. /\ Inbound!References(w) = Inbound!References(v)
       /\ \A tag : Inbound!Providers(w, Absent, tag) = Inbound!Providers(v, Absent, tag) \ {id}
  <2> HIDE DEF v, w
  <2> QED BY <1>11, FewerInbounds
<1>13. BlockingInbound(e) = {}
  <2>1. ASSUME NEW ref \in Inbound!References(v)
        PROVE  Inbound!Resolved(w, Absent, ref) = Inbound!Resolved(v, Absent, ref)
    <3>1. id \notin Inbound!Resolved(v, Absent, ref)
      BY <1>1, <1>2, <2>1, NotNeeded
    <3> QED BY <1>12, <3>1 DEF Inbound!Resolved
  <2>2. BlockingInbound(d) = {}
    BY <1>1 DEF AnalyzesCatalog
  <2> QED BY <1>12, <2>1, <2>2 DEF BlockingInbound
<1>14. Inbound!Analyzes(w, Absent)
  <2>1. Inbound!Analyzes(v, Absent)
    BY <1>1 DEF AnalyzesCatalog
  <2>2. Inbound!ValidMetadata(w)
    <3>1. Inbound!ValidMetadata(v)
      BY <2>1 DEF Inbound!Analyzes
    <3>2. /\ w.shared = v.shared
          /\ w.local \subseteq v.local /\ v.local \ {id} \subseteq w.local
          /\ w.excluded \subseteq v.excluded \cup (d.shared \cap {id})
          /\ w.disabled \ {id} \subseteq v.disabled
          /\ id \in w.disabled => id \in w.shared \cup w.local
          /\ d.shared \cap {id} \subseteq v.shared
      BY <1>4 DEF InboundView, SameSource
    <3> QED BY <3>1, <3>2 DEF Inbound!ValidMetadata
  <2>3. \A x \in Inbound!ActiveRules(w) \cup Inbound!ActiveInbounds(w, Absent) :
           w.content[x] # Broken
    BY <1>11, <2>1 DEF Inbound!Analyzes
  <2>4. \A tag \in Tag : \A i, j \in Inbound!Providers(w, Absent, tag) : i = j
    BY <1>12, <2>1 DEF Inbound!Analyzes
  <2> QED BY <2>2, <2>3, <2>4 DEF Inbound!Analyzes
<1>15. AnalyzesCatalog(e)
  BY <1>1, <1>10, <1>13, <1>14 DEF AnalyzesCatalog
<1> QED BY <1>5, <1>8, <1>9, <1>15 DEF Assembles, e

\* What the guard of inbounds releases never blocks a catalog, for any rules and
\* inbounds, disabled and excluded ones too.
THEOREM GuardIsEnough == Spec => GuardedChangeKeepsCatalog
<1>1. TypeOK /\ [Next]_draft =>
         [\A id \in InboundID, action \in Inbound!Actions :
            ChangeInbound(id, action) /\ Assembles(draft) => Assembles(draft')]_draft
  BY GuardedStep
<1> QED BY <1>1, DraftTypeCorrect, PTL DEF Spec, GuardedChangeKeepsCatalog

-----------------------------------------------------------------------------
(* Hidden rules *)

\* The rules in the files follow the full order.
LEMMA EmittedFollowsFull ==
    ASSUME NEW in, Order!Assembles(in.rules),
           NEW x \in Range(EmittedRules(in)), NEW y \in Range(EmittedRules(in))
    PROVE  Precedes(EmittedRules(in), x, y) <=> Precedes(Order!Full(in.rules), x, y)
<1> DEFINE full == Order!Full(in.rules)
           V == RuleID \ Range(in.rules.exclusions)
           K == RuleID \ in.disabled
           visible == Retain(full, V)
<1>1. full \in Seq(RuleID) /\ IsInjective(full)
  BY OrderedRules
<1>2. EmittedRules(in) = Retain(visible, K)
  BY OrderLists DEF EmittedRules, Order!Visible
<1> HIDE DEF full, V, K
<1>3. visible \in Seq(RuleID) /\ IsInjective(visible) /\ Range(visible) = Range(full) \cap V
  BY <1>1, RetainMembers
<1> HIDE DEF visible
<1>4. Range(EmittedRules(in)) = Range(visible) \cap K
  BY <1>2, <1>3, RetainMembers
<1>5. x \in Range(visible) \cap K /\ y \in Range(visible) \cap K
  BY <1>4
<1>6. x \in Range(full) \cap V /\ y \in Range(full) \cap V
  BY <1>3, <1>5
<1>7. Precedes(Retain(visible, K), x, y) <=> Precedes(visible, x, y)
  BY <1>3, <1>5, RetainOrder
<1>8. Precedes(Retain(full, V), x, y) <=> Precedes(full, x, y)
  BY <1>1, <1>6, RetainOrder
<1> QED BY <1>2, <1>7, <1>8 DEF visible, full

\* With fewer rules an analysis that accepts everything still does: a balancer
\* nobody requests any more is not looked at.
LEMMA FewerRules ==
    ASSUME NEW p, NEW q, Analyzes(p), Ready(p),
           q.rules \subseteq p.rules, q.outbounds = p.outbounds, q.routing = p.routing,
           q.content = p.content
    PROVE  Analyzes(q) /\ Ready(q)
<1>1. /\ DirectRules(q) \subseteq DirectRules(p)
      /\ BalancedRules(q) \subseteq BalancedRules(p)
  BY DEF DirectRules, BalancedRules
<1>2. Requested(q) \subseteq Requested(p)
  BY <1>1 DEF Requested
<1>3. \A x : x \in Reachable(q) <=> x \in Reachable(p) /\ x[2].tag \in Requested(q)
  BY <1>2 DEF Reachable
<1>4. \A r \in BalancedRules(q) : Chosen(q, r) = Chosen(p, r)
  <2> TAKE r \in BalancedRules(q)
  <2>1. q.content[r].balancer \in Requested(q)
    BY DEF Requested
  <2> QED BY <1>3, <2>1 DEF Chosen
<1>5. \A tag : Providers(q, tag) = Providers(p, tag)
  BY DEF Providers
<1>6. \A prefix : Selected(q, prefix) = Selected(p, prefix)
  BY DEF Selected
<1>7. \A b : BalancerReady(q, b) <=> BalancerReady(p, b)
  BY <1>5, <1>6 DEF BalancerReady, Matches, FallbackReady
<1>8. IndexesOutbounds(q)
  BY <1>5 DEF Analyzes, IndexesOutbounds
<1>9. IndexesBalancers(q)
  BY <1>2, <1>3 DEF Analyzes, IndexesBalancers
<1>10. Analyzes(q)
  BY <1>3, <1>8, <1>9 DEF Analyzes
<1>11. Ready(q)
  BY <1>1, <1>4, <1>5, <1>7 DEF Ready
<1> QED BY <1>10, <1>11

\* The two ways to hide a rule.
Hides(d, e, id) ==
    /\ e.supplied = d.supplied /\ e.shared = d.shared /\ e.local = d.local
    /\ e.excluded = d.excluded /\ e.content = d.content /\ e.marker = d.marker
    /\ \/ /\ e.rules = d.rules /\ e.disabled = d.disabled \cup {id}
          /\ id \in Range(Order!Full(d.rules))
       \/ /\ e.disabled = d.disabled
          /\ e.rules = [d.rules EXCEPT !.exclusions = Append(@, id)]
          /\ id \in Range(d.rules.shared) \ Range(d.rules.exclusions)

\* A mark on a rule is all that changes in the rule order.
LEMMA HiddenOrder ==
    ASSUME NEW d, NEW e, NEW id \in RuleID, IsSnapshot(d), Order!Assembles(d.rules), Hides(d, e, id)
    PROVE  /\ Order!Assembles(e.rules) /\ Order!Full(e.rules) = Order!Full(d.rules)
           /\ e.rules.shared = d.rules.shared /\ e.rules.local = d.rules.local
           /\ id \in Range(d.rules.shared) \cup Range(d.rules.local)
           /\ Range(e.rules.exclusions) \cup e.disabled =
                 Range(d.rules.exclusions) \cup d.disabled \cup {id}
           /\ e.disabled \subseteq d.disabled \cup {id}
           /\ Range(e.rules.exclusions) \subseteq
                 Range(d.rules.exclusions) \cup ({id} \cap Range(d.rules.shared))
<1>1. d.rules \in Order!Snapshots
  BY SnapshotFields
<1>2. CASE e.rules = d.rules /\ e.disabled = d.disabled \cup {id}
           /\ id \in Range(Order!Full(d.rules))
  BY <1>2, OrderedRules
<1>3. CASE /\ e.disabled = d.disabled
           /\ e.rules = [d.rules EXCEPT !.exclusions = Append(@, id)]
           /\ id \in Range(d.rules.shared) \ Range(d.rules.exclusions)
  <2> DEFINE x == Append(d.rules.exclusions, id)
  <2>1. d.rules.exclusions \in Seq(RuleID) /\ IsInjective(d.rules.exclusions)
    BY OrderedRules
  <2>2. /\ x \in Seq(RuleID) /\ IsInjective(x) /\ Range(x) = Range(d.rules.exclusions) \cup {id}
    BY <1>3, <2>1, AppendKeepsOrder, AppendPositions
  <2> HIDE DEF x
  <2>3. /\ e.rules.exclusions = x /\ e.rules.shared = d.rules.shared
        /\ e.rules.local = d.rules.local /\ e.rules.templateOrder = d.rules.templateOrder
        /\ e.rules.personalOrder = d.rules.personalOrder
    BY <1>1, <1>3 DEF Order!Snapshots, x
  <2>4. Order!Full(e.rules) = Order!Full(d.rules)
    BY <2>3 DEF Order!Full
  <2>5. Range(x) \subseteq Range(d.rules.shared)
    BY <1>3, <2>2, OrderedRules
  <2>6. Order!ValidMetadata(e.rules)
    BY <2>2, <2>3, <2>5, OrderLists
       DEF Order!Assembles, Order!AssemblesAs, Order!ValidMetadata, Order!DistinctValid
  <2>7. Order!Assembles(e.rules)
    BY <2>3, <2>4, <2>6 DEF Order!Assembles, Order!AssemblesAs
  <2> QED BY <1>3, <2>2, <2>3, <2>4, <2>7
<1> QED BY <1>2, <1>3 DEF Hides

\* Of the active elements the rule is all that goes.
LEMMA HiddenRule ==
    ASSUME NEW d, NEW e, NEW id \in RuleID, IsSnapshot(d), ValidMetadata(d), Hides(d, e, id)
    PROVE  /\ ValidMetadata(e)
           /\ \A g \in Sections \ {"rules"} :
                 Active(e, g) = Active(d, g) /\ Present(e, g) = Present(d, g)
           /\ Active(e, "rules") = Active(d, "rules") \ {id}
<1>1. /\ e.supplied = d.supplied /\ e.shared = d.shared /\ e.local = d.local
      /\ e.excluded = d.excluded
  BY DEF Hides
<1>2. Order!Assembles(d.rules)
  BY DEF ValidMetadata
<1>3. /\ Order!Assembles(e.rules) /\ Order!Full(e.rules) = Order!Full(d.rules)
      /\ e.rules.shared = d.rules.shared /\ e.rules.local = d.rules.local
      /\ id \in Range(d.rules.shared) \cup Range(d.rules.local)
      /\ Range(e.rules.exclusions) \cup e.disabled =
            Range(d.rules.exclusions) \cup d.disabled \cup {id}
      /\ e.disabled \subseteq d.disabled \cup {id} /\ d.disabled \subseteq e.disabled
  BY <1>2, HiddenOrder DEF Hides
<1>4. id \notin InboundID
  BY KindsApart
<1>5. \A g \in Sections \ {"rules"} : Present(e, g) = Present(d, g)
  BY <1>1 DEF Present
<1>6. ASSUME NEW g \in Sections \ {"rules"} PROVE Active(e, g) = Active(d, g)
  <2>1. CASE g = "inbounds"
    <3>1. Present(d, g) \subseteq InboundID
      BY <2>1, OwnElements DEF Present
    <3> QED BY <1>1, <1>3, <1>4, <1>5, <2>1, <3>1 DEF Active
  <2>2. CASE g # "inbounds"
    BY <1>1, <2>2, ActiveRecords
  <2> QED BY <2>1, <2>2
<1>7. Active(e, "rules") = Active(d, "rules") \ {id}
  BY <1>2, <1>3, EmittedOrder
<1>8. ValidMetadata(e)
  <2>1. e.disabled \subseteq Range(Order!Full(e.rules)) \cup Present(e, "inbounds")
    <3>1. "inbounds" \in Sections \ {"rules"}
      BY DEF Sections, Required
    <3>2. id \in Range(Order!Full(d.rules))
      BY <1>2, <1>3, OrderedRules
    <3> QED BY <1>3, <1>5, <3>1, <3>2 DEF ValidMetadata
  <2>2. \A g \in Sections \ Collections : \A x, y \in Active(e, g) : x = y
    <3>1. "rules" \in Collections
      BY DEF Collections
    <3> QED BY <1>6, <3>1 DEF ValidMetadata
  <2> QED BY <1>1, <1>3, <2>1, <2>2 DEF ValidMetadata, Passed
<1> QED BY <1>5, <1>6, <1>7, <1>8

\* A hidden rule takes its references along, nothing else.
LEMMA HiddenAssembles ==
    ASSUME NEW d, NEW e, NEW id \in RuleID, IsSnapshot(d), Assembles(d), Hides(d, e, id)
    PROVE  Assembles(e)
<1> DEFINE v == InboundView(d)
           w == InboundView(e)
<1>1. ValidMetadata(d) /\ Prepares(d) /\ AnalyzesCatalog(d) /\ Projects(d)
  BY DEF Assembles
<1>2. /\ ValidMetadata(e)
      /\ \A g \in Sections \ {"rules"} : Active(e, g) = Active(d, g)
      /\ Active(e, "rules") = Active(d, "rules") \ {id}
  BY <1>1, HiddenRule
<1>3. \A g \in Sections : Active(e, g) \subseteq Active(d, g)
  BY <1>2
<1>4. {"inbounds", "outbounds", "routing"} \subseteq Sections \ {"rules"}
  BY DEF Sections, Required
<1>5. e.content = d.content /\ e.marker = d.marker
  BY DEF Hides
<1>6. Prepares(e) /\ Projects(e)
  BY <1>1, <1>3, <1>4, <1>5 DEF Prepares, Projects
<1>7. Analyzes(Reading(e)) /\ Ready(Reading(e))
  <2>1. Analyzes(Reading(d)) /\ Ready(Reading(d))
    BY <1>1, BlockingIffNotReady DEF AnalyzesCatalog
  <2>2. /\ Reading(e).rules \subseteq Reading(d).rules
        /\ Reading(e).outbounds = Reading(d).outbounds
        /\ Reading(e).routing = Reading(d).routing
        /\ Reading(e).content = Reading(d).content
    BY <1>2, <1>4, <1>5, ReadingFields
  <2> QED BY <2>1, <2>2, FewerRules
<1>8. /\ Inbound!ActiveRules(w) \subseteq Inbound!ActiveRules(v)
      /\ Inbound!ActiveInbounds(w, Absent) = Inbound!ActiveInbounds(v, Absent)
  BY <1>1, <1>2, <1>4, ViewOfInbounds
<1>9. w.content = v.content
  BY <1>5 DEF InboundView
<1>10. \A x : Inbound!Tags(w, x) = Inbound!Tags(v, x)
  BY <1>9 DEF Inbound!Tags
<1>11. /\ Inbound!References(w) \subseteq Inbound!References(v)
       /\ \A tag : Inbound!Providers(w, Absent, tag) = Inbound!Providers(v, Absent, tag)
  BY <1>8, <1>10 DEF Inbound!References, Inbound!Providers
<1>12. BlockingInbound(e) = {}
  BY <1>1, <1>11 DEF AnalyzesCatalog, BlockingInbound, Inbound!Resolved
<1>13. Inbound!Analyzes(w, Absent)
  <2>1. Inbound!Analyzes(v, Absent)
    BY <1>1 DEF AnalyzesCatalog
  <2>2. Inbound!ValidMetadata(w)
    <3>1. Order!Assembles(d.rules)
      BY <1>1 DEF ValidMetadata
    <3>2. /\ e.rules.shared = d.rules.shared /\ e.rules.local = d.rules.local
          /\ id \in Range(d.rules.shared) \cup Range(d.rules.local)
          /\ e.disabled \subseteq d.disabled \cup {id}
          /\ Range(e.rules.exclusions) \subseteq
                Range(d.rules.exclusions) \cup ({id} \cap Range(d.rules.shared))
      BY <3>1, HiddenOrder
    <3>3. e.shared = d.shared /\ e.local = d.local /\ e.excluded = d.excluded
      BY DEF Hides
    <3>4. /\ w.shared = v.shared /\ w.local = v.local
          /\ w.excluded \subseteq v.excluded \cup ({id} \cap v.shared)
          /\ w.disabled \subseteq v.disabled \cup {id}
          /\ id \in v.shared \cup v.local
      BY <3>2, <3>3 DEF InboundView
    <3>5. Inbound!ValidMetadata(v)
      BY <2>1 DEF Inbound!Analyzes
    <3> HIDE DEF v, w
    <3> QED BY <3>4, <3>5 DEF Inbound!ValidMetadata
  <2>3. \A x \in Inbound!ActiveRules(w) \cup Inbound!ActiveInbounds(w, Absent) :
           w.content[x] # Broken
    BY <1>8, <1>9, <2>1 DEF Inbound!Analyzes
  <2>4. \A tag \in Tag : \A i, j \in Inbound!Providers(w, Absent, tag) : i = j
    BY <1>11, <2>1 DEF Inbound!Analyzes
  <2> QED BY <2>2, <2>3, <2>4 DEF Inbound!Analyzes
<1>14. AnalyzesCatalog(e)
  BY <1>7, <1>12, <1>13, BlockingIffNotReady DEF AnalyzesCatalog
<1> QED BY <1>2, <1>6, <1>14 DEF Assembles

\* The values of rules, which lead back to them by their markers, are in the
\* order of the rules.
LEMMA RuleValues ==
    ASSUME NEW in, NEW s \in Seq(RuleID), IsInjective(s),
           NEW m, m = [k \in DOMAIN s |-> Value(in, "rules", s[k])]
    PROVE  /\ m \in Seq({Value(in, "rules", x) : x \in RuleID}) /\ IsInjective(m)
           /\ \A u \in Range(m) :
                 u.marker \in Range(s) /\ u = Value(in, "rules", u.marker)
           /\ \A x \in Range(s) : Value(in, "rules", x) \in Range(m)
           /\ \A u, v \in Range(m) : Precedes(m, u, v) <=> Precedes(s, u.marker, v.marker)
<1> DEFINE T == {Value(in, "rules", x) : x \in RuleID}
<1>1. \A x : Value(in, "rules", x).marker = x
  BY DEF Value, Marked
<1>2. Len(s) \in Nat /\ DOMAIN s = 1 .. Len(s) /\ \A k \in DOMAIN s : s[k] \in RuleID
  BY LenProperties, ElementOfSeq
<1>3. \A x \in RuleID : Value(in, "rules", x) \in T
  OBVIOUS
<1>4. /\ DOMAIN m = 1 .. Len(s)
      /\ \A k \in 1 .. Len(s) : m[k] = Value(in, "rules", s[k]) /\ m[k].marker = s[k]
  BY <1>1, <1>2
<1>5. m \in Seq(T)
  <2> HIDE DEF T
  <2>1. m \in [1 .. Len(s) -> T]
    BY <1>2, <1>3
  <2> QED BY <1>2, <2>1, SeqDef
<1>6. IsInjective(m)
  BY <1>2, <1>4 DEF IsInjective
<1>7. \A u \in Range(m) : u.marker \in Range(s) /\ u = Value(in, "rules", u.marker)
  BY <1>2, <1>4 DEF Range
<1>8. \A x \in Range(s) : Value(in, "rules", x) \in Range(m)
  BY <1>2, <1>4 DEF Range
<1>9. ASSUME NEW u \in Range(m), NEW v \in Range(m)
      PROVE  Precedes(m, u, v) <=> Precedes(s, u.marker, v.marker)
  <2>1. \A k \in DOMAIN m : (m[k] = u <=> s[k] = u.marker) /\ (m[k] = v <=> s[k] = v.marker)
    BY <1>4, <1>7, <1>9
  <2> QED BY <1>2, <1>4, <2>1 DEF Precedes
<1> QED BY <1>5, <1>6, <1>7, <1>8, <1>9

\* The values of the rules that are left, in the order they had.
LEMMA HiddenValues ==
    ASSUME NEW d, NEW e, NEW id \in RuleID, IsSnapshot(d), ValidMetadata(d), Hides(d, e, id),
           NEW A, A = [k \in DOMAIN EmittedRules(d) |-> Value(d, "rules", EmittedRules(d)[k])],
           NEW B, B = [k \in DOMAIN EmittedRules(e) |-> Value(e, "rules", EmittedRules(e)[k])]
    PROVE  B = Retain(A, {v \in Range(A) : v.marker # id})
<1> DEFINE a == EmittedRules(d)
           b == EmittedRules(e)
           T == {Value(d, "rules", x) : x \in RuleID}
           K == {v \in Range(A) : v.marker # id}
<1>1. /\ Order!Assembles(d.rules) /\ Order!Assembles(e.rules)
      /\ Order!Full(e.rules) = Order!Full(d.rules)
  BY HiddenOrder DEF ValidMetadata
<1>2. /\ a \in Seq(RuleID) /\ IsInjective(a) /\ Active(d, "rules") = Range(a)
      /\ b \in Seq(RuleID) /\ IsInjective(b) /\ Active(e, "rules") = Range(b)
  BY <1>1, EmittedOrder
<1>3. Range(b) = Range(a) \ {id}
  BY <1>2, HiddenRule
<1>4. \A x, y \in Range(b) : Precedes(b, x, y) => Precedes(a, x, y)
  BY <1>1, <1>3, EmittedFollowsFull
<1>5. \A x : Value(e, "rules", x) = Value(d, "rules", x)
  BY DEF Value, Hides
<1>6. /\ A = [k \in DOMAIN a |-> Value(d, "rules", a[k])]
      /\ B = [k \in DOMAIN b |-> Value(d, "rules", b[k])]
  BY <1>5
<1> HIDE DEF a, b
<1>7. /\ A \in Seq(T) /\ IsInjective(A)
      /\ \A u \in Range(A) : u.marker \in Range(a) /\ u = Value(d, "rules", u.marker)
      /\ \A x \in Range(a) : Value(d, "rules", x) \in Range(A)
      /\ \A u, v \in Range(A) : Precedes(A, u, v) <=> Precedes(a, u.marker, v.marker)
  BY <1>2, <1>6, RuleValues
<1>8. /\ B \in Seq(T) /\ IsInjective(B)
      /\ \A u \in Range(B) : u.marker \in Range(b) /\ u = Value(d, "rules", u.marker)
      /\ \A x \in Range(b) : Value(d, "rules", x) \in Range(B)
      /\ \A u, v \in Range(B) : Precedes(B, u, v) <=> Precedes(b, u.marker, v.marker)
  BY <1>2, <1>6, RuleValues
<1>9. Range(B) = Range(A) \cap K
  <2>1. \A u \in Range(B) : u \in Range(A) \cap K
    BY <1>3, <1>7, <1>8
  <2>2. \A u \in Range(A) \cap K : u \in Range(B)
    BY <1>3, <1>7, <1>8
  <2> QED BY <2>1, <2>2
<1>10. \A u, v \in Range(B) : Precedes(B, u, v) => Precedes(A, u, v)
  BY <1>4, <1>7, <1>8, <1>9
<1> HIDE DEF T, K
<1>11. B = Retain(A, K)
  BY <1>7, <1>8, <1>9, <1>10, PartIsRetained
<1> QED BY <1>11 DEF K

\* The files of a draft with one rule less.
LEMMA HiddenFiles ==
    ASSUME NEW d, NEW e, NEW id \in RuleID, IsSnapshot(d), ValidMetadata(d), Hides(d, e, id)
    PROVE  Catalog(e) =
              [Catalog(d) EXCEPT !["rules"] = Retain(@, {v \in Range(@) : v.marker # id})]
<1> DEFINE rules(in) == [k \in DOMAIN EmittedRules(in) |->
                            Value(in, "rules", EmittedRules(in)[k])]
           old == Catalog(d)
           new == Catalog(e)
<1>1. \A g \in Sections \ {"rules"} : Active(e, g) = Active(d, g) /\ Present(e, g) = Present(d, g)
  BY HiddenRule
<1>2. "api" \in Sections \ {"rules"} /\ Optional \subseteq Sections \ {"rules"}
  BY ExtraAssumption DEF Sections, Required, Optional
<1>3. Keys(e) = Keys(d) /\ "rules" \in Keys(d) /\ Keys(d) \subseteq Sections
  BY <1>1, <1>2 DEF Keys, Hides, Required, Sections
<1>4. \A g, x : Value(e, g, x) = Value(d, g, x)
  BY DEF Value, Hides
<1>5. \A g \in Keys(d) \ {"rules"} :
         {Value(e, g, x) : x \in Active(e, g)} = {Value(d, g, x) : x \in Active(d, g)}
  BY <1>1, <1>3, <1>4
<1>6. rules(e) = Retain(rules(d), {v \in Range(rules(d)) : v.marker # id})
  BY HiddenValues
<1>7. /\ old = [g \in Keys(d) |-> IF g = "rules" THEN rules(d)
                                  ELSE {Value(d, g, x) : x \in Active(d, g)}]
      /\ new = [g \in Keys(d) |-> IF g = "rules" THEN rules(e)
                                  ELSE {Value(e, g, x) : x \in Active(e, g)}]
  BY <1>3 DEF Catalog
<1> HIDE DEF rules, old, new
<1>8. \A g \in Keys(d) : new[g] = IF g = "rules" THEN rules(e) ELSE old[g]
  BY <1>5, <1>7
<1>9. old["rules"] = rules(d)
  BY <1>3, <1>7
<1>10. new = [old EXCEPT !["rules"] = rules(e)]
  BY <1>7, <1>8
<1>11. rules(e) = Retain(old["rules"], {v \in Range(old["rules"]) : v.marker # id})
  BY <1>6, <1>9
<1> QED BY <1>10, <1>11 DEF old, new

\* Hiding a rule, either way, drops it from the catalog and changes nothing else,
\* for rules of any number in any order.
THEOREM HiddenRulesDropOut == Spec => HidingRuleOnlyDropsIt
<1>1. ASSUME TypeOK, NEW id \in RuleID, DisableRule(id) \/ ExcludeRule(id), Assembles(draft)
      PROVE  /\ Assembles(draft')
             /\ Catalog(draft') =
                   [Catalog(draft) EXCEPT !["rules"] = Retain(@, {v \in Range(@) : v.marker # id})]
  <2>1. Hides(draft, draft', id)
    <3>1. DOMAIN draft = {"supplied", "rules", "shared", "local", "excluded", "disabled",
                          "content", "marker"}
      BY <1>1, SnapshotFields DEF TypeOK
    <3>2. CASE DisableRule(id)
      <4>1. draft' = [draft EXCEPT !.disabled = draft.disabled \cup {id}]
        BY <3>2 DEF DisableRule
      <4>2. draft'.disabled = draft.disabled \cup {id}
        BY <3>1, <4>1
      <4> QED BY <3>1, <3>2, <4>1, <4>2, OrderLists DEF DisableRule, Hides
    <3>3. CASE ExcludeRule(id)
      <4> DEFINE rules == [draft.rules EXCEPT !.exclusions = Append(@, id)]
      <4>1. draft' = [draft EXCEPT !.rules = rules]
        BY <3>3 DEF ExcludeRule
      <4> HIDE DEF rules
      <4>2. draft'.rules = rules
        BY <3>1, <4>1
      <4>3. id \in Range(draft.rules.shared) \ Range(draft.rules.exclusions)
        BY <3>3, OrderLists DEF ExcludeRule
      <4> QED BY <3>1, <4>1, <4>2, <4>3 DEF Hides, rules
    <3> QED BY <1>1, <3>2, <3>3
  <2>2. ValidMetadata(draft) /\ IsSnapshot(draft)
    BY <1>1 DEF Assembles, TypeOK
  <2> QED BY <1>1, <2>1, <2>2, HiddenAssembles, HiddenFiles
<1>2. TypeOK /\ [Next]_draft =>
         [\A id \in RuleID :
            (DisableRule(id) \/ ExcludeRule(id)) /\ Assembles(draft) =>
               /\ Assembles(draft')
               /\ Catalog(draft') =
                     [Catalog(draft) EXCEPT
                         !["rules"] = Retain(@, {v \in Range(@) : v.marker # id})]]_draft
  BY <1>1
<1> QED BY <1>2, DraftTypeCorrect, PTL DEF Spec, HidingRuleOnlyDropsIt

-----------------------------------------------------------------------------
(* Outbounds that are removed *)

\* The finding a reference becomes: the rule is left out.
FindingOf(ref) ==
    [element |-> ref.element, kind |-> ref.kind, path |-> ref.path,
     providers |-> ref.providers, status |-> ref.status]

\* All that can serve a chosen balancer, as the findings tell it.
Serving(p, b) ==
    Matches(p, b) \cup (IF b.fallback # Absent THEN Providers(p, b.fallback) ELSE {})

\* A finding of a direct reference names the providers of its tag.
LEMMA DirectFindings ==
    ASSUME NEW in, NEW f
    PROVE  f \in Findings(in) /\ f.kind = "direct" <=>
              \E r \in DirectRules(Reading(in)) : f = FindingOf(DirectReference(Reading(in), r))
<1> DEFINE p == Reading(in)
<1>1. \A r : DirectReference(p, r).kind = "direct" /\ BalancerReference(p, r).kind = "balancer"
  BY DEF DirectReference, Located, BalancerReference, Reference
<1>2. \A r, x : \A ref \in NestedReferences(p, r, x[1], x[2]) : ref.kind \in {"selector", "fallback"}
  BY NestedRule
<1>3. f \in Findings(in) <=> \E ref \in References(p) : f = FindingOf(ref)
  BY DEF Findings, FindingOf
<1>4. \A ref : FindingOf(ref).kind = ref.kind
  BY DEF FindingOf
<1>5. ASSUME f \in Findings(in), f.kind = "direct"
      PROVE  \E r \in DirectRules(p) : f = FindingOf(DirectReference(p, r))
  <2>1. PICK ref \in References(p) : f = FindingOf(ref) /\ ref.kind = "direct"
    BY <1>3, <1>4, <1>5
  <2> HIDE DEF p
  <2> QED BY <1>1, <1>2, <2>1, ReferencesOf
<1>6. ASSUME NEW r \in DirectRules(p), f = FindingOf(DirectReference(p, r))
      PROVE  f \in Findings(in) /\ f.kind = "direct"
  BY <1>1, <1>3, <1>4, <1>6, ReferencesOf
<1> QED BY <1>5, <1>6

\* What a finding says of a prefix of a chosen balancer's selector, or of its
\* fallback.
FindingAt(p, r, x, f) ==
    \/ \E prefix \in x[2].selector :
          f = FindingOf(SelectorReference(p, r, x[1], x[2], prefix))
    \/ /\ x[2].fallback # Absent
       /\ f = FindingOf(Located(r, x[1], "fallback", <<x[2].tag>>, Providers(p, x[2].fallback)))

\* It is located at the balancer and names what serves it there.
LEMMA FindingFields ==
    ASSUME NEW p, NEW r, NEW x, NEW f, FindingAt(p, r, x, f)
    PROVE  /\ f.element = x[1] /\ f.path[1] = x[2].tag
           /\ f.providers \subseteq Serving(p, x[2])
           /\ \/ f.kind = "selector"
              \/ f.kind = "fallback" /\ x[2].fallback # Absent
                 /\ f.providers = Providers(p, x[2].fallback)
<1>1. CASE \E prefix \in x[2].selector :
              f = FindingOf(SelectorReference(p, r, x[1], x[2], prefix))
  <2>1. PICK prefix \in x[2].selector : f = FindingOf(SelectorReference(p, r, x[1], x[2], prefix))
    BY <1>1
  <2>2. /\ f.element = x[1] /\ f.path = <<x[2].tag, prefix>> /\ f.kind = "selector"
        /\ f.providers = Selected(p, prefix)
    BY <2>1 DEF FindingOf, SelectorReference, Reference
  <2> QED BY <2>2 DEF Serving, Matches
<1>2. CASE /\ x[2].fallback # Absent
           /\ f = FindingOf(Located(r, x[1], "fallback", <<x[2].tag>>, Providers(p, x[2].fallback)))
  <2>1. /\ f.element = x[1] /\ f.path = <<x[2].tag>> /\ f.kind = "fallback"
        /\ f.providers = Providers(p, x[2].fallback)
    BY <1>2 DEF FindingOf, Located, Reference
  <2> QED BY <1>2, <2>1 DEF Serving
<1> QED BY <1>1, <1>2 DEF FindingAt

\* The findings of these kinds are those of the chosen balancers.
LEMMA BalancerFindings ==
    ASSUME NEW in, NEW f
    PROVE  f \in Findings(in) /\ f.kind \in {"selector", "fallback"} <=>
              \E r \in BalancedRules(Reading(in)) : \E x \in Chosen(Reading(in), r) :
                 FindingAt(Reading(in), r, x, f)
<1> DEFINE p == Reading(in)
<1>1. \A r : DirectReference(p, r).kind = "direct" /\ BalancerReference(p, r).kind = "balancer"
  BY DEF DirectReference, Located, BalancerReference, Reference
<1>2. f \in Findings(in) <=> \E ref \in References(p) : f = FindingOf(ref)
  BY DEF Findings, FindingOf
<1>3. \A ref : FindingOf(ref).kind = ref.kind
  BY DEF FindingOf
<1> HIDE DEF p
<1>4. ASSUME NEW r, NEW x
      PROVE  FindingAt(p, r, x, f) <=>
                \E ref \in NestedReferences(p, r, x[1], x[2]) : f = FindingOf(ref)
  <2>1. ASSUME NEW ref
        PROVE  ref \in NestedReferences(p, r, x[1], x[2]) <=>
                  \/ \E prefix \in x[2].selector :
                        ref = SelectorReference(p, r, x[1], x[2], prefix)
                  \/ /\ x[2].fallback # Absent
                     /\ ref = Located(r, x[1], "fallback", <<x[2].tag>>,
                                      Providers(p, x[2].fallback))
    BY NestedFields
  <2> QED BY <2>1 DEF FindingAt
<1>5. ASSUME f \in Findings(in), f.kind \in {"selector", "fallback"}
      PROVE  \E r \in BalancedRules(p) : \E x \in Chosen(p, r) : FindingAt(p, r, x, f)
  <2>1. PICK ref \in References(p) : f = FindingOf(ref) /\ ref.kind \in {"selector", "fallback"}
    BY <1>2, <1>3, <1>5
  <2>2. \E r \in BalancedRules(p) : \E x \in Chosen(p, r) :
           ref \in NestedReferences(p, r, x[1], x[2])
    BY <1>1, <2>1, ReferencesOf
  <2> QED BY <1>4, <2>1, <2>2
<1>6. ASSUME NEW r \in BalancedRules(p), NEW x \in Chosen(p, r), FindingAt(p, r, x, f)
      PROVE  f \in Findings(in) /\ f.kind \in {"selector", "fallback"}
  <2>1. PICK ref \in NestedReferences(p, r, x[1], x[2]) : f = FindingOf(ref)
    BY <1>4, <1>6
  <2>2. ref \in References(p)
    BY ReferencesOf
  <2> QED BY <1>2, <1>6, <2>1, <2>2, FindingFields
<1> QED BY <1>5, <1>6 DEF p

\* The findings at a chosen balancer together name all that can serve it, and
\* nothing of another balancer.
LEMMA FindingsOfBalancer ==
    ASSUME NEW in, Analyzes(Reading(in)), NEW r \in BalancedRules(Reading(in)),
           NEW x \in Chosen(Reading(in), r)
    PROVE  UNION {g.providers : g \in {h \in Findings(in) :
                     /\ h.kind \in {"selector", "fallback"}
                     /\ h.element = x[1]
                     /\ h.path[1] = x[2].tag}} = Serving(Reading(in), x[2])
<1> DEFINE p == Reading(in)
           H == {h \in Findings(in) : /\ h.kind \in {"selector", "fallback"}
                                      /\ h.element = x[1]
                                      /\ h.path[1] = x[2].tag}
<1>1. Requested(p) # {}
  BY DEF Requested
<1>2. \A q : \A y \in Chosen(p, q) : y[2].tag = x[2].tag => y = x
  BY <1>1 DEF Analyzes, IndexesBalancers, Chosen
<1>3. \A f : f \in Findings(in) /\ f.kind \in {"selector", "fallback"} <=>
                \E q \in BalancedRules(p) : \E y \in Chosen(p, q) : FindingAt(p, q, y, f)
  BY BalancerFindings
<1> HIDE DEF p
<1>4. ASSUME NEW g \in H PROVE g.providers \subseteq Serving(p, x[2])
  <2>1. /\ g \in Findings(in) /\ g.kind \in {"selector", "fallback"}
        /\ g.element = x[1] /\ g.path[1] = x[2].tag
    OBVIOUS
  <2>2. PICK q \in BalancedRules(p) : \E y \in Chosen(p, q) : FindingAt(p, q, y, g)
    BY <1>3, <2>1
  <2>3. PICK y \in Chosen(p, q) : FindingAt(p, q, y, g)
    BY <2>2
  <2>4. g.path[1] = y[2].tag /\ g.providers \subseteq Serving(p, y[2])
    BY <2>3, FindingFields
  <2>5. y = x
    BY <1>2, <2>1, <2>4
  <2> QED BY <2>4, <2>5
<1>5. ASSUME NEW f, FindingAt(p, r, x, f) PROVE f \in H
  <2>1. f \in Findings(in) /\ f.kind \in {"selector", "fallback"}
    BY <1>3, <1>5 DEF p
  <2>2. f.element = x[1] /\ f.path[1] = x[2].tag
    BY <1>5, FindingFields
  <2> QED BY <2>1, <2>2
<1> HIDE DEF H
<1>6. ASSUME NEW prefix \in x[2].selector
      PROVE  \E g \in H : g.providers = Selected(p, prefix)
  <2>1. PICK f : f = FindingOf(SelectorReference(p, r, x[1], x[2], prefix))
    OBVIOUS
  <2>2. f \in H
    BY <1>5, <2>1 DEF FindingAt
  <2>3. f.providers = Selected(p, prefix)
    BY <2>1 DEF FindingOf, SelectorReference, Reference
  <2> QED BY <2>2, <2>3
<1>7. ASSUME x[2].fallback # Absent
      PROVE  \E g \in H : g.providers = Providers(p, x[2].fallback)
  <2>1. PICK f : f = FindingOf(Located(r, x[1], "fallback", <<x[2].tag>>,
                                      Providers(p, x[2].fallback)))
    OBVIOUS
  <2>2. f \in H
    BY <1>5, <1>7, <2>1 DEF FindingAt
  <2>3. f.providers = Providers(p, x[2].fallback)
    BY <2>1 DEF FindingOf, Located, Reference
  <2> QED BY <2>2, <2>3
<1>8. UNION {g.providers : g \in H} = Serving(p, x[2])
  <2>1. \A a \in UNION {g.providers : g \in H} : a \in Serving(p, x[2])
    BY <1>4
  <2>2. \A a \in Matches(p, x[2]) : a \in UNION {g.providers : g \in H}
    BY <1>6 DEF Matches
  <2>3. x[2].fallback # Absent =>
           \A a \in Providers(p, x[2].fallback) : a \in UNION {g.providers : g \in H}
    BY <1>7
  <2>4. \A a \in Serving(p, x[2]) : a \in UNION {g.providers : g \in H}
    BY <2>2, <2>3 DEF Serving
  <2> QED BY <2>1, <2>4
<1> QED BY <1>8 DEF H, p

\* An outbound less takes nothing but its own tag away.
LEMMA FewerOutbounds ==
    ASSUME NEW p, NEW q, NEW o, Analyzes(p),
           q.rules = p.rules, q.outbounds = p.outbounds \ {o}, q.routing = p.routing,
           q.content = p.content
    PROVE  /\ Analyzes(q)
           /\ DirectRules(q) = DirectRules(p) /\ BalancedRules(q) = BalancedRules(p)
           /\ \A r : Chosen(q, r) = Chosen(p, r)
           /\ \A tag : Providers(q, tag) = Providers(p, tag) \ {o}
           /\ \A b : Matches(q, b) = Matches(p, b) \ {o}
<1>1. DirectRules(q) = DirectRules(p) /\ BalancedRules(q) = BalancedRules(p)
  BY DEF DirectRules, BalancedRules
<1>2. Requested(q) = Requested(p)
  BY <1>1 DEF Requested
<1>3. Reachable(q) = Reachable(p)
  BY <1>2 DEF Reachable
<1>4. \A r : Chosen(q, r) = Chosen(p, r)
  BY <1>3 DEF Chosen
<1>5. \A tag : Providers(q, tag) = Providers(p, tag) \ {o}
  BY DEF Providers
<1>6. \A prefix : Selected(q, prefix) = Selected(p, prefix) \ {o}
  BY DEF Selected
<1>7. \A b : Matches(q, b) = Matches(p, b) \ {o}
  BY <1>6 DEF Matches
<1>8. IndexesOutbounds(q)
  BY <1>5 DEF Analyzes, IndexesOutbounds
<1>9. IndexesBalancers(q)
  BY <1>2, <1>3 DEF Analyzes, IndexesBalancers
<1>10. Analyzes(q)
  BY <1>3, <1>8, <1>9 DEF Analyzes
<1> QED BY <1>1, <1>4, <1>5, <1>7, <1>10

\* Whether a chosen balancer survives.
LEMMA BalancerSurvives ==
    ASSUME NEW p, NEW q, NEW o, NEW b, BalancerReady(p, b),
           \A tag : Providers(q, tag) = Providers(p, tag) \ {o},
           Matches(q, b) = Matches(p, b) \ {o}
    PROVE  BalancerReady(q, b) <=>
              /\ b.fallback # Absent => Providers(p, b.fallback) # {o}
              /\ Serving(p, b) # {o}
<1>1. CASE b.fallback = Absent
  BY <1>1 DEF BalancerReady, FallbackReady, Serving
<1>2. CASE b.fallback # Absent
  <2>1. Providers(p, b.fallback) # {}
    BY <1>2 DEF BalancerReady, FallbackReady
  <2>2. BalancerReady(q, b) <=> Providers(p, b.fallback) \ {o} # {}
    BY <1>2 DEF BalancerReady, FallbackReady
  <2>3. Serving(p, b) = Matches(p, b) \cup Providers(p, b.fallback)
    BY <1>2 DEF Serving
  <2> QED BY <1>2, <2>1, <2>2, <2>3
<1> QED BY <1>1, <1>2

\* The findings of a ready analysis say whether it stays ready.
LEMMA FindingsForetell ==
    ASSUME NEW in, Analyzes(Reading(in)), Ready(Reading(in)), NEW q, NEW o,
           q.rules = Reading(in).rules, q.outbounds = Reading(in).outbounds \ {o},
           q.routing = Reading(in).routing, q.content = Reading(in).content
    PROVE  Ready(q) <=> ~OnlyServer(Findings(in), o)
<1> DEFINE p == Reading(in)
           F == Findings(in)
           At(x) == {h \in F : /\ h.kind \in {"selector", "fallback"}
                               /\ h.element = x[1]
                               /\ h.path[1] = x[2].tag}
<1>1. /\ DirectRules(q) = DirectRules(p) /\ BalancedRules(q) = BalancedRules(p)
      /\ \A r : Chosen(q, r) = Chosen(p, r)
      /\ \A tag : Providers(q, tag) = Providers(p, tag) \ {o}
      /\ \A b : Matches(q, b) = Matches(p, b) \ {o}
  BY FewerOutbounds
<1>2. \A f : f \in F /\ f.kind = "direct" <=>
                \E r \in DirectRules(p) : f = FindingOf(DirectReference(p, r))
  BY DirectFindings
<1>3. \A f : f \in F /\ f.kind \in {"selector", "fallback"} <=>
                \E r \in BalancedRules(p) : \E x \in Chosen(p, r) : FindingAt(p, r, x, f)
  BY BalancerFindings
<1>4. \A r \in BalancedRules(p) : \A x \in Chosen(p, r) :
         UNION {g.providers : g \in At(x)} = Serving(p, x[2])
  BY FindingsOfBalancer
<1>5. \A r \in DirectRules(p) : Providers(p, p.content[r].direct) # {}
  BY DEF Ready
<1>6. \A r \in BalancedRules(p) : \A x \in Chosen(p, r) : BalancerReady(p, x[2])
  BY DEF Ready
<1>7. \A r \in BalancedRules(p) : Chosen(p, r) # {}
  BY DEF Ready
<1>8. \A r \in BalancedRules(p) : \A x \in Chosen(p, r) :
         /\ x[2].selector # {}
         /\ BalancerReady(q, x[2]) <=>
               /\ x[2].fallback # Absent => Providers(p, x[2].fallback) # {o}
               /\ Serving(p, x[2]) # {o}
  <2> TAKE r \in BalancedRules(p)
  <2> TAKE x \in Chosen(p, r)
  <2>1. x[2].selector # {}
    BY ChosenIsOne
  <2>2. BalancerReady(p, x[2])
    BY <1>6
  <2> HIDE DEF p
  <2>4. PICK b : b = x[2]
    OBVIOUS
  <2>5. \A tag : Providers(q, tag) = Providers(p, tag) \ {o}
    BY <1>1
  <2>6. BalancerReady(p, b) /\ Matches(q, b) = Matches(p, b) \ {o}
    BY <1>1, <2>2, <2>4
  <2>7. BalancerReady(q, b) <=>
           /\ b.fallback # Absent => Providers(p, b.fallback) # {o}
           /\ Serving(p, b) # {o}
    BY <2>5, <2>6, BalancerSurvives
  <2> QED BY <2>1, <2>4, <2>7
<1>9. \A r \in DirectRules(p) :
         FindingOf(DirectReference(p, r)).providers = Providers(p, p.content[r].direct)
  BY DEF FindingOf, DirectReference, Located, Reference
<1>10. q.content = p.content
  OBVIOUS
<1> HIDE DEF p, F
<1>11. ASSUME Ready(q), OnlyServer(F, o) PROVE FALSE
  <2>1. PICK f \in F : \/ f.kind \in {"direct", "fallback"} /\ f.providers = {o}
                       \/ /\ f.kind = "selector"
                          /\ {o} = UNION {g.providers : g \in {h \in F :
                                             /\ h.kind \in {"selector", "fallback"}
                                             /\ h.element = f.element
                                             /\ h.path[1] = f.path[1]}}
    BY <1>11 DEF OnlyServer
  <2>2. CASE f.kind = "direct"
    <3>1. PICK r \in DirectRules(p) : f = FindingOf(DirectReference(p, r))
      BY <1>2, <2>2
    <3>2. Providers(p, p.content[r].direct) = {o}
      BY <1>9, <2>1, <2>2, <3>1
    <3>3. Providers(q, q.content[r].direct) # {}
      BY <1>1, <1>11 DEF Ready
    <3> QED BY <1>1, <1>10, <3>2, <3>3
  <2>3. CASE f.kind \in {"selector", "fallback"}
    <3>1. PICK r \in BalancedRules(p) : \E x \in Chosen(p, r) : FindingAt(p, r, x, f)
      BY <1>3, <2>3
    <3>2. PICK x \in Chosen(p, r) : FindingAt(p, r, x, f)
      BY <3>1
    <3>3. BalancerReady(q, x[2])
      BY <1>1, <1>11, <3>2 DEF Ready
    <3>4. /\ f.element = x[1] /\ f.path[1] = x[2].tag
          /\ f.kind = "fallback" => /\ x[2].fallback # Absent
                                    /\ f.providers = Providers(p, x[2].fallback)
      BY <3>2, FindingFields
    <3>5. CASE f.kind = "fallback"
      BY <1>8, <2>1, <3>3, <3>4, <3>5
    <3>6. CASE f.kind = "selector"
      <4>1. {o} = UNION {g.providers : g \in At(x)}
        BY <2>1, <3>4, <3>6
      <4> HIDE DEF At
      <4> QED BY <1>4, <1>8, <3>3, <4>1
    <3> QED BY <2>3, <3>5, <3>6
  <2> QED BY <2>1, <2>2, <2>3
<1>12. ASSUME ~Ready(q) PROVE OnlyServer(F, o)
  <2>1. CASE \E r \in DirectRules(q) : Providers(q, q.content[r].direct) = {}
    <3>1. PICK r \in DirectRules(p) : Providers(q, q.content[r].direct) = {}
      BY <1>1, <2>1
    <3>2. Providers(p, p.content[r].direct) = {o}
      BY <1>1, <1>5, <1>10, <3>1
    <3>3. PICK f : f = FindingOf(DirectReference(p, r))
      OBVIOUS
    <3>4. f \in F /\ f.kind = "direct" /\ f.providers = {o}
      BY <1>2, <1>9, <3>2, <3>3
    <3> QED BY <3>4 DEF OnlyServer
  <2>2. CASE \E r \in BalancedRules(q) : \E x \in Chosen(q, r) : ~BalancerReady(q, x[2])
    <3>1. PICK r \in BalancedRules(p) : \E x \in Chosen(p, r) : ~BalancerReady(q, x[2])
      BY <1>1, <2>2
    <3>2. PICK x \in Chosen(p, r) : ~BalancerReady(q, x[2])
      BY <3>1
    <3>3. CASE x[2].fallback # Absent /\ Providers(p, x[2].fallback) = {o}
      <4>1. PICK f : f = FindingOf(Located(r, x[1], "fallback", <<x[2].tag>>,
                                          Providers(p, x[2].fallback)))
        OBVIOUS
      <4>2. FindingAt(p, r, x, f)
        BY <3>3, <4>1 DEF FindingAt
      <4>3. f.kind = "fallback" /\ f.providers = {o}
        BY <3>3, <4>1 DEF FindingOf, Located, Reference
      <4>4. f \in F
        BY <1>3, <4>2
      <4> QED BY <4>3, <4>4 DEF OnlyServer
    <3>4. CASE Serving(p, x[2]) = {o}
      <4>1. PICK prefix \in x[2].selector : TRUE
        BY <1>8
      <4>2. PICK f : f = FindingOf(SelectorReference(p, r, x[1], x[2], prefix))
        OBVIOUS
      <4>3. FindingAt(p, r, x, f)
        BY <4>1, <4>2 DEF FindingAt
      <4>4. f \in F /\ f.element = x[1] /\ f.path[1] = x[2].tag
        BY <1>3, <4>3, FindingFields
      <4>5. f.kind = "selector"
        BY <4>2 DEF FindingOf, SelectorReference, Reference
      <4>6. {o} = UNION {g.providers : g \in At(x)}
        <5> HIDE DEF At
        <5> QED BY <1>4, <3>4
      <4>7. At(x) = {h \in F : /\ h.kind \in {"selector", "fallback"}
                               /\ h.element = f.element
                               /\ h.path[1] = f.path[1]}
        BY <4>4
      <4> HIDE DEF At
      <4> QED BY <4>4, <4>5, <4>6, <4>7 DEF OnlyServer
    <3> QED BY <1>8, <3>2, <3>3, <3>4
  <2> QED BY <1>1, <1>7, <1>12, <2>1, <2>2 DEF Ready
<1> QED BY <1>11, <1>12 DEF F

\* Without an outbound everything else of the draft is as it was.
LEMMA RemovedOutbound ==
    ASSUME TypeOK, ValidMetadata(draft), NEW o \in OutboundID,
           Exclude(o) \/ RemoveLocal(o), o \in Active(draft, "outbounds")
    PROVE  /\ ValidMetadata(draft')
           /\ \A g \in Sections \ {"outbounds"} : Active(draft', g) = Active(draft, g)
           /\ Active(draft', "outbounds") = Active(draft, "outbounds") \ {o}
           /\ InboundView(draft') = InboundView(draft)
           /\ draft'.content = draft.content /\ draft'.marker = draft.marker
<1> DEFINE d == draft
           e == draft'
<1>1. DOMAIN d = {"supplied", "rules", "shared", "local", "excluded", "disabled",
                  "content", "marker"}
  BY SnapshotFields DEF TypeOK
<1>2. /\ e.supplied = d.supplied /\ e.rules = d.rules /\ e.disabled = d.disabled
      /\ e.content = d.content /\ e.marker = d.marker /\ e.shared = d.shared
      /\ \/ o \in d.shared /\ e.excluded = d.excluded \cup {o} /\ e.local = d.local
         \/ o \in d.local /\ e.local = d.local \ {o} /\ e.excluded = d.excluded
  BY <1>1 DEF Exclude, RemoveLocal
<1> HIDE DEF d, e
<1>3. ValidMetadata(d) /\ o \in Active(d, "outbounds")
  BY DEF d
<1>4. /\ "outbounds" \in Sections \ {"rules", "inbounds"} /\ "outbounds" \in Collections
      /\ "outbounds" \in d.supplied /\ o \in Elements("outbounds")
      /\ "inbounds" \in Sections \ {"outbounds"} /\ "inbounds" \in d.supplied
  BY <1>3, OwnElements DEF Sections, Required, Collections, ValidMetadata
<1>5. o \notin d.shared \cap d.local
  BY <1>3, <1>4 DEF ValidMetadata, Passed
<1>6. \A g \in Sections \ {"outbounds"} : o \notin Elements(g)
  BY <1>4, OneSectionAssumption
<1>7. o \notin InboundID
  BY <1>4, <1>6, OwnElements
<1>8. Active(e, "outbounds") = Active(d, "outbounds") \ {o}
  <2>1. /\ Active(e, "outbounds") =
              ((e.shared \cup e.local) \cap Elements("outbounds")) \ e.excluded
        /\ Active(d, "outbounds") =
              ((d.shared \cup d.local) \cap Elements("outbounds")) \ d.excluded
    BY <1>2, <1>4, ActiveRecords
  <2> QED BY <1>2, <1>5, <2>1
<1>9. ASSUME NEW g \in Sections \ {"outbounds"} PROVE Active(e, g) = Active(d, g)
  <2>1. CASE g = "rules"
    BY <1>2, <2>1, SameRules
  <2>2. CASE g = "inbounds"
    <3>1. /\ Active(e, g) = ((e.shared \cup e.local) \cap InboundID) \ (e.excluded \cup e.disabled)
          /\ Active(d, g) = ((d.shared \cup d.local) \cap InboundID) \ (d.excluded \cup d.disabled)
      BY <1>2, <1>4, <2>2, ActiveRecords
    <3> QED BY <1>2, <1>7, <3>1
  <2>3. CASE g \notin {"rules", "inbounds"}
    <3>1. ((e.shared \cup e.local) \cap Elements(g)) \ e.excluded =
             ((d.shared \cup d.local) \cap Elements(g)) \ d.excluded
      BY <1>2, <1>6
    <3> QED BY <1>2, <2>3, <3>1, ActiveRecords
  <2> QED BY <2>1, <2>2, <2>3
<1>10. InboundView(e) = InboundView(d)
  BY <1>2, <1>7, SameView
<1>11. ValidMetadata(e)
  <2>1. Passed(e, e.shared \cap e.local) = {}
    BY <1>2, <1>3 DEF ValidMetadata, Passed
  <2>2. Passed(e, e.excluded) \subseteq e.shared
    BY <1>2, <1>3 DEF ValidMetadata, Passed
  <2>3. Present(e, "inbounds") = Present(d, "inbounds")
    BY <1>2, <1>7, OwnElements DEF Present
  <2>4. \A g \in Sections \ Collections : \A x, y \in Active(e, g) : x = y
    BY <1>3, <1>4, <1>9 DEF ValidMetadata
  <2> QED BY <1>2, <1>3, <2>1, <2>2, <2>3, <2>4 DEF ValidMetadata
<1> QED BY <1>2, <1>8, <1>9, <1>10, <1>11 DEF d, e

\* The findings of a catalog tell which outbounds it cannot lose, for any number
\* of rules, balancers and outbounds and in any order of their tags.
THEOREM RemovalIsForetold == Spec => FindingsForetellRemoval
<1>1. ASSUME TypeOK, NEW o \in OutboundID, Exclude(o) \/ RemoveLocal(o),
             o \in Active(draft, "outbounds"), Assembles(draft)
      PROVE  Assembles(draft') <=> ~OnlyServer(Findings(draft), o)
  <2> DEFINE d == draft
             e == draft'
  <2>1. ValidMetadata(d) /\ Prepares(d) /\ AnalyzesCatalog(d) /\ Projects(d)
    BY <1>1 DEF Assembles
  <2>2. /\ ValidMetadata(e)
        /\ \A g \in Sections \ {"outbounds"} : Active(e, g) = Active(d, g)
        /\ Active(e, "outbounds") = Active(d, "outbounds") \ {o}
        /\ InboundView(e) = InboundView(d)
        /\ e.content = d.content /\ e.marker = d.marker
    BY <1>1, <2>1, RemovedOutbound
  <2>3. OnlyServer(Findings(draft), o) <=> OnlyServer(Findings(d), o)
    OBVIOUS
  <2> HIDE DEF d, e
  <2>4. {"rules", "routing"} \subseteq Sections \ {"outbounds"}
    BY DEF Sections, Required
  <2>5. \A g \in Sections : Active(e, g) \subseteq Active(d, g)
    BY <2>2
  <2>6. Prepares(e) /\ Projects(e)
    BY <2>1, <2>2, <2>4, <2>5 DEF Prepares, Projects
  <2>7. Analyzes(Reading(d)) /\ Ready(Reading(d))
    BY <2>1, BlockingIffNotReady DEF AnalyzesCatalog
  <2>8. /\ Reading(e).rules = Reading(d).rules
        /\ Reading(e).outbounds = Reading(d).outbounds \ {o}
        /\ Reading(e).routing = Reading(d).routing
        /\ Reading(e).content = Reading(d).content
    BY <2>2, <2>4, ReadingFields
  <2>9. Analyzes(Reading(e))
    BY <2>7, <2>8, FewerOutbounds
  <2>10. Ready(Reading(e)) <=> ~OnlyServer(Findings(d), o)
    BY <2>7, <2>8, FindingsForetell
  <2>11. AnalyzesCatalog(e) <=> Ready(Reading(e))
    BY <2>1, <2>2, <2>9, BlockingIffNotReady DEF AnalyzesCatalog, BlockingInbound
  <2>12. Assembles(e) <=> AnalyzesCatalog(e)
    BY <2>2, <2>6 DEF Assembles
  <2> QED BY <2>3, <2>10, <2>11, <2>12 DEF e
<1>2. TypeOK /\ [Next]_draft =>
         [\A o \in OutboundID :
            (Exclude(o) \/ RemoveLocal(o)) /\ o \in Active(draft, "outbounds") /\ Assembles(draft) =>
               (Assembles(draft') <=> ~OnlyServer(Findings(draft), o))]_draft
  BY <1>1
<1> QED BY <1>2, DraftTypeCorrect, PTL DEF Spec, FindingsForetellRemoval

-----------------------------------------------------------------------------
(* Runs that write the catalog (writeCatalog) *)

\* Where a run is while it creates files.
Writing == {"open", "write", "close"}

\* A run creates the files in the order of the catalog and none twice; it has
\* created all of them when it succeeds and removed or given up all of them
\* when it fails.
FollowsOrder ==
    \A w \in Writer :
        /\ pc[w] \in Writing \cup {"ok"} =>
              /\ Len(created[w]) <= Len(Files)
              /\ \A k \in 1 .. Len(created[w]) : created[w][k] = Files[k]
        /\ pc[w] \in {"write", "close"} => created[w] # <<>>
        /\ pc[w] \in {"list", "failed"} => created[w] = <<>>
        /\ pc[w] = "ok" => Len(created[w]) = Len(Files)
        /\ \A j, k \in 1 .. Len(created[w]) : created[w][j] = created[w][k] => j = k

\* The file a run created is its own until it removes it.
OwnsCreated ==
    \A w \in Writer : \A k \in 1 .. Len(created[w]) : owner[created[w][k]] = w

\* Behind the file a run is at everything is written in full.
CompletesInOrder ==
    \A w \in Writer :
        /\ pc[w] \in {"open", "ok"} => \A k \in 1 .. Len(created[w]) : created[w][k] \in complete
        /\ pc[w] \in {"write", "close"} =>
              \A k \in 1 .. Len(created[w]) - 1 : created[w][k] \in complete

\* A run knows its files, except the ones it could not remove.
AccountsFor ==
    \A w \in Writer, name \in Name :
        owner[name] = w =>
            name \in leftover \/ \E k \in 1 .. Len(created[w]) : created[w][k] = name

\* A run that came past the reading of the directory started in an empty one.
StartsEmpty ==
    \A w \in Writer :
        pc[w] \in Writing \cup {"remove", "ok"} => \A name \in Name : owner[name] # Before

\* The inductive invariant of the writers.
WriterInv ==
    /\ WriterTypeOK
    /\ FollowsOrder
    /\ OwnsCreated
    /\ CompletesInOrder
    /\ AccountsFor
    /\ StartsEmpty

\* The files of a catalog have names, each its own.
LEMMA FilesAreNames ==
    /\ Len(Files) \in Nat
    /\ \A k \in 1 .. Len(Files) : Files[k] \in Range(Files)
    /\ Range(Files) \subseteq Name
    /\ \A j, k \in 1 .. Len(Files) : Files[j] = Files[k] => j = k
    /\ DOMAIN Files = 1 .. Len(Files)
BY FilesAssumption, LenProperties, ElementOfSeq DEF Name, IsInjective

\* The files a run created are a list of names of the catalog.
LEMMA CreatedIsList ==
    ASSUME WriterTypeOK, NEW w \in Writer
    PROVE  /\ created[w] \in Seq(Range(Files))
           /\ Len(created[w]) \in Nat
           /\ \A k \in 1 .. Len(created[w]) : created[w][k] \in Range(Files) /\ created[w][k] \in Name
BY LenProperties, ElementOfSeq DEF WriterTypeOK, Name

\* Before any run has started nothing is created and nothing is owed.
LEMMA InitWriterInv == WriterInit => WriterInv
<1> SUFFICES ASSUME WriterInit PROVE WriterInv
  OBVIOUS
<1>1. \A w \in Writer : created[w] = <<>> /\ Len(created[w]) = 0 /\ pc[w] = "list"
  BY DEF WriterInit
<1>2. \A w \in Writer, name \in Name : owner[name] # w
  BY OwnersAssumption DEF WriterInit
<1>3. WriterTypeOK
  <2>1. <<>> \in Seq(Range(Files))
    OBVIOUS
  <2> QED BY <2>1 DEF WriterInit, WriterTypeOK
<1> QED
  BY <1>1, <1>2, <1>3 DEF WriterInv, FollowsOrder, OwnsCreated, CompletesInOrder, AccountsFor,
                          StartsEmpty, Writing

\* A run that goes on to label without touching a file: what has to hold there.
LEMMA GotoKeepsInv ==
    ASSUME WriterInv, NEW w \in Writer, NEW label, Goto(w, label), UNCHANGED calm,
           UNCHANGED <<owner, complete, created>>, leftover' = leftover,
           label \in Writing \cup {"remove"} \cup Final,
           label \in Writing \cup {"ok", "remove"} =>
              pc[w] \in Writing \/ \A name \in Name : owner[name] # Before,
           label \in Writing \cup {"ok"} => pc[w] \in {"list"} \cup Writing,
           label \in {"write", "close"} => pc[w] \in {"write", "close"},
           label = "failed" => created[w] = <<>>,
           label = "ok" => Len(created[w]) = Len(Files),
           label \in {"open", "ok"} => \A k \in 1 .. Len(created[w]) : created[w][k] \in complete
    PROVE  WriterInv'
<1> USE DEF WriterInv
<1>1. pc' = [pc EXCEPT ![w] = label] /\ pc'[w] = label /\ \A v \in Writer \ {w} : pc'[v] = pc[v]
  BY DEF Goto, WriterTypeOK
<1>2. WriterTypeOK'
  BY <1>1 DEF WriterTypeOK, Writing, Final
<1>3. FollowsOrder'
  <2>0. pc[w] = "list" => Len(created[w]) = 0
    BY DEF FollowsOrder
  <2>01. Len(Files) \in Nat BY FilesAreNames
  <2> SUFFICES ASSUME NEW v \in Writer
        PROVE
        /\ pc'[v] \in Writing \cup {"ok"} =>
              /\ Len(created[v]) <= Len(Files)
              /\ \A k \in 1 .. Len(created[v]) : created[v][k] = Files[k]
        /\ pc'[v] \in {"write", "close"} => created[v] # <<>>
        /\ pc'[v] \in {"list", "failed"} => created[v] = <<>>
        /\ pc'[v] = "ok" => Len(created[v]) = Len(Files)
        /\ \A j, k \in 1 .. Len(created[v]) : created[v][j] = created[v][k] => j = k
    BY DEF FollowsOrder
  <2>1. CASE v = w
    BY <1>1, <2>0, <2>01, <2>1 DEF FollowsOrder, Writing, Final
  <2>2. CASE v # w
    BY <1>1, <2>2 DEF FollowsOrder
  <2> QED BY <2>1, <2>2
<1>4. OwnsCreated' /\ AccountsFor'
  BY DEF OwnsCreated, AccountsFor
<1>5. CompletesInOrder'
  <2> SUFFICES ASSUME NEW v \in Writer
        PROVE
        /\ pc'[v] \in {"open", "ok"} => \A k \in 1 .. Len(created[v]) : created[v][k] \in complete
        /\ pc'[v] \in {"write", "close"} =>
              \A k \in 1 .. Len(created[v]) - 1 : created[v][k] \in complete
    BY DEF CompletesInOrder
  <2>1. CASE v = w
    BY <1>1, <2>1 DEF CompletesInOrder
  <2>2. CASE v # w
    BY <1>1, <2>2 DEF CompletesInOrder
  <2> QED BY <2>1, <2>2
<1>6. StartsEmpty'
  BY <1>1 DEF StartsEmpty
<1> QED BY <1>2, <1>3, <1>4, <1>5, <1>6

\* Creating the next file, or finding that it exists already (os.OpenFile with
\* O_EXCL).
LEMMA OpenKeepsInv ==
    ASSUME WriterInv, NEW w \in Writer, Open(w), UNCHANGED calm
    PROVE  WriterInv'
<1> USE DEF WriterInv
<1>1. PICK name \in NextFile(w) :
          \/ /\ owner[name] = Nobody
             /\ owner' = [owner EXCEPT ![name] = w]
             /\ created' = [created EXCEPT ![w] = Append(@, name)]
             /\ Goto(w, "write")
             /\ UNCHANGED <<complete, leftover>>
          \/ /\ owner[name] # Nobody
             /\ Goto(w, "remove")
             /\ UNCHANGED <<owner, complete, created, leftover>>
  BY DEF Open
<1>2. pc[w] = "open"
  BY DEF Open
<1> DEFINE s == created[w]
           n == Len(s)
<1>3. n + 1 \in 1 .. Len(Files) /\ name = Files[n + 1] /\ name \in Range(Files) /\ name \in Name
  BY FilesAreNames DEF NextFile
<1>4. CASE owner[name] # Nobody
  BY <1>1, <1>2, <1>4, GotoKeepsInv DEF Writing, Final
<1>5. CASE owner[name] = Nobody
  <2>1. /\ owner' = [owner EXCEPT ![name] = w]
        /\ created' = [created EXCEPT ![w] = Append(s, name)]
        /\ pc' = [pc EXCEPT ![w] = "write"]
        /\ UNCHANGED <<complete, leftover>>
    BY <1>1, <1>5 DEF Goto
  <2>2. /\ s \in Seq(Range(Files)) /\ n \in Nat
        /\ \A v \in Writer : /\ created[v] \in Seq(Range(Files)) /\ Len(created[v]) \in Nat
                             /\ \A k \in 1 .. Len(created[v]) : created[v][k] \in Name
    BY CreatedIsList
  <2>3. /\ created'[w] \in Seq(Range(Files)) /\ Len(created'[w]) = n + 1
        /\ \A k \in 1 .. n : created'[w][k] = s[k]
        /\ created'[w][n + 1] = name
        /\ created'[w] # <<>>
        /\ \A v \in Writer \ {w} : created'[v] = created[v]
    <3>1. created'[w] = Append(s, name) /\ \A v \in Writer \ {w} : created'[v] = created[v]
      BY <2>1 DEF WriterTypeOK
    <3>2. /\ Append(s, name) \in Seq(Range(Files)) /\ Len(Append(s, name)) = n + 1
          /\ \A k \in 1 .. n : Append(s, name)[k] = s[k]
          /\ Append(s, name)[n + 1] = name
      BY <2>2, <1>3
    <3>3. Append(s, name) # <<>>
      BY <3>2, <2>2
    <3> QED BY <3>1, <3>2, <3>3
  <2>4. pc'[w] = "write" /\ \A v \in Writer \ {w} : pc'[v] = pc[v]
    BY <2>1 DEF WriterTypeOK
  <2>5. owner'[name] = w /\ \A x \in Name \ {name} : owner'[x] = owner[x]
    BY <2>1, <1>3 DEF WriterTypeOK
  <2>6. \A v \in Writer : \A k \in 1 .. Len(created[v]) : created[v][k] # name
    BY <1>5, OwnersAssumption DEF OwnsCreated
  <2> HIDE DEF s, n
  <2>7. WriterTypeOK'
    BY <2>1, <2>2, <2>3, <1>3 DEF WriterTypeOK, s
  <2>8. FollowsOrder'
    <3>1. /\ \A k \in 1 .. n : s[k] = Files[k]
          /\ \A j, k \in 1 .. n : s[j] = s[k] => j = k
      BY <1>2 DEF FollowsOrder, Writing, s, n
    <3> SUFFICES ASSUME NEW v \in Writer
          PROVE
          /\ pc'[v] \in Writing \cup {"ok"} =>
                /\ Len(created'[v]) <= Len(Files)
                /\ \A k \in 1 .. Len(created'[v]) : created'[v][k] = Files[k]
          /\ pc'[v] \in {"write", "close"} => created'[v] # <<>>
          /\ pc'[v] \in {"list", "failed"} => created'[v] = <<>>
          /\ pc'[v] = "ok" => Len(created'[v]) = Len(Files)
          /\ \A j, k \in 1 .. Len(created'[v]) : created'[v][j] = created'[v][k] => j = k
      BY DEF FollowsOrder
    <3>2. CASE v = w
      <4>1. \A k \in 1 .. n + 1 : created'[w][k] = Files[k]
        BY <2>2, <2>3, <3>1, <1>3
      <4>2. Len(created'[w]) = n + 1 /\ n + 1 <= Len(Files) /\ n \in Nat /\ Len(Files) \in Nat
        BY <2>2, <2>3, <1>3, FilesAreNames
      <4>3. \A j, k \in 1 .. n + 1 : created'[w][j] = created'[w][k] => j = k
        BY <4>1, <4>2, FilesAreNames
      <4> QED BY <2>3, <2>4, <3>2, <4>1, <4>2, <4>3
    <3>3. CASE v # w
      BY <2>3, <2>4, <3>3 DEF FollowsOrder
    <3> QED BY <3>2, <3>3
  <2>9. OwnsCreated'
    <3> SUFFICES ASSUME NEW v \in Writer, NEW k \in 1 .. Len(created'[v])
                 PROVE  owner'[created'[v][k]] = v
      BY DEF OwnsCreated
    <3>1. CASE v # w
      BY <2>2, <2>3, <2>5, <2>6, <3>1 DEF OwnsCreated
    <3>2. CASE v = w /\ k = n + 1
      BY <2>3, <2>5, <3>2
    <3>3. CASE v = w /\ k # n + 1
      <4>1. k \in 1 .. n
        BY <2>2, <2>3, <3>3
      <4> QED BY <2>2, <2>3, <2>5, <2>6, <3>3, <4>1 DEF OwnsCreated, s, n
    <3> QED BY <3>1, <3>2, <3>3
  <2>10. CompletesInOrder'
    <3> SUFFICES ASSUME NEW v \in Writer
          PROVE
          /\ pc'[v] \in {"open", "ok"} => \A k \in 1 .. Len(created'[v]) : created'[v][k] \in complete'
          /\ pc'[v] \in {"write", "close"} =>
                \A k \in 1 .. Len(created'[v]) - 1 : created'[v][k] \in complete'
      BY DEF CompletesInOrder
    <3>1. CASE v = w
      <4>1. \A k \in 1 .. n : s[k] \in complete
        BY <1>2 DEF CompletesInOrder, s, n
      <4>2. Len(created'[w]) - 1 = n
        BY <2>2, <2>3
      <4> QED BY <2>1, <2>3, <2>4, <3>1, <4>1, <4>2
    <3>2. CASE v # w
      BY <2>1, <2>3, <2>4, <3>2 DEF CompletesInOrder
    <3> QED BY <3>1, <3>2
  <2>11. AccountsFor'
    <3> SUFFICES ASSUME NEW v \in Writer, NEW x \in Name, owner'[x] = v
                 PROVE  x \in leftover' \/ \E k \in 1 .. Len(created'[v]) : created'[v][k] = x
      BY DEF AccountsFor
    <3>1. CASE x = name
      <4>1. v = w
        BY <2>5, <3>1
      <4>2. n + 1 \in 1 .. Len(created'[w])
        BY <2>2, <2>3
      <4> QED BY <2>3, <3>1, <4>1, <4>2
    <3>2. CASE x # name
      <4>1. owner[x] = v
        BY <2>5, <3>2
      <4>2. x \in leftover \/ \E k \in 1 .. Len(created[v]) : created[v][k] = x
        BY <4>1 DEF AccountsFor
      <4>3. \A k \in 1 .. Len(created[v]) : k \in 1 .. Len(created'[v]) /\ created'[v][k] = created[v][k]
        BY <2>2, <2>3 DEF s, n
      <4> QED BY <2>1, <4>2, <4>3
    <3> QED BY <3>1, <3>2
  <2>12. StartsEmpty'
    <3>1. \A x \in Name : owner[x] # Before
      BY <1>2 DEF StartsEmpty, Writing
    <3>2. \A x \in Name : owner'[x] # Before
      BY <2>5, <3>1, OwnersAssumption
    <3> QED BY <3>2 DEF StartsEmpty
  <2> QED BY <2>7, <2>8, <2>9, <2>10, <2>11, <2>12
<1> QED BY <1>4, <1>5

\* Writing the last created file completes it.
LEMMA WriteKeepsInv ==
    ASSUME WriterInv, NEW w \in Writer, Write(w), UNCHANGED calm
    PROVE  WriterInv'
<1> USE DEF WriterInv
<1>1. /\ pc[w] = "write"
      /\ complete' = complete \cup {Last(created[w])}
      /\ Goto(w, "close")
      /\ UNCHANGED <<owner, created, leftover>>
  BY DEF Write
<1>2. pc' = [pc EXCEPT ![w] = "close"] /\ pc'[w] = "close" /\ \A v \in Writer \ {w} : pc'[v] = pc[v]
  BY <1>1 DEF Goto, WriterTypeOK
<1>3. Last(created[w]) \in Name
  <2>1. created[w] # <<>> /\ created[w] \in Seq(Range(Files))
    BY <1>1, CreatedIsList DEF FollowsOrder
  <2>2. Len(created[w]) \in 1 .. Len(created[w])
    BY <2>1, CreatedIsList
  <2> QED BY <2>2, CreatedIsList DEF Last
<1>4. WriterTypeOK'
  BY <1>1, <1>2, <1>3 DEF WriterTypeOK
<1>5. FollowsOrder'
  <2> SUFFICES ASSUME NEW v \in Writer
        PROVE
        /\ pc'[v] \in Writing \cup {"ok"} =>
              /\ Len(created[v]) <= Len(Files)
              /\ \A k \in 1 .. Len(created[v]) : created[v][k] = Files[k]
        /\ pc'[v] \in {"write", "close"} => created[v] # <<>>
        /\ pc'[v] \in {"list", "failed"} => created[v] = <<>>
        /\ pc'[v] = "ok" => Len(created[v]) = Len(Files)
        /\ \A j, k \in 1 .. Len(created[v]) : created[v][j] = created[v][k] => j = k
    BY <1>1 DEF FollowsOrder
  <2>1. CASE v = w
    BY <1>1, <1>2, <2>1 DEF FollowsOrder, Writing
  <2>2. CASE v # w
    BY <1>1, <1>2, <2>2 DEF FollowsOrder
  <2> QED BY <2>1, <2>2
<1>6. OwnsCreated' /\ AccountsFor'
  BY <1>1 DEF OwnsCreated, AccountsFor
<1>7. CompletesInOrder'
  <2>1. complete \subseteq complete'
    BY <1>1
  <2> QED BY <1>1, <1>2, <2>1 DEF CompletesInOrder
<1>8. StartsEmpty'
  BY <1>1, <1>2 DEF StartsEmpty, Writing
<1> QED BY <1>4, <1>5, <1>6, <1>7, <1>8

\* The rollback takes the first file off the list, whether it removes it or
\* not.
LEMMA TailOfCreated ==
    ASSUME WriterInv, NEW w \in Writer, created[w] # <<>>
    PROVE  /\ Tail(created[w]) \in Seq(Range(Files))
           /\ Len(Tail(created[w])) = Len(created[w]) - 1
           /\ \A k \in 1 .. Len(created[w]) - 1 :
                 /\ Tail(created[w])[k] = created[w][k + 1]
                 /\ k + 1 \in 1 .. Len(created[w])
                 /\ created[w][k + 1] # Head(created[w])
           /\ Head(created[w]) = created[w][1]
           /\ 1 \in 1 .. Len(created[w])
           /\ Tail(created[w]) # created[w]
<1> USE DEF WriterInv
<1> DEFINE s == created[w]
<1>1. s \in Seq(Range(Files)) /\ Len(s) \in Nat /\ s # <<>>
  BY CreatedIsList
<1>2. \A j, k \in 1 .. Len(s) : s[j] = s[k] => j = k
  BY DEF FollowsOrder
<1> HIDE DEF s
<1>3. Len(s) >= 1
  BY <1>1
<1>4. /\ Tail(s) \in Seq(Range(Files)) /\ Len(Tail(s)) = Len(s) - 1
      /\ \A k \in 1 .. Len(s) - 1 : Tail(s)[k] = s[k + 1]
      /\ Head(s) = s[1]
  BY <1>1, <1>3, HeadTailProperties
<1>5. \A k \in 1 .. Len(s) - 1 : k + 1 \in 1 .. Len(s) /\ s[k + 1] # s[1]
  BY <1>1, <1>2, <1>3
<1>6. Tail(s) # s
  <2> DEFINE t == Tail(s)
  <2>1. Len(t) = Len(s) - 1
    BY <1>4
  <2> HIDE DEF t
  <2>2. t # s
    BY <1>1, <2>1
  <2> QED BY <2>2 DEF t
<1>7. 1 \in 1 .. Len(s)
  BY <1>1, <1>3
<1> QED BY <1>4, <1>5, <1>6, <1>7 DEF s

\* The list of a run loses its first entry; what that does to the lists.
LEMMA ShorterListKeepsOrder ==
    ASSUME WriterInv, NEW w \in Writer, pc[w] = "remove", created[w] # <<>>,
           created' = [created EXCEPT ![w] = Tail(@)], UNCHANGED pc
    PROVE  /\ created' \in [Writer -> Seq(Range(Files))]
           /\ created'[w] = Tail(created[w])
           /\ \A v \in Writer \ {w} : created'[v] = created[v]
           /\ FollowsOrder'
<1> USE DEF WriterInv
<1>1. /\ created'[w] = Tail(created[w])
      /\ \A v \in Writer \ {w} : created'[v] = created[v]
      /\ created' \in [Writer -> Seq(Range(Files))]
  BY TailOfCreated DEF WriterTypeOK
<1>2. FollowsOrder'
  <2> SUFFICES ASSUME NEW v \in Writer
        PROVE
        /\ pc[v] \in Writing \cup {"ok"} =>
              /\ Len(created'[v]) <= Len(Files)
              /\ \A k \in 1 .. Len(created'[v]) : created'[v][k] = Files[k]
        /\ pc[v] \in {"write", "close"} => created'[v] # <<>>
        /\ pc[v] \in {"list", "failed"} => created'[v] = <<>>
        /\ pc[v] = "ok" => Len(created'[v]) = Len(Files)
        /\ \A j, k \in 1 .. Len(created'[v]) : created'[v][j] = created'[v][k] => j = k
    BY DEF FollowsOrder
  <2>1. CASE v # w
    BY <1>1, <2>1 DEF FollowsOrder
  <2>2. CASE v = w
    <3>1. \A j, k \in 1 .. Len(created[w]) : created[w][j] = created[w][k] => j = k
      BY DEF FollowsOrder
    <3>2. Len(created[w]) \in Nat
      BY CreatedIsList
    <3>3. \A j, k \in 1 .. Len(created[w]) - 1 :
             Tail(created[w])[j] = Tail(created[w])[k] => j + 1 = k + 1
      BY <3>1, TailOfCreated
    <3>4. ASSUME NEW j \in 1 .. Len(created[w]) - 1, NEW k \in 1 .. Len(created[w]) - 1,
                 Tail(created[w])[j] = Tail(created[w])[k]
          PROVE  j = k
      <4>1. j + 1 = k + 1
        BY <3>3, <3>4
      <4>2. j \in Int /\ k \in Int
        BY <3>2
      <4> QED BY <4>1, <4>2
    <3>5. Len(Tail(created[w])) = Len(created[w]) - 1
      BY TailOfCreated
    <3> QED BY <1>1, <2>2, <3>4, <3>5 DEF Writing
  <2> QED BY <2>1, <2>2
<1> QED BY <1>1, <1>2

\* The deferred removal takes the files off in the order they were created.
LEMMA RollBackKeepsInv ==
    ASSUME WriterInv, NEW w \in Writer, RollBack(w), UNCHANGED calm
    PROVE  WriterInv'
<1> USE DEF WriterInv
<1> DEFINE head == Head(created[w])
<1>1. /\ pc[w] = "remove" /\ created[w] # <<>>
      /\ owner' = [owner EXCEPT ![head] = Nobody]
      /\ complete' = complete \ {head}
      /\ created' = [created EXCEPT ![w] = Tail(@)]
      /\ UNCHANGED <<pc, leftover>>
  BY DEF RollBack
<1>2. /\ created' \in [Writer -> Seq(Range(Files))]
      /\ created'[w] = Tail(created[w])
      /\ \A v \in Writer \ {w} : created'[v] = created[v]
      /\ FollowsOrder'
  BY <1>1, ShorterListKeepsOrder
<1>3. head \in Name /\ owner[head] = w
  BY <1>1, TailOfCreated, CreatedIsList DEF OwnsCreated
<1>4. /\ owner'[head] = Nobody
      /\ \A x \in Name \ {head} : owner'[x] = owner[x]
  BY <1>1, <1>3 DEF WriterTypeOK
<1>5. \A v \in Writer \ {w} : \A k \in 1 .. Len(created[v]) :
         created[v][k] # head /\ created[v][k] \in Name
  BY <1>3, CreatedIsList DEF OwnsCreated
<1>6. \A k \in 1 .. Len(created'[w]) :
         created'[w][k] # head /\ \E j \in 1 .. Len(created[w]) : created[w][j] = created'[w][k]
  BY <1>1, <1>2, TailOfCreated
<1> HIDE DEF head
<1>7. WriterTypeOK'
  BY <1>1, <1>2, <1>3 DEF WriterTypeOK
<1>8. OwnsCreated'
  <2> SUFFICES ASSUME NEW v \in Writer, NEW k \in 1 .. Len(created'[v])
               PROVE  owner'[created'[v][k]] = v
    BY DEF OwnsCreated
  <2>1. CASE v = w
    <3>1. PICK j \in 1 .. Len(created[w]) : created[w][j] = created'[w][k]
      BY <1>6, <2>1
    <3>2. owner[created[w][j]] = w /\ created[w][j] \in Name /\ created[w][j] # head
      BY <1>6, <2>1, <3>1, CreatedIsList DEF OwnsCreated
    <3> QED BY <1>4, <2>1, <3>1, <3>2
  <2>2. CASE v # w
    BY <1>2, <1>4, <1>5, <2>2 DEF OwnsCreated
  <2> QED BY <2>1, <2>2
<1>9. CompletesInOrder'
  <2> SUFFICES ASSUME NEW v \in Writer
        PROVE
        /\ pc[v] \in {"open", "ok"} => \A k \in 1 .. Len(created'[v]) : created'[v][k] \in complete'
        /\ pc[v] \in {"write", "close"} =>
              \A k \in 1 .. Len(created'[v]) - 1 : created'[v][k] \in complete'
    BY <1>1 DEF CompletesInOrder
  <2>1. CASE v = w
    BY <1>1, <2>1
  <2>2. CASE v # w
    <3>1. \A k \in 1 .. Len(created[v]) - 1 : k \in 1 .. Len(created[v])
      BY CreatedIsList
    <3> QED BY <1>1, <1>2, <1>5, <2>2, <3>1 DEF CompletesInOrder
  <2> QED BY <2>1, <2>2
<1>10. AccountsFor'
  <2> SUFFICES ASSUME NEW v \in Writer, NEW x \in Name, owner'[x] = v
               PROVE  x \in leftover \/ \E k \in 1 .. Len(created'[v]) : created'[v][k] = x
    BY <1>1 DEF AccountsFor
  <2>1. x # head /\ owner[x] = v
    BY <1>4, OwnersAssumption
  <2>2. x \in leftover \/ \E k \in 1 .. Len(created[v]) : created[v][k] = x
    BY <2>1 DEF AccountsFor
  <2>3. CASE v # w
    BY <1>2, <2>2, <2>3
  <2>4. CASE v = w
    <3>1. ASSUME NEW k \in 1 .. Len(created[w]), created[w][k] = x
          PROVE  k - 1 \in 1 .. Len(created'[w]) /\ created'[w][k - 1] = x
      <4>1. k # 1
        BY <2>1, <3>1, <1>1, TailOfCreated DEF head
      <4>2. k - 1 \in 1 .. Len(created[w]) - 1 /\ (k - 1) + 1 = k
        BY <4>1, CreatedIsList
      <4> QED BY <1>1, <1>2, <3>1, <4>2, TailOfCreated
    <3> QED BY <2>2, <2>4, <3>1
  <2> QED BY <2>3, <2>4
<1>11. StartsEmpty'
  <2>1. \A x \in Name : owner[x] # Before => owner'[x] # Before
    BY <1>4, OwnersAssumption
  <2> QED BY <1>1, <2>1 DEF StartsEmpty
<1> QED BY <1>2, <1>7, <1>8, <1>9, <1>10, <1>11

\* A removal that fails is given up, and the file stays behind.
LEMMA RollBackFailsKeepsInv ==
    ASSUME WriterInv, NEW w \in Writer, RollBackFails(w), UNCHANGED calm
    PROVE  WriterInv'
<1> USE DEF WriterInv
<1>1. /\ pc[w] = "remove" /\ created[w] # <<>>
      /\ leftover' = leftover \cup {Head(created[w])}
      /\ created' = [created EXCEPT ![w] = Tail(@)]
      /\ UNCHANGED <<owner, complete, pc>>
  BY DEF RollBackFails
<1>2. /\ created' \in [Writer -> Seq(Range(Files))]
      /\ created'[w] = Tail(created[w])
      /\ \A v \in Writer \ {w} : created'[v] = created[v]
      /\ FollowsOrder'
  BY <1>1, ShorterListKeepsOrder
<1>3. Head(created[w]) \in Name
  BY <1>1, TailOfCreated, CreatedIsList
<1>4. WriterTypeOK'
  BY <1>1, <1>2, <1>3 DEF WriterTypeOK
<1>5. OwnsCreated'
  <2> SUFFICES ASSUME NEW v \in Writer, NEW k \in 1 .. Len(created'[v])
               PROVE  owner[created'[v][k]] = v
    BY <1>1 DEF OwnsCreated
  <2>1. CASE v = w
    BY <1>1, <1>2, <2>1, TailOfCreated DEF OwnsCreated
  <2>2. CASE v # w
    BY <1>2, <2>2 DEF OwnsCreated
  <2> QED BY <2>1, <2>2
<1>6. CompletesInOrder'
  <2>1. pc[w] \notin {"open", "ok", "write", "close"}
    BY <1>1
  <2> QED BY <1>1, <1>2, <2>1 DEF CompletesInOrder
<1>7. AccountsFor'
  <2> SUFFICES ASSUME NEW v \in Writer, NEW x \in Name, owner[x] = v
               PROVE  x \in leftover' \/ \E k \in 1 .. Len(created'[v]) : created'[v][k] = x
    BY <1>1 DEF AccountsFor
  <2>2. x \in leftover \/ \E k \in 1 .. Len(created[v]) : created[v][k] = x
    BY DEF AccountsFor
  <2>3. CASE v # w
    BY <1>1, <1>2, <2>2, <2>3
  <2>4. CASE v = w
    <3>1. ASSUME NEW k \in 1 .. Len(created[w]), created[w][k] = x, x \notin leftover'
          PROVE  k - 1 \in 1 .. Len(created'[w]) /\ created'[w][k - 1] = x
      <4>1. k # 1
        BY <3>1, <1>1, TailOfCreated
      <4>2. k - 1 \in 1 .. Len(created[w]) - 1 /\ (k - 1) + 1 = k
        BY <4>1, CreatedIsList
      <4> QED BY <1>1, <1>2, <3>1, <4>2, TailOfCreated
    <3> QED BY <1>1, <2>2, <2>4, <3>1
  <2> QED BY <2>3, <2>4
<1>8. StartsEmpty'
  BY <1>1 DEF StartsEmpty
<1> QED BY <1>2, <1>4, <1>5, <1>6, <1>7, <1>8

\* What a run does when the operating system does what it is asked.
LEMMA StepKeepsInv ==
    ASSUME WriterInv, NEW w \in Writer, Step(w), UNCHANGED calm
    PROVE  WriterInv'
<1>1. CASE List(w)
  <2>1. pc[w] = "list" /\ created[w] = <<>> /\ Len(created[w]) = 0
    BY <1>1 DEF List, WriterInv, FollowsOrder
  <2>2. CASE \A name \in Name : owner[name] = Nobody
    <3>1. \A name \in Name : owner[name] # Before
      BY <2>2, OwnersAssumption
    <3> QED BY <1>1, <2>1, <2>2, <3>1, GotoKeepsInv DEF List, Writing, Final
  <2>3. CASE ~ \A name \in Name : owner[name] = Nobody
    BY <1>1, <2>1, <2>3, GotoKeepsInv DEF List, Writing, Final
  <2> QED BY <2>2, <2>3
<1>2. CASE Open(w)
  BY <1>2, OpenKeepsInv
<1>3. CASE Succeed(w)
  <2>1. pc[w] = "open" /\ NextFile(w) = {}
    BY <1>3 DEF Succeed
  <2>2. Len(created[w]) + 1 \notin 1 .. Len(Files) /\ Len(created[w]) <= Len(Files)
    BY <2>1, FilesAreNames DEF NextFile, WriterInv, FollowsOrder, Writing
  <2>3. Len(created[w]) = Len(Files)
    BY <2>2, FilesAreNames, CreatedIsList DEF WriterInv
  <2>4. \A k \in 1 .. Len(created[w]) : created[w][k] \in complete
    BY <2>1 DEF WriterInv, CompletesInOrder
  <2> QED BY <1>3, <2>1, <2>3, <2>4, GotoKeepsInv DEF Succeed, Writing, Final
<1>4. CASE Write(w)
  BY <1>4, WriteKeepsInv
<1>5. CASE Close(w)
  <2>1. pc[w] = "close" /\ created[w] # <<>>
    BY <1>5 DEF Close, WriterInv, FollowsOrder
  <2>2. CASE Last(created[w]) \in complete
    <3>1. \A k \in 1 .. Len(created[w]) : created[w][k] \in complete
      <4>1. \A k \in 1 .. Len(created[w]) - 1 : created[w][k] \in complete
        BY <2>1 DEF WriterInv, CompletesInOrder
      <4>2. created[w][Len(created[w])] \in complete
        BY <2>2 DEF Last
      <4>3. Len(created[w]) \in Nat
        BY CreatedIsList DEF WriterInv
      <4> QED BY <4>1, <4>2, <4>3
    <3> QED BY <1>5, <2>1, <2>2, <3>1, GotoKeepsInv DEF Close, Writing, Final
  <2>3. CASE Last(created[w]) \notin complete
    BY <1>5, <2>1, <2>3, GotoKeepsInv DEF Close, Writing, Final
  <2> QED BY <2>2, <2>3
<1>6. CASE RollBack(w)
  BY <1>6, RollBackKeepsInv
<1>7. CASE Fail(w)
  BY <1>7, GotoKeepsInv DEF Fail, Writing, Final
<1> QED
  BY <1>1, <1>2, <1>3, <1>4, <1>5, <1>6, <1>7 DEF Step

\* What a run does when a call to the operating system fails.
LEMMA FaultKeepsInv ==
    ASSUME WriterInv, NEW w \in Writer, Fault(w), UNCHANGED calm
    PROVE  WriterInv'
<1>1. CASE ListFails(w)
  <2>1. created[w] = <<>>
    BY <1>1 DEF ListFails, WriterInv, FollowsOrder
  <2> QED BY <1>1, <2>1, GotoKeepsInv DEF ListFails, Writing, Final
<1>2. CASE OpenFails(w)
  BY <1>2, GotoKeepsInv DEF OpenFails, Writing, Final
<1>3. CASE WriteFails(w)
  BY <1>3, GotoKeepsInv DEF WriteFails, Writing, Final
<1>4. CASE CloseFails(w)
  BY <1>4, GotoKeepsInv DEF CloseFails, Writing, Final
<1>5. CASE RollBackFails(w)
  BY <1>5, RollBackFailsKeepsInv
<1>6. CASE Kill(w)
  BY <1>6, GotoKeepsInv DEF Kill, Writing, Final
<1> QED
  BY <1>1, <1>2, <1>3, <1>4, <1>5, <1>6 DEF Fault

\* A file that somebody else creates was nobody's before.
LEMMA StrangerKeepsInv ==
    ASSUME WriterInv, NEW name \in Name, StrangerCreates(name), UNCHANGED calm
    PROVE  WriterInv'
<1> USE DEF WriterInv
<1>1. /\ owner[name] = Nobody
      /\ owner' = [owner EXCEPT ![name] = Stranger]
      /\ UNCHANGED <<complete, pc, created, leftover>>
  BY DEF StrangerCreates
<1>2. owner'[name] = Stranger /\ \A x \in Name \ {name} : owner'[x] = owner[x]
  BY <1>1 DEF WriterTypeOK
<1>3. WriterTypeOK'
  BY <1>1 DEF WriterTypeOK
<1>4. OwnsCreated'
  <2> SUFFICES ASSUME NEW v \in Writer, NEW k \in 1 .. Len(created[v])
               PROVE  owner'[created[v][k]] = v
    BY <1>1 DEF OwnsCreated
  <2>1. owner[created[v][k]] = v /\ created[v][k] \in Name
    BY CreatedIsList DEF OwnsCreated
  <2> QED BY <1>1, <1>2, <2>1, OwnersAssumption
<1>5. AccountsFor'
  BY <1>1, <1>2, OwnersAssumption DEF AccountsFor
<1>6. FollowsOrder' /\ CompletesInOrder'
  BY <1>1 DEF FollowsOrder, CompletesInOrder
<1>7. StartsEmpty'
  BY <1>1, <1>2, OwnersAssumption DEF StartsEmpty
<1> QED BY <1>3, <1>4, <1>5, <1>6, <1>7

\* Whatever the runs and their surroundings do next, the invariant holds.
LEMMA NextWriterInv == WriterInv /\ [WriterNext]_writerVars => WriterInv'
<1> SUFFICES ASSUME WriterInv, [WriterNext]_writerVars PROVE WriterInv'
  OBVIOUS
<1>1. CASE UNCHANGED writerVars
  BY <1>1 DEF writerVars, WriterInv, WriterTypeOK, FollowsOrder, OwnsCreated, CompletesInOrder,
              AccountsFor, StartsEmpty
<1>2. CASE WriterNext
  BY <1>2, StepKeepsInv, FaultKeepsInv, StrangerKeepsInv DEF WriterNext
<1> QED BY <1>1, <1>2

\* The invariant of the writers holds throughout.
LEMMA AlwaysWriterInv == WriterSpec => []WriterInv
<1>1. WriterInit => WriterInv BY InitWriterInv
<1>2. WriterInv /\ [WriterNext]_writerVars => WriterInv' BY NextWriterInv
<1> QED BY <1>1, <1>2, PTL DEF WriterSpec

\* The directory, the runs and their lists are always well formed.
THEOREM WriterTypeCorrect == WriterSpec => []WriterTypeOK
<1>1. WriterInv => WriterTypeOK BY DEF WriterInv
<1> QED BY <1>1, AlwaysWriterInv, PTL

\* However many runs write however many files, fail and are killed: a run that
\* succeeded has written every file of the catalog itself and in full, into a
\* directory that was empty (writeCatalog).
THEOREM SuccessStaysWhole == WriterSpec => []SuccessIsWhole
<1>1. WriterInv => SuccessIsWhole
  <2> SUFFICES ASSUME WriterInv, NEW w \in Writer, pc[w] = "ok"
               PROVE  /\ \A name \in Range(Files) : owner[name] = w /\ name \in complete
                      /\ \A name \in Name : owner[name] # Before
    BY DEF SuccessIsWhole
  <2> USE DEF WriterInv
  <2>1. Len(created[w]) = Len(Files) /\ \A k \in 1 .. Len(Files) : created[w][k] = Files[k]
    BY DEF FollowsOrder
  <2>2. \A k \in 1 .. Len(Files) : owner[Files[k]] = w /\ Files[k] \in complete
    BY <2>1 DEF OwnsCreated, CompletesInOrder
  <2>3. \A name \in Range(Files) : \E k \in 1 .. Len(Files) : name = Files[k]
    BY FilesAreNames DEF Range
  <2>4. \A name \in Name : owner[name] # Before
    BY DEF StartsEmpty
  <2> QED BY <2>2, <2>3, <2>4
<1> QED BY <1>1, AlwaysWriterInv, PTL

\* A run that failed has left nothing but what it could not remove.
THEOREM FailureStaysClean == WriterSpec => []FailureLeavesNothing
<1>1. WriterInv => FailureLeavesNothing
  <2> SUFFICES ASSUME WriterInv, NEW w \in Writer, NEW name \in Name,
                      pc[w] = "failed", owner[name] = w
               PROVE  name \in leftover
    BY DEF FailureLeavesNothing
  <2>1. created[w] = <<>> /\ Len(created[w]) = 0
    BY DEF WriterInv, FollowsOrder
  <2> QED BY <2>1 DEF WriterInv, AccountsFor
<1> QED BY <1>1, AlwaysWriterInv, PTL

\* A name that is taken changes hands only when the run that created the file
\* rolls it back: nobody removes or overwrites the file of another.
THEOREM NamesStayTaken == WriterSpec => TakenUntilRollback
<1> DEFINE Taken ==
        \A name \in Name :
           owner[name] # Nobody /\ owner'[name] # owner[name] =>
              /\ owner[name] \in Writer
              /\ pc[owner[name]] = "remove"
              /\ created[owner[name]] # created'[owner[name]]
<1>1. WriterInv /\ [WriterNext]_writerVars => [Taken]_writerVars
  <2> SUFFICES ASSUME WriterInv, WriterNext, NEW name \in Name,
                      owner[name] # Nobody, owner'[name] # owner[name]
               PROVE  /\ owner[name] \in Writer
                      /\ pc[owner[name]] = "remove"
                      /\ created[owner[name]] # created'[owner[name]]
    BY DEF Taken
  <2> USE DEF WriterInv
  <2>1. \A x \in Name : ~StrangerCreates(x)
    BY DEF StrangerCreates, WriterTypeOK
  <2>2. \A w \in Writer : ~Open(w)
    BY DEF Open, WriterTypeOK
  <2>3. \A w \in Writer : ~Fault(w)
    BY DEF Fault, ListFails, OpenFails, WriteFails, CloseFails, RollBackFails, Kill
  <2>4. \A w \in Writer : ~(List(w) \/ Succeed(w) \/ Write(w) \/ Close(w) \/ Fail(w))
    BY DEF List, Succeed, Write, Close, Fail
  <2>5. PICK w \in Writer : RollBack(w)
    BY <2>1, <2>2, <2>3, <2>4 DEF WriterNext, Step
  <2>6. name = Head(created[w])
    BY <2>5 DEF RollBack, WriterTypeOK
  <2>7. created[w] # <<>> /\ owner[name] = w
    BY <2>5, <2>6, TailOfCreated DEF RollBack, OwnsCreated
  <2>8. created'[w] = Tail(created[w]) /\ pc[w] = "remove"
    BY <2>5 DEF RollBack, WriterTypeOK
  <2> QED BY <2>7, <2>8, TailOfCreated
<1> QED BY <1>1, AlwaysWriterInv, PTL DEF WriterSpec, TakenUntilRollback, Taken
=============================================================================
