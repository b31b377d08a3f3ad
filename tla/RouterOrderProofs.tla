-------------------------- MODULE RouterOrderProofs --------------------------
(***************************************************************************)
(* Safety of RouterOrder for every set of UUIDs, every template history    *)
(* and every bound.                                                        *)
(***************************************************************************)
EXTENDS RouterOrder, EditLemmas

\* The inductive invariant: besides what the properties say, the UUID lists of
\* the snapshot are free of duplicates and the template order is one of the
\* template's rules.
Consistent ==
    /\ TypeOK
    /\ DistinctValid(shared)
    /\ DistinctValid(local)
    /\ Range(shared) \cap Range(local) = {}
    /\ DistinctValid(exclusions)
    /\ ValidOrderedIDs(templateOrder, Range(shared))
    /\ OrderComplete
    /\ ExclusionNeverHidesLocal

-----------------------------------------------------------------------------
(* Facts about the operators of RuleOrder *)

\* A list of valid UUIDs is a list of UUIDs.
LEMMA ValidListsAreLists == Seq(ValidID) \subseteq Seq(ID)
BY ValidIDAssumption, SeqMonotonic

\* An order is never mistaken for its absence.
LEMMA OrderIsNotNil ==
    \A order, S : ValidOrderedIDs(order, S) => order # Nil
BY ValidListsAreLists, NilAssumption DEF ValidOrderedIDs, DistinctValid

\* InsertLocalRule lengthens the full order by the new UUID and nothing else.
LEMMA InsertLocalOrder ==
    ASSUME NEW in, NEW id, NEW index, CanInsertLocal(in, id, index)
    PROVE  LET order == InsertLocalRule(in, id, index).personalOrder
           IN  ValidOrderedIDs(order, Range(in.shared) \cup Range(in.local) \cup {id})
<1> DEFINE full == Full(in)
<1>1. /\ full \in Seq(ValidID) /\ IsInjective(full)
      /\ Range(full) = Range(in.shared) \cup Range(in.local)
      /\ id \in ValidID /\ id \notin Range(full)
      /\ index \in 0 .. Len(full)
  BY DEF CanInsertLocal, Assembles, AssemblesAs, ValidOrderedIDs, DistinctValid
<1>2. index + 1 \in 1 .. Len(full) + 1
  BY <1>1, LenProperties
<1>3. InsertLocalRule(in, id, index).personalOrder = InsertAt(full, index + 1, id)
  BY DEF InsertLocalRule, Personalized, Candidate
<1> HIDE DEF full
<1>4. /\ InsertAt(full, index + 1, id) \in Seq(ValidID)
      /\ IsInjective(InsertAt(full, index + 1, id))
      /\ Range(InsertAt(full, index + 1, id)) = Range(full) \cup {id}
  BY <1>1, <1>2, InsertAtPositions, InsertAtMembers
<1> QED
  BY <1>1, <1>3, <1>4 DEF ValidOrderedIDs, DistinctValid

\* MoveRule keeps the members of the full order.
LEMMA MoveOrder ==
    ASSUME NEW in, NEW id, NEW index, CanMove(in, id, index)
    PROVE  ValidOrderedIDs(MoveRule(in, id, index).personalOrder,
                           Range(in.shared) \cup Range(in.local))
<1> DEFINE full == Full(in)
           old  == CHOOSE k \in DOMAIN full : full[k] = id
           rest == RemoveAt(full, old)
<1>1. /\ full \in Seq(ValidID) /\ IsInjective(full)
      /\ Range(full) = Range(in.shared) \cup Range(in.local)
      /\ id \in ValidID /\ id \in Range(full)
      /\ index \in 0 .. Len(full) - 1
  BY DEF CanMove, Assembles, AssemblesAs, ValidOrderedIDs, DistinctValid
<1>2. MoveRule(in, id, index).personalOrder = InsertAt(rest, index + 1, id)
  BY DEF MoveRule, Personalized, Candidate
<1>3. old \in 1 .. Len(full) /\ full[old] = id
  BY <1>1, LenProperties DEF Range
<1> HIDE DEF full, old
<1>4. /\ rest \in Seq(ValidID) /\ Len(rest) = Len(full) - 1
      /\ IsInjective(rest) /\ Range(rest) = Range(full) \ {id}
  BY <1>1, <1>3, RemoveAtPositions, RemoveAtMembers
<1>5. index + 1 \in 1 .. Len(rest) + 1
  BY <1>1, <1>4, LenProperties
<1> HIDE DEF rest
<1>6. /\ InsertAt(rest, index + 1, id) \in Seq(ValidID)
      /\ IsInjective(InsertAt(rest, index + 1, id))
      /\ Range(InsertAt(rest, index + 1, id)) = Range(rest) \cup {id}
  BY <1>1, <1>4, <1>5, InsertAtPositions, InsertAtMembers
<1> QED
  BY <1>1, <1>2, <1>4, <1>6 DEF ValidOrderedIDs, DistinctValid

\* ResetRuleOrder keeps the members of the full order; on a router without
\* local rules it hands the order back to the template.
LEMMA ResetOrder ==
    ASSUME NEW in, CanReset(in)
    PROVE  LET order == ResetRuleOrder(in).personalOrder
           IN  IF Range(in.local) = {}
               THEN order = Nil
               ELSE ValidOrderedIDs(order, Range(in.shared) \cup Range(in.local))
<1> DEFINE full == Full(in)
           T == in.templateOrder
           L == Range(in.local)
           ids == Refill(full, T, L)
<1>1. /\ full \in Seq(ValidID) /\ IsInjective(full)
      /\ T \in Seq(ValidID) /\ IsInjective(T)
      /\ Range(T) = Range(in.shared) /\ Range(T) \cap L = {}
      /\ Range(full) = Range(in.shared) \cup L
  BY DEF CanReset, Assembles, AssemblesAs, ValidMetadata, ValidOrderedIDs, DistinctValid
<1>2. ResetRuleOrder(in).personalOrder = IF L = {} THEN Nil ELSE ids
  BY DEF ResetRuleOrder, Personalized, Candidate
<1>3. ids \in Seq(ValidID) /\ IsInjective(ids) /\ Range(ids) = Range(full)
  <2> HIDE DEF full, T, L
  <2> QED BY <1>1, SlotRefill
<1> HIDE DEF ids
<1> QED BY <1>1, <1>2, <1>3 DEF ValidOrderedIDs, DistinctValid

\* ReconcileRuleOrder returns what its second validation accepted.
LEMMA ReconcileOrder ==
    ASSUME NEW in, NEW nextShared, NEW nextOrder,
           CanReconcile(in, nextShared, nextOrder)
    PROVE  LET order == ReconcileRuleOrder(in, nextShared, nextOrder).personalOrder
           IN  /\ DistinctValid(nextShared)
               /\ ValidOrderedIDs(nextOrder, Range(nextShared))
               /\ in.personalOrder = Nil => order = Nil
               /\ in.personalOrder # Nil =>
                     /\ Range(nextShared) \cap Range(in.local) = {}
                     /\ ValidOrderedIDs(order, Range(nextShared) \cup Range(in.local))
<1> DEFINE ids == ReconciledIDs(in, nextShared, nextOrder)
<1>1. DistinctValid(nextShared) /\ ValidOrderedIDs(nextOrder, Range(nextShared))
  BY DEF CanReconcile, Assembles, AssemblesAs, ValidMetadata, NextTemplate
<1>2. ReconcileRuleOrder(in, nextShared, nextOrder).personalOrder =
         IF in.personalOrder = Nil THEN Nil ELSE ids
  BY DEF ReconcileRuleOrder, Personalized, Candidate
<1>3. ASSUME in.personalOrder # Nil
      PROVE  /\ Range(nextShared) \cap Range(in.local) = {}
             /\ ValidOrderedIDs(ids, Range(nextShared) \cup Range(in.local))
  <2> DEFINE next == [NextTemplate(nextShared, nextOrder) EXCEPT !.local = in.local]
  <2>1. AssemblesAs(next, ids)
    BY <1>3 DEF CanReconcile
  <2>2. next.shared = nextShared /\ next.local = in.local
    BY DEF NextTemplate
  <2> QED BY <2>1, <2>2 DEF AssemblesAs, ValidMetadata
<1> QED BY <1>1, <1>2, <1>3

-----------------------------------------------------------------------------
(* What each call does to the relative order *)

\* The full order of a router that assembles is a list without repetitions.
LEMMA FullOrders ==
    ASSUME NEW in, Assembles(in)
    PROVE  /\ Full(in) \in Seq(ValidID) /\ IsInjective(Full(in))
           /\ DOMAIN Full(in) \subseteq Nat
           /\ Range(Full(in)) = Range(in.shared) \cup Range(in.local)
<1>1. /\ Full(in) \in Seq(ValidID) /\ IsInjective(Full(in))
      /\ Range(Full(in)) = Range(in.shared) \cup Range(in.local)
  BY DEF Assembles, AssemblesAs, ValidOrderedIDs, DistinctValid
<1> QED BY <1>1, LenProperties

\* An insertion leaves what was there in its order.
LEMMA InsertLocalKeepsOrder ==
    ASSUME NEW in, NEW id, NEW index, CanInsertLocal(in, id, index),
           NEW x, NEW y, Precedes(Full(in), x, y)
    PROVE  Precedes(InsertLocalRule(in, id, index).personalOrder, x, y)
<1> DEFINE full == Full(in)
<1>1. full \in Seq(ValidID) /\ id \in ValidID /\ index \in 0 .. Len(full)
  BY FullOrders DEF CanInsertLocal
<1>2. index + 1 \in 1 .. Len(full) + 1
  BY <1>1, LenProperties
<1>3. InsertLocalRule(in, id, index).personalOrder = InsertAt(full, index + 1, id)
  BY DEF InsertLocalRule, Personalized, Candidate
<1>4. Precedes(full, x, y)
  OBVIOUS
<1> HIDE DEF full
<1> QED BY <1>1, <1>2, <1>3, <1>4, InsertKeepsOrder

\* A move leaves all rules but the moved one in their order.
LEMMA MoveKeepsOrder ==
    ASSUME NEW in, NEW id, NEW index, CanMove(in, id, index),
           NEW x, NEW y, x # id, y # id, Precedes(Full(in), x, y)
    PROVE  Precedes(MoveRule(in, id, index).personalOrder, x, y)
<1> DEFINE full == Full(in)
           old  == CHOOSE k \in DOMAIN full : full[k] = id
           rest == RemoveAt(full, old)
<1>1. /\ full \in Seq(ValidID) /\ Len(full) \in Nat /\ DOMAIN full = 1 .. Len(full)
      /\ id \in ValidID /\ id \in Range(full)
      /\ index \in 0 .. Len(full) - 1
  BY FullOrders, LenProperties DEF CanMove
<1>2. MoveRule(in, id, index).personalOrder = InsertAt(rest, index + 1, id)
  BY DEF MoveRule, Personalized, Candidate
<1>3. old \in 1 .. Len(full) /\ full[old] = id
  BY <1>1 DEF Range
<1>4. Precedes(full, x, y)
  OBVIOUS
<1> HIDE DEF full, old
<1>5. /\ rest \in Seq(ValidID) /\ Len(rest) = Len(full) - 1
      /\ Precedes(rest, x, y)
  BY <1>1, <1>3, <1>4, RemoveAtPositions, RemoveKeepsOrder
<1> HIDE DEF rest
<1>6. index + 1 \in 1 .. Len(rest) + 1
  BY <1>1, <1>5
<1> QED BY <1>1, <1>2, <1>5, <1>6, InsertKeepsOrder

\* A template update leaves the rules that outlive it in the order of the router.
LEMMA ReconcileKeepsOrder ==
    ASSUME NEW in, NEW nextShared, NEW nextOrder, CanReconcile(in, nextShared, nextOrder),
           in.personalOrder # Nil, NEW x, NEW y, Precedes(Full(in), x, y),
           {x, y} \subseteq Range(in.local) \cup Range(nextShared)
    PROVE  Precedes(ReconcileRuleOrder(in, nextShared, nextOrder).personalOrder, x, y)
<1> DEFINE full == Full(in)
           K    == Range(in.local) \cup Range(nextShared)
           list == Survivors(in, nextShared)
<1>1. full \in Seq(ValidID) /\ Range(full) = Range(in.shared) \cup Range(in.local)
  BY FullOrders DEF CanReconcile
<1>2. /\ nextOrder \in Seq(ValidID) /\ IsInjective(nextOrder)
      /\ Range(nextOrder) = Range(nextShared)
  BY ReconcileOrder DEF ValidOrderedIDs, DistinctValid
<1>3. list = Retain(full, K)
  BY DEF Survivors
<1>4. Precedes(full, x, y) /\ x \in K /\ y \in K
  OBVIOUS
<1> HIDE DEF full, list
<1>5. /\ list \in Seq(ValidID) /\ Range(list) = Range(full) \cap K
      /\ Precedes(list, x, y)
  <2> HIDE DEF K
  <2> QED BY <1>1, <1>3, <1>4, RetainMembers
<1>6. Range(nextOrder) \cap Range(in.shared) \subseteq Range(list)
  BY <1>1, <1>2, <1>5
<1>7. Precedes(Place(list, nextOrder, Range(in.shared)), x, y)
  BY <1>2, <1>5, <1>6, PlaceMembers
<1>8. ReconcileRuleOrder(in, nextShared, nextOrder).personalOrder =
         Place(list, nextOrder, Range(in.shared))
  BY DEF ReconcileRuleOrder, Personalized, Candidate, ReconciledIDs, list
<1> QED BY <1>7, <1>8

\* A reset leaves the local rules where they are, and what stands between them
\* is the template order.
LEMMA ResetRestores ==
    ASSUME NEW in, CanReset(in), Range(in.local) # {}
    PROVE  LET order == ResetRuleOrder(in).personalOrder
           IN  /\ DOMAIN order = DOMAIN Full(in)
               /\ \A k \in DOMAIN order :
                     IF Full(in)[k] \in Range(in.local)
                     THEN order[k] = Full(in)[k]
                     ELSE order[k] \notin Range(in.local)
               /\ Retain(order, Range(in.shared)) = in.templateOrder
<1> DEFINE full == Full(in)
           T == in.templateOrder
           L == Range(in.local)
           ids == Refill(full, T, L)
<1>1. /\ full \in Seq(ValidID) /\ IsInjective(full)
      /\ T \in Seq(ValidID) /\ IsInjective(T)
      /\ Range(T) = Range(in.shared) /\ Range(T) \cap L = {}
      /\ Range(full) = Range(in.shared) \cup L
  BY DEF CanReset, Assembles, AssemblesAs, ValidMetadata, ValidOrderedIDs, DistinctValid
<1>2. ResetRuleOrder(in).personalOrder = ids
  BY DEF ResetRuleOrder, Personalized, Candidate
<1>3. /\ \A k \in DOMAIN full : full[k] \notin L => SharedUpTo(full, L, k) \in DOMAIN T
      /\ ids \in Seq(ValidID) /\ IsInjective(ids) /\ Range(ids) = Range(full)
      /\ \A x, y \in Range(T) : Precedes(ids, x, y) => Precedes(T, x, y)
  <2> HIDE DEF full, T, L
  <2> QED BY <1>1, SlotRefill
<1> HIDE DEF full, T, L
<1>4. /\ DOMAIN ids = DOMAIN full
      /\ \A k \in DOMAIN full :
            ids[k] = IF full[k] \in L THEN full[k] ELSE T[SharedUpTo(full, L, k)]
  BY DEF Refill
<1> HIDE DEF ids
<1>5. \A k \in DOMAIN full : full[k] \notin L => ids[k] \notin L
  BY <1>1, <1>3, <1>4 DEF Range
<1>6. Retain(ids, Range(T)) = T
  <2> DEFINE rest == Retain(ids, Range(T))
  <2>1. /\ rest \in Seq(ValidID) /\ IsInjective(rest)
        /\ Range(rest) = Range(ids) \cap Range(T)
        /\ \A x, y \in Range(T) : Precedes(ids, x, y) => Precedes(rest, x, y)
    BY <1>3, RetainMembers
  <2> HIDE DEF rest
  <2>2. Range(rest) = Range(T)
    BY <1>1, <1>3, <2>1
  <2>3. DOMAIN rest \subseteq Nat
    BY <2>1, LenProperties
  <2>4. ASSUME NEW x \in Range(rest), NEW y \in Range(rest), Precedes(rest, x, y)
        PROVE  Precedes(T, x, y)
    <3>1. x # y
      BY <2>1, <2>3, <2>4, OneWay
    <3>2. Precedes(ids, x, y) \/ Precedes(ids, y, x)
      BY <3>1, <1>1, <1>3, <2>2, EitherWay
    <3>3. ~Precedes(ids, y, x)
      BY <2>1, <2>2, <2>3, <2>4, OneWay
    <3> QED BY <3>2, <3>3, <1>3, <2>2
  <2>5. rest = T
    BY <1>1, <2>1, <2>2, <2>4, SameOrderSameList
  <2> QED BY <2>5 DEF rest
<1> QED BY <1>1, <1>2, <1>4, <1>5, <1>6 DEF full, T, L

-----------------------------------------------------------------------------
(* The inductive invariant *)

\* The first states are consistent.
LEMMA InitConsistent == Init => Consistent
<1> SUFFICES ASSUME Init PROVE Consistent
  OBVIOUS
<1>1. PICK offer \in TemplateOffers :
         /\ shared = offer[1] /\ templateOrder = offer[2]
         /\ DistinctValid(shared) /\ ValidOrderedIDs(templateOrder, Range(shared))
  BY DEF Init
<1>2. local = <<>> /\ personalOrder = Nil /\ exclusions = <<>>
  BY DEF Init
<1>3. shared \in Seq(ID) /\ templateOrder \in Seq(ID)
  BY <1>1, OffersAssumption
<1>4. <<>> \in Seq(ID) /\ DistinctValid(<<>>) /\ Range(<<>>) = {}
  BY EmptySeq DEF DistinctValid, IsInjective, Range
<1>5. TypeOK
  BY <1>2, <1>3, <1>4 DEF TypeOK, Snapshot, Snapshots
<1> QED
  BY <1>1, <1>2, <1>4, <1>5 DEF Consistent, OrderComplete, ExclusionNeverHidesLocal

\* What a call sees when the invariant holds.
LEMMA SnapshotFields ==
    /\ Snapshot.shared = shared
    /\ Snapshot.local = local
    /\ Snapshot.templateOrder = templateOrder
    /\ Snapshot.personalOrder = personalOrder
    /\ Snapshot.exclusions = exclusions
BY DEF Snapshot

\* What the type says of the draft, the intent and the answer.
LEMMA FieldsOfType ==
    ASSUME TypeOK
    PROVE  /\ shared \in Seq(ID) /\ local \in Seq(ID) /\ templateOrder \in Seq(ID)
           /\ personalOrder \in Seq(ID) \cup {Nil} /\ exclusions \in Seq(ID)
BY DEF TypeOK, Snapshot, Snapshots

\* A list without members is empty.
LEMMA NoMembers ==
    ASSUME NEW S, NEW s \in Seq(S), Range(s) = {}
    PROVE  s = <<>>
<1>1. Len(s) \in Nat /\ DOMAIN s = 1 .. Len(s) BY LenProperties
<1>2. Len(s) = 0
  <2> SUFFICES ASSUME Len(s) # 0 PROVE FALSE
    OBVIOUS
  <2>1. 1 \in DOMAIN s BY <1>1
  <2>2. s[1] \in Range(s) BY <2>1 DEF Range
  <2> QED BY <2>2
<1> QED BY <1>2, EmptySeq

\* Appending a new member keeps a list valid and adds that member alone.
LEMMA AppendNew ==
    ASSUME NEW s, DistinctValid(s), NEW e \in ValidID, e \notin Range(s)
    PROVE  /\ DistinctValid(Append(s, e))
           /\ Range(Append(s, e)) = Range(s) \cup {e}
<1>1. s \in Seq(ValidID) /\ IsInjective(s) /\ Len(s) \in Nat /\ DOMAIN s = 1 .. Len(s)
  BY LenProperties DEF DistinctValid
<1>2. /\ Append(s, e) \in Seq(ValidID) /\ Len(Append(s, e)) = Len(s) + 1
      /\ \A k \in 1 .. Len(s) : Append(s, e)[k] = s[k]
      /\ Append(s, e)[Len(s) + 1] = e
      /\ DOMAIN Append(s, e) = 1 .. Len(s) + 1
  BY <1>1
<1> DEFINE t == Append(s, e)
<1> HIDE DEF t
<1>3. IsInjective(t)
  <2> SUFFICES ASSUME NEW k \in 1 .. Len(s) + 1, NEW l \in 1 .. Len(s) + 1, t[k] = t[l]
               PROVE  k = l
    BY <1>2 DEF IsInjective, t
  <2>1. \A m \in 1 .. Len(s) : t[m] = s[m] /\ s[m] # e
    BY <1>1, <1>2 DEF t, Range
  <2>2. t[Len(s) + 1] = e
    BY <1>2 DEF t
  <2> QED BY <1>1, <2>1, <2>2 DEF IsInjective
<1>4. Range(t) = Range(s) \cup {e}
  BY <1>1, <1>2 DEF t, Range
<1> QED BY <1>2, <1>3, <1>4 DEF t, DistinctValid

\* Every step keeps the invariant.
LEMMA NextConsistent == Consistent /\ [Next]_vars => Consistent'
<1> SUFFICES ASSUME Consistent, [Next]_vars PROVE Consistent'
  OBVIOUS
<1> USE SnapshotFields, ValidListsAreLists
<1>0. /\ shared \in Seq(ID) /\ local \in Seq(ID) /\ templateOrder \in Seq(ID)
      /\ personalOrder \in Seq(ID) \cup {Nil} /\ exclusions \in Seq(ID)
  BY FieldsOfType DEF Consistent
<1>1. ASSUME NEW id \in ID, NEW index \in 0 .. Len(Full(Snapshot)), InsertLocal(id, index)
      PROVE  Consistent'
  <2>1. CanInsertLocal(Snapshot, id, index)
    BY <1>1 DEF InsertLocal
  <2>2. ValidOrderedIDs(personalOrder', Range(shared) \cup Range(local) \cup {id})
    BY <1>1, <2>1, InsertLocalOrder DEF InsertLocal
  <2>3. /\ id \in ValidID
        /\ Range(exclusions) \subseteq Range(shared)
        /\ id \notin Range(shared) \cup Range(local)
    BY <2>1 DEF CanInsertLocal, Assembles, AssemblesAs, ValidMetadata, ValidOrderedIDs
  <2>4. DistinctValid(local') /\ Range(local') = Range(local) \cup {id}
    BY <1>1, <2>3, AppendNew DEF Consistent, InsertLocal
  <2>5. UNCHANGED <<shared, templateOrder, exclusions>>
    BY <1>1 DEF InsertLocal
  <2>6. personalOrder' \in Seq(ID) /\ personalOrder' # Nil /\ local' \in Seq(ID)
    BY <2>2, <2>4, NilAssumption DEF ValidOrderedIDs, DistinctValid
  <2>7. TypeOK'
    BY <1>0, <2>5, <2>6 DEF TypeOK, Snapshot, Snapshots
  <2>8. OrderComplete'
    BY <2>2, <2>4, <2>5, <2>6 DEF OrderComplete, ValidOrderedIDs
  <2> QED
    BY <2>3, <2>4, <2>5, <2>7, <2>8 DEF Consistent, ExclusionNeverHidesLocal
<1>2. ASSUME NEW id \in ID, NEW index \in 0 .. Len(Full(Snapshot)), Move(id, index)
      PROVE  Consistent'
  <2>1. CanMove(Snapshot, id, index)
    BY <1>2 DEF Move
  <2>2. ValidOrderedIDs(personalOrder', Range(shared) \cup Range(local))
    BY <1>2, <2>1, MoveOrder DEF Move
  <2>3. UNCHANGED <<shared, local, templateOrder, exclusions>>
    BY <1>2 DEF Move
  <2>4. personalOrder' \in Seq(ID) /\ personalOrder' # Nil
    BY <2>2, NilAssumption DEF ValidOrderedIDs, DistinctValid
  <2>5. TypeOK'
    BY <1>0, <2>3, <2>4 DEF TypeOK, Snapshot, Snapshots
  <2> QED
    BY <2>2, <2>3, <2>4, <2>5 DEF Consistent, OrderComplete, ExclusionNeverHidesLocal
<1>3. ASSUME Reset PROVE Consistent'
  <2>1. CanReset(Snapshot)
    BY <1>3 DEF Reset
  <2>2. IF Range(local) = {} THEN personalOrder' = Nil
        ELSE ValidOrderedIDs(personalOrder', Range(shared) \cup Range(local))
    BY <1>3, <2>1, ResetOrder DEF Reset
  <2>3. UNCHANGED <<shared, local, templateOrder, exclusions>>
    BY <1>3 DEF Reset
  <2>4. Range(local) = {} => local = <<>>
    BY <1>0, NoMembers
  <2>5. CASE Range(local) = {}
    <3>1. TypeOK'
      BY <1>0, <2>2, <2>3, <2>5 DEF TypeOK, Snapshot, Snapshots
    <3> QED BY <2>2, <2>3, <2>4, <2>5, <3>1
       DEF Consistent, OrderComplete, ExclusionNeverHidesLocal
  <2>6. CASE Range(local) # {}
    <3>1. personalOrder' \in Seq(ID) /\ personalOrder' # Nil
      BY <2>2, <2>6, NilAssumption DEF ValidOrderedIDs, DistinctValid
    <3>2. TypeOK'
      BY <1>0, <2>3, <3>1 DEF TypeOK, Snapshot, Snapshots
    <3> QED
      BY <2>2, <2>3, <2>6, <3>1, <3>2
         DEF Consistent, OrderComplete, ExclusionNeverHidesLocal
  <2> QED BY <2>5, <2>6
<1>4. ASSUME NEW offer \in TemplateOffers, Reconcile(offer[1], offer[2])
      PROVE  Consistent'
  <2>1. CanReconcile(Snapshot, offer[1], offer[2])
    BY <1>4 DEF Reconcile
  <2>2. /\ shared' = offer[1] /\ templateOrder' = offer[2]
        /\ UNCHANGED <<local, exclusions>>
    BY <1>4 DEF Reconcile
  <2>3. /\ DistinctValid(shared') /\ ValidOrderedIDs(templateOrder', Range(shared'))
        /\ personalOrder = Nil => personalOrder' = Nil
        /\ personalOrder # Nil =>
              /\ Range(shared') \cap Range(local) = {}
              /\ ValidOrderedIDs(personalOrder', Range(shared') \cup Range(local))
    BY <1>4, <2>1, <2>2, ReconcileOrder DEF Reconcile
  <2>4. shared' \in Seq(ID) /\ templateOrder' \in Seq(ID)
    BY <2>2, OffersAssumption
  <2>5. CASE personalOrder = Nil
    <3>1. local = <<>> /\ Range(local) = {} /\ personalOrder' = Nil
      BY <2>3, <2>5 DEF Consistent, OrderComplete, Range
    <3>2. TypeOK'
      BY <1>0, <2>2, <2>4, <3>1 DEF TypeOK, Snapshot, Snapshots
    <3> QED
      BY <2>2, <2>3, <3>1, <3>2
         DEF Consistent, OrderComplete, ExclusionNeverHidesLocal
  <2>6. CASE personalOrder # Nil
    <3>1. personalOrder' \in Seq(ID) /\ personalOrder' # Nil
      BY <2>3, <2>6, NilAssumption DEF ValidOrderedIDs, DistinctValid
    <3>2. TypeOK'
      BY <1>0, <2>2, <2>4, <3>1 DEF TypeOK, Snapshot, Snapshots
    <3> QED
      BY <2>2, <2>3, <2>6, <3>1, <3>2
         DEF Consistent, OrderComplete, ExclusionNeverHidesLocal
  <2> QED BY <2>5, <2>6
<1>5. ASSUME NEW id \in ID, Exclude(id) PROVE Consistent'
  <2>1. /\ exclusions' = Append(exclusions, id)
        /\ UNCHANGED <<shared, local, templateOrder, personalOrder>>
    BY <1>5 DEF Exclude
  <2>2. DistinctValid(exclusions') /\ Range(exclusions') \subseteq Range(shared)
    BY <1>5, <2>1 DEF Exclude, ValidMetadata
  <2>3. exclusions' \in Seq(ID)
    BY <2>2 DEF DistinctValid
  <2>4. TypeOK'
    BY <1>0, <2>1, <2>3 DEF TypeOK, Snapshot, Snapshots
  <2> QED
    BY <2>1, <2>2, <2>4 DEF Consistent, OrderComplete, ExclusionNeverHidesLocal
<1>6. ASSUME NEW k \in DOMAIN exclusions, DropExclusion(k) PROVE Consistent'
  <2>1. /\ exclusions' = RemoveAt(exclusions, k)
        /\ UNCHANGED <<shared, local, templateOrder, personalOrder>>
    BY <1>6 DEF DropExclusion
  <2>2. exclusions \in Seq(ValidID) /\ IsInjective(exclusions) /\ k \in 1 .. Len(exclusions)
    BY LenProperties DEF Consistent, DistinctValid
  <2>3. DistinctValid(exclusions') /\ Range(exclusions') \subseteq Range(exclusions)
    BY <2>1, <2>2, RemoveAtPositions, RemoveAtMembers DEF DistinctValid
  <2>4. exclusions' \in Seq(ID)
    BY <2>3 DEF DistinctValid
  <2>5. TypeOK'
    BY <1>0, <2>1, <2>4 DEF TypeOK, Snapshot, Snapshots
  <2> QED
    BY <2>1, <2>3, <2>5 DEF Consistent, OrderComplete, ExclusionNeverHidesLocal
<1>7. CASE UNCHANGED vars
  <2>1. TypeOK'
    BY <1>0, <1>7 DEF vars, TypeOK, Snapshot, Snapshots
  <2> QED
    BY <1>7, <2>1 DEF vars, Consistent, OrderComplete, ExclusionNeverHidesLocal
<1> QED BY <1>1, <1>2, <1>3, <1>4, <1>5, <1>6, <1>7 DEF Next

\* Every reachable snapshot satisfies the inductive invariant.
LEMMA AlwaysConsistent == Spec => []Consistent
<1>1. Init => Consistent BY InitConsistent
<1>2. Consistent /\ [Next]_vars => Consistent' BY NextConsistent
<1> QED BY <1>1, <1>2, PTL DEF Spec

\* While the invariant holds the full order has no duplicates.
LEMMA OrdersOfInvariant ==
    /\ Consistent => FullNow \in Seq(ValidID) /\ IsInjective(FullNow)
    /\ Consistent' => FullNow' \in Seq(ValidID) /\ IsInjective(FullNow')
<1>1. Consistent => FullNow \in Seq(ValidID) /\ IsInjective(FullNow)
  BY DEF Consistent, OrderComplete, ValidOrderedIDs, DistinctValid, FullNow, Full, Snapshot
<1>2. Consistent' => FullNow' \in Seq(ValidID) /\ IsInjective(FullNow')
  BY DEF Consistent, OrderComplete, ValidOrderedIDs, DistinctValid, FullNow, Full, Snapshot
<1> QED BY <1>1, <1>2

-----------------------------------------------------------------------------
(* Theorems *)

\* The snapshot a router keeps is always well formed.
THEOREM TypeCorrect == Spec => []TypeOK
<1>1. Consistent => TypeOK BY DEF Consistent
<1> QED BY <1>1, AlwaysConsistent, PTL

\* No sequence of insertions, moves, resets and template updates loses,
\* duplicates or invents a rule of the stored order.
THEOREM OrderStaysComplete == Spec => []OrderComplete
<1>1. Consistent => OrderComplete BY DEF Consistent
<1> QED BY <1>1, AlwaysConsistent, PTL

\* An exclusion record never comes to hide a local rule.
THEOREM LocalRulesStayVisible == Spec => []ExclusionNeverHidesLocal
<1>1. Consistent => ExclusionNeverHidesLocal BY DEF Consistent
<1> QED BY <1>1, AlwaysConsistent, PTL

\* The next call is refused for one reason only, a dangling exclusion.
THEOREM OnlyDanglingBlocks == Spec => []AssemblesUnlessDangling
<1>1. Consistent => AssemblesUnlessDangling
  <2> SUFFICES ASSUME Consistent PROVE Assembles(Snapshot) <=> ~Dangling
    BY DEF AssemblesUnlessDangling
  <2>1. Assembles(Snapshot) => ~Dangling
    BY SnapshotFields DEF Assembles, AssemblesAs, ValidMetadata, Dangling
  <2>2. ASSUME ~Dangling PROVE Assembles(Snapshot)
    <3>1. ValidMetadata(Snapshot)
      BY <2>2, SnapshotFields DEF Consistent, ValidMetadata, Dangling
    <3>2. ValidOrderedIDs(Full(Snapshot), Range(shared) \cup Range(local))
      <4>1. CASE personalOrder = Nil
        <5>1. Range(local) = {}
          BY <4>1 DEF Consistent, OrderComplete, Range
        <5> QED BY <4>1, <5>1, SnapshotFields DEF Consistent, Full
      <4>2. CASE personalOrder # Nil
        BY <4>2, SnapshotFields DEF Consistent, OrderComplete, Full
      <4> QED BY <4>1, <4>2
    <3> QED BY <3>1, <3>2, SnapshotFields DEF Consistent, Assembles, AssemblesAs
  <2> QED BY <2>1, <2>2
<1> QED BY <1>1, AlwaysConsistent, PTL

\* While an exclusion dangles, the order, the local rules and the template
\* snapshot cannot change.
THEOREM DanglingFreezes == Spec => FrozenWhileDangling
<1> DEFINE Frozen == Dangling => UNCHANGED <<shared, local, templateOrder, personalOrder>>
<1>1. [Next]_vars => [Frozen]_vars
  <2> SUFFICES ASSUME Next, Dangling
               PROVE  UNCHANGED <<shared, local, templateOrder, personalOrder>>
    BY DEF Frozen
  <2>1. ~Assembles(Snapshot)
    BY SnapshotFields DEF Assembles, AssemblesAs, ValidMetadata, Dangling
  <2> QED
    BY <2>1 DEF Next, InsertLocal, Move, Reset, Reconcile, Exclude, DropExclusion,
                CanInsertLocal, CanMove, CanReset, CanReconcile
<1> QED BY <1>1, PTL DEF Spec, FrozenWhileDangling, Frozen

\* A router with an order of its own follows its template again only through
\* a reset while it has no local rules.
THEOREM OnlyResetFollows == Spec => PersonalUntilReset
<1> DEFINE Follows == personalOrder # Nil /\ personalOrder' = Nil => Reset /\ local = <<>>
<1>1. Consistent /\ [Next]_vars => [Follows]_vars
  <2> SUFFICES ASSUME Consistent, Next, personalOrder # Nil, personalOrder' = Nil
               PROVE  Reset /\ local = <<>>
    BY DEF Follows
  <2>1. ASSUME NEW S PROVE ~ValidOrderedIDs(personalOrder', S)
    BY ValidListsAreLists, NilAssumption DEF ValidOrderedIDs, DistinctValid
  <2>2. ASSUME NEW id, NEW index, InsertLocal(id, index) PROVE FALSE
    <3>1. CanInsertLocal(Snapshot, id, index)
      BY <2>2 DEF InsertLocal
    <3>2. ValidOrderedIDs(InsertLocalRule(Snapshot, id, index).personalOrder,
                          Range(Snapshot.shared) \cup Range(Snapshot.local) \cup {id})
      BY <3>1, InsertLocalOrder
    <3>3. personalOrder' = InsertLocalRule(Snapshot, id, index).personalOrder
      BY <2>2 DEF InsertLocal
    <3> QED BY <2>1, <3>2, <3>3
  <2>3. ASSUME NEW id, NEW index, Move(id, index) PROVE FALSE
    <3>1. CanMove(Snapshot, id, index)
      BY <2>3 DEF Move
    <3>2. ValidOrderedIDs(MoveRule(Snapshot, id, index).personalOrder,
                          Range(Snapshot.shared) \cup Range(Snapshot.local))
      BY <3>1, MoveOrder
    <3>3. personalOrder' = MoveRule(Snapshot, id, index).personalOrder
      BY <2>3 DEF Move
    <3> QED BY <2>1, <3>2, <3>3
  <2>4. ASSUME NEW offer, Reconcile(offer[1], offer[2]) PROVE FALSE
    <3>1. CanReconcile(Snapshot, offer[1], offer[2])
      BY <2>4 DEF Reconcile
    <3>2. ValidOrderedIDs(personalOrder', Range(offer[1]) \cup Range(local))
      BY <2>4, <3>1, SnapshotFields, ReconcileOrder DEF Reconcile
    <3> QED BY <2>1, <3>2
  <2>5. ASSUME Reset PROVE local = <<>>
    <3>1. Range(local) = {}
      BY <2>1, <2>5, SnapshotFields, ResetOrder DEF Reset
    <3> QED
      BY <3>1, NoMembers DEF Consistent, DistinctValid
  <2>6. ~(\E id \in ID : Exclude(id)) /\ ~(\E k \in DOMAIN exclusions : DropExclusion(k))
    BY DEF Exclude, DropExclusion
  <2> QED BY <2>2, <2>3, <2>4, <2>5, <2>6 DEF Next
<1> QED BY <1>1, AlwaysConsistent, PTL DEF Spec, PersonalUntilReset, Follows

\* The visible order has exactly the rules that were selected: none is missing
\* from the configuration and none is looked up in vain.
THEOREM VisibleRulesAreSelected == Spec => []SelectionIsVisible
<1>1. Consistent => SelectionIsVisible
  <2> SUFFICES ASSUME Consistent, Assembles(Snapshot)
               PROVE  Range(Visible(Snapshot)) = Selected(Snapshot)
    BY DEF SelectionIsVisible
  <2> DEFINE full == Full(Snapshot)
  <2>1. full \in Seq(ValidID) /\ Range(full) = Range(shared) \cup Range(local)
    BY FullOrders, SnapshotFields
  <2>2. Visible(Snapshot) = Retain(full, ID \ Range(exclusions))
    BY SnapshotFields DEF Visible
  <2> HIDE DEF full
  <2>3. Range(Visible(Snapshot)) = Range(full) \cap (ID \ Range(exclusions))
    BY <2>1, <2>2, RetainMembers
  <2>4. Range(full) \subseteq ID
    BY <2>1, ElementOfSeq, ValidIDAssumption DEF Range
  <2>5. Range(exclusions) \cap Range(local) = {}
    BY DEF Consistent, ExclusionNeverHidesLocal
  <2> QED BY <2>1, <2>3, <2>4, <2>5, SnapshotFields DEF Selected
<1> QED BY <1>1, AlwaysConsistent, PTL

\* A reset keeps the local rules in their slots and restores the template order
\* between them, completely.
THEOREM ResetIsTemplateOrder == Spec => ResetRestoresTemplate
<1> DEFINE Restores ==
       Reset => /\ \A k \in DOMAIN FullNow :
                      FullNow[k] \in Range(local) => FullNow'[k] = FullNow[k]
                /\ Retain(FullNow', Range(shared)) = templateOrder
<1>1. Consistent /\ [Next]_vars => [Restores]_vars
  <2> SUFFICES ASSUME Consistent, Reset
               PROVE  /\ \A k \in DOMAIN FullNow :
                            FullNow[k] \in Range(local) => FullNow'[k] = FullNow[k]
                      /\ Retain(FullNow', Range(shared)) = templateOrder
    BY DEF Restores
  <2>1. /\ CanReset(Snapshot)
        /\ personalOrder' = ResetRuleOrder(Snapshot).personalOrder
        /\ UNCHANGED <<shared, local, templateOrder, exclusions>>
    BY DEF Reset
  <2>2. FullNow' = IF personalOrder' = Nil THEN templateOrder ELSE personalOrder'
    BY <2>1 DEF FullNow, Full, Snapshot
  <2>3. CASE Range(local) = {}
    <3>1. personalOrder' = Nil
      BY <2>1, <2>3, SnapshotFields, ResetOrder
    <3>2. /\ templateOrder \in Seq(ValidID) /\ IsInjective(templateOrder)
          /\ Range(templateOrder) = Range(shared)
      BY DEF Consistent, ValidOrderedIDs, DistinctValid
    <3>3. Retain(templateOrder, Range(shared)) = templateOrder
      BY <3>2, RetainAll
    <3> QED BY <2>2, <2>3, <3>1, <3>3
  <2>4. CASE Range(local) # {}
    <3> DEFINE order == ResetRuleOrder(Snapshot).personalOrder
    <3>1. order \in Seq(ID) /\ order # Nil
      BY <2>1, <2>4, SnapshotFields, ResetOrder, ValidListsAreLists, NilAssumption
         DEF ValidOrderedIDs, DistinctValid
    <3>2. /\ DOMAIN order = DOMAIN FullNow
          /\ \A k \in DOMAIN order :
                IF FullNow[k] \in Range(local)
                THEN order[k] = FullNow[k] ELSE order[k] \notin Range(local)
          /\ Retain(order, Range(shared)) = templateOrder
      BY <2>1, <2>4, SnapshotFields, ResetRestores DEF FullNow
    <3> HIDE DEF order
    <3>3. FullNow' = order
      BY <2>1, <2>2, <3>1 DEF order
    <3> QED BY <3>2, <3>3
  <2> QED BY <2>3, <2>4
<1> QED BY <1>1, AlwaysConsistent, PTL DEF Spec, ResetRestoresTemplate, Restores

\* No call makes two rules swap places but the move of one of them, a reset (of
\* rules that are not both local), or a template change on a router that
\* follows its template.
THEOREM OrderFollowsIntent == Spec => SwapsOnlyByIntent
<1> DEFINE Intended(x, y) ==
             \/ \E i \in 0..Len(FullNow) : Move(x, i) \/ Move(y, i)
             \/ Reset /\ ~ {x, y} \subseteq Range(local)
             \/ personalOrder = Nil /\ TemplateChanges
           Swaps(x, y) == Precedes(FullNow, x, y) /\ Precedes(FullNow', y, x)
           Orderly == \A x, y \in Range(FullNow) \cap Range(FullNow') :
                         Swaps(x, y) => Intended(x, y)
<1>1. Consistent /\ [Next]_vars => [Orderly]_vars
  <2> SUFFICES ASSUME Consistent, Consistent', Next,
                      NEW x \in Range(FullNow) \cap Range(FullNow'),
                      NEW y \in Range(FullNow) \cap Range(FullNow'),
                      Precedes(FullNow, x, y), Precedes(FullNow', y, x), ~Intended(x, y)
               PROVE  FALSE
    <3> HIDE DEF Intended
    <3> QED BY NextConsistent
  <2>0. FullNow = Full(Snapshot) /\ FullNow' = Full(Snapshot)'
    BY DEF FullNow
  <2>1. IsInjective(FullNow') /\ DOMAIN FullNow' \subseteq Nat
    BY OrdersOfInvariant, LenProperties
  <2>2. ~Precedes(FullNow', x, y)
    BY <2>1, OneWay
  <2>3. FullNow' # FullNow
    BY <2>2
  <2>4. ASSUME NEW id \in ID, NEW index \in 0 .. Len(Full(Snapshot)), InsertLocal(id, index)
        PROVE  FALSE
    <3>1. /\ CanInsertLocal(Snapshot, id, index)
          /\ personalOrder' = InsertLocalRule(Snapshot, id, index).personalOrder
      BY <2>4 DEF InsertLocal
    <3>2. Precedes(personalOrder', x, y)
      BY <2>0, <3>1, InsertLocalKeepsOrder
    <3>3. personalOrder' # Nil
      BY <3>1, InsertLocalOrder, OrderIsNotNil
    <3> QED BY <2>2, <3>2, <3>3 DEF FullNow, Full, Snapshot
  <2>5. ASSUME NEW id \in ID, NEW index \in 0 .. Len(Full(Snapshot)), Move(id, index)
        PROVE  FALSE
    <3>1. /\ CanMove(Snapshot, id, index)
          /\ personalOrder' = MoveRule(Snapshot, id, index).personalOrder
      BY <2>5 DEF Move
    <3>2. x # id /\ y # id
      BY <2>0, <2>5
    <3>3. Precedes(personalOrder', x, y)
      BY <2>0, <3>1, <3>2, MoveKeepsOrder
    <3>4. personalOrder' # Nil
      BY <3>1, MoveOrder, OrderIsNotNil
    <3> QED BY <2>2, <3>3, <3>4 DEF FullNow, Full, Snapshot
  <2>6. ASSUME Reset PROVE FALSE
    <3> DEFINE order == ResetRuleOrder(Snapshot).personalOrder
    <3>1. CanReset(Snapshot) /\ personalOrder' = order
      BY <2>6 DEF Reset
    <3>2. x \in Range(local) /\ y \in Range(local)
      BY <2>6
    <3>3. /\ DOMAIN order = DOMAIN FullNow
          /\ \A k \in DOMAIN order :
                IF FullNow[k] \in Range(local)
                THEN order[k] = FullNow[k] ELSE order[k] \notin Range(local)
      BY <3>1, <3>2, SnapshotFields, ResetRestores DEF FullNow
    <3>4. personalOrder' # Nil
      BY <3>1, <3>2, SnapshotFields, ResetOrder, OrderIsNotNil
    <3> HIDE DEF order
    <3>5. FullNow' = order
      BY <3>1, <3>4 DEF FullNow, Full, Snapshot
    <3>6. Precedes(FullNow', x, y)
      BY <3>2, <3>3, <3>5 DEF Precedes
    <3> QED BY <2>2, <3>6
  <2>7. ASSUME NEW offer \in TemplateOffers, Reconcile(offer[1], offer[2]) PROVE FALSE
    <3> DEFINE order == ReconcileRuleOrder(Snapshot, offer[1], offer[2]).personalOrder
    <3>1. /\ CanReconcile(Snapshot, offer[1], offer[2])
          /\ shared' = offer[1] /\ templateOrder' = offer[2] /\ local' = local
          /\ personalOrder' = order
      BY <2>7 DEF Reconcile
    <3>2. CASE personalOrder = Nil
      <4>1. personalOrder' = Nil
        BY <3>1, <3>2, SnapshotFields, ReconcileOrder
      <4>2. templateOrder' # templateOrder
        BY <2>3, <3>2, <4>1 DEF FullNow, Full, Snapshot
      <4> QED BY <3>2, <4>2 DEF TemplateChanges
    <3>3. CASE personalOrder # Nil
      <4>1. /\ personalOrder' # Nil
            /\ Range(personalOrder') = Range(offer[1]) \cup Range(local)
        BY <3>1, <3>3, SnapshotFields, ReconcileOrder, OrderIsNotNil DEF ValidOrderedIDs
      <4>2. FullNow' = personalOrder'
        BY <4>1 DEF FullNow, Full, Snapshot
      <4>3. {x, y} \subseteq Range(local) \cup Range(offer[1])
        BY <4>1, <4>2
      <4>4. Precedes(personalOrder', x, y)
        BY <2>0, <3>1, <3>3, <4>3, SnapshotFields, ReconcileKeepsOrder
      <4> QED BY <2>2, <4>2, <4>4
    <3> QED BY <3>2, <3>3
  <2>8. ASSUME NEW id \in ID, Exclude(id) PROVE FALSE
    BY <2>3, <2>8 DEF Exclude, FullNow, Full, Snapshot
  <2>9. ASSUME NEW k \in DOMAIN exclusions, DropExclusion(k) PROVE FALSE
    BY <2>3, <2>9 DEF DropExclusion, FullNow, Full, Snapshot
  <2> QED BY <2>4, <2>5, <2>6, <2>7, <2>8, <2>9 DEF Next
<1> QED BY <1>1, AlwaysConsistent, PTL
     DEF Spec, SwapsOnlyByIntent, Orderly, Swaps, Intended
=============================================================================
