------------------------- MODULE ReconcileLoopProofs -------------------------
(***************************************************************************)
(* ReconcileRuleOrder for every input: the insertions stay within the      *)
(* list, new rules end up at their template index, surviving rules keep    *)
(* their relative order, and only a UUID collision is refused.             *)
(***************************************************************************)
EXTENDS ReconcileLoop, EditLemmas

\* What the early returns of the call have established.
Inputs ==
    /\ Assembles(in)
    /\ Assembles(NextTemplate(nextShared, nextOrder))

\* The rules of the old order that outlive the update.
Kept == {id \in Range(Full(in)) : Outlives(id)}

FilterInv ==
    pc = "filter" =>
        /\ pos <= Len(Full(in)) + 1
        /\ \A x : x \in Range(ids) <=>
              \E k \in 1 .. pos - 1 : Full(in)[k] = x /\ Outlives(x)
        /\ IsInjective(ids)
        /\ \A k, l \in 1 .. pos - 1 :
              (k < l /\ Outlives(Full(in)[k]) /\ Outlives(Full(in)[l])) =>
                  Precedes(ids, Full(in)[k], Full(in)[l])

\* During the insertions the list has every kept rule and every rule of the
\* next template up to pos: this is why the list is long enough.
InsertInv ==
    pc # "filter" =>
        /\ pos <= Len(nextOrder) + 1
        /\ pc # "insert" => pos = Len(nextOrder) + 1
        /\ \A x : x \in Range(ids) <=>
              x \in Kept \/ \E k \in 1 .. pos - 1 : nextOrder[k] = x
        /\ Range(nextOrder) \cap Range(in.local) = {} => IsInjective(ids)

\* The list is what the fold of RuleOrder has after as many turns.
FoldInv ==
    /\ pc = "filter" =>
          \E kept : /\ RetainLoop(Full(in), Range(in.local) \cup Range(nextShared), kept)
                    /\ ids = kept[pos - 1]
    /\ pc # "filter" =>
          \E placed : /\ PlaceLoop(Survivors(in, nextShared), nextOrder,
                                   Range(in.shared), placed)
                      /\ ids = placed[pos - 1]

IInv ==
    /\ TypeOK
    /\ ids \in Seq(ValidID)
    /\ Inputs
    /\ FilterInv
    /\ InsertInv
    /\ PlacedAtTemplateIndex
    /\ SurvivorsKeepOrder
    /\ RefusedIffCollision

-----------------------------------------------------------------------------
(* Facts about the arguments *)

\* The lists the call is made with are free of repetitions.
LEMMA ArgumentLists ==
    ASSUME Inputs
    PROVE  /\ Full(in) \in Seq(ValidID) /\ IsInjective(Full(in))
           /\ Range(Full(in)) = Range(in.shared) \cup Range(in.local)
           /\ Range(in.shared) \cap Range(in.local) = {}
           /\ DistinctValid(in.local)
           /\ DistinctValid(nextShared)
           /\ nextOrder \in Seq(ValidID) /\ IsInjective(nextOrder)
           /\ Range(nextOrder) = Range(nextShared)
BY DEF Inputs, Assembles, AssemblesAs, ValidMetadata, ValidOrderedIDs,
       DistinctValid, NextTemplate

\* The kept rules are the local ones and the shared ones of the next template.
LEMMA KeptRules ==
    ASSUME Inputs
    PROVE  /\ \A x : x \in Kept <=> \/ x \in Range(in.local)
                                    \/ x \in Range(in.shared) /\ x \in Range(nextOrder)
BY ArgumentLists DEF Kept, Outlives

-----------------------------------------------------------------------------
(* The invariant gives the bound *)

\* No insertion index lies past the end while the invariant holds.
LEMMA BoundFromInvariant == IInv => InsertInBounds
<1> SUFFICES ASSUME IInv, pc = "insert", pos <= Len(nextOrder)
             PROVE  pos <= Len(ids) + 1
  BY DEF InsertInBounds
<1>1. nextOrder \in Seq(ValidID) /\ IsInjective(nextOrder) /\ ids \in Seq(ValidID)
  BY ArgumentLists DEF IInv
<1>2. pos \in 1 .. Len(nextOrder) + 1
  BY <1>1, LenProperties DEF IInv, TypeOK
<1>3. \A k \in 1 .. pos - 1 : nextOrder[k] \in Range(ids)
  BY DEF IInv, InsertInv
<1> QED BY <1>1, <1>2, <1>3, EnoughEntries

-----------------------------------------------------------------------------
(* The inductive invariant *)

\* At the call nothing is filtered and nothing is inserted.
LEMMA InitInv == Init => IInv
<1> SUFFICES ASSUME Init PROVE IInv
  OBVIOUS
<1>1. PICK call \in Calls : in = call[1] /\ nextShared = call[2] /\ nextOrder = call[3]
  BY DEF Init
<1>2. in \in Snapshots /\ nextShared \in Seq(ID) /\ nextOrder \in Seq(ID)
  BY <1>1, CallsAssumption
<1>3. ids = <<>> /\ pos = 1 /\ pc = "filter" /\ Inputs
  BY DEF Init, Inputs
<1>4. <<>> \in Seq(ValidID) /\ <<>> \in Seq(ID) /\ Range(<<>>) = {} /\ IsInjective(<<>>)
  BY EmptySeq DEF Range, IsInjective
<1>5. Len(Full(in)) \in Nat
  BY <1>3, ArgumentLists, LenProperties
<1>6. FilterInv
  BY <1>3, <1>4, <1>5 DEF FilterInv
<1> QED
  BY <1>2, <1>3, <1>4, <1>6
     DEF IInv, TypeOK, InsertInv, PlacedAtTemplateIndex, SurvivorsKeepOrder, RefusedIffCollision

\* One turn of the filter loop.
LEMMA FilterStep == IInv /\ Filter => IInv'
<1> SUFFICES ASSUME IInv, Filter PROVE IInv'
  OBVIOUS
<1> DEFINE full == Full(in)
           e == full[pos]
<1>1. /\ pc = "filter" /\ pc' = "filter" /\ pos' = pos + 1 /\ pos <= Len(full)
      /\ in' = in /\ nextShared' = nextShared /\ nextOrder' = nextOrder
  BY DEF Filter, args
<1>2. /\ full \in Seq(ValidID) /\ IsInjective(full) /\ full' = full
      /\ Len(full) \in Nat /\ DOMAIN full = 1 .. Len(full)
      /\ pos \in 1 .. Len(full) /\ e \in ValidID /\ pos \in Nat
  BY <1>1, ArgumentLists, LenProperties, ElementOfSeq DEF IInv, TypeOK, Full
<1>3. \A x : Outlives(x)' <=> Outlives(x)
  BY <1>1 DEF Outlives
<1>4. ids' = IF Outlives(e) THEN Append(ids, e) ELSE ids
  BY DEF Filter
<1>5. /\ ids \in Seq(ValidID) /\ IsInjective(ids)
      /\ \A x : x \in Range(ids) <=> \E k \in 1 .. pos - 1 : full[k] = x /\ Outlives(x)
      /\ \A k, l \in 1 .. pos - 1 :
            (k < l /\ Outlives(full[k]) /\ Outlives(full[l])) => Precedes(ids, full[k], full[l])
  BY <1>1 DEF IInv, FilterInv
<1>6. e \notin Range(ids)
  BY <1>2, <1>5 DEF IsInjective
<1>7. /\ ids' \in Seq(ValidID) /\ IsInjective(ids')
      /\ Range(ids') = IF Outlives(e) THEN Range(ids) \cup {e} ELSE Range(ids)
      /\ \A x, y : Precedes(ids, x, y) => Precedes(ids', x, y)
      /\ Outlives(e) => \A x \in Range(ids) : Precedes(ids', x, e)
  <2> HIDE DEF full, e
  <2>1. CASE Outlives(e)
    BY <2>1, <1>2, <1>4, <1>5, <1>6, AppendKeepsOrder, AppendPositions
  <2>2. CASE ~Outlives(e)
    BY <2>2, <1>4, <1>5
  <2> QED BY <2>1, <2>2
<1> HIDE DEF full
<1>8. \A x : x \in Range(ids') <=> \E k \in 1 .. pos : full[k] = x /\ Outlives(x)
  <2> SUFFICES ASSUME NEW x
               PROVE  x \in Range(ids') <=> \E k \in 1 .. pos : full[k] = x /\ Outlives(x)
    OBVIOUS
  <2>1. (\E k \in 1 .. pos : full[k] = x /\ Outlives(x)) <=>
           \/ \E k \in 1 .. pos - 1 : full[k] = x /\ Outlives(x)
           \/ e = x /\ Outlives(x)
    <3>1. 1 .. pos = (1 .. pos - 1) \cup {pos} BY <1>2
    <3> QED BY <3>1
  <2> QED BY <2>1, <1>5, <1>7
<1>9. \A k, l \in 1 .. pos :
         (k < l /\ Outlives(full[k]) /\ Outlives(full[l])) => Precedes(ids', full[k], full[l])
  <2> SUFFICES ASSUME NEW k \in 1 .. pos, NEW l \in 1 .. pos,
                      k < l, Outlives(full[k]), Outlives(full[l])
               PROVE  Precedes(ids', full[k], full[l])
    OBVIOUS
  <2>1. k \in 1 .. pos - 1 BY <1>2
  <2>2. CASE l = pos
    <3>1. full[k] \in Range(ids) BY <2>1, <1>5
    <3> QED BY <2>2, <3>1, <1>7
  <2>3. CASE l # pos
    <3>1. l \in 1 .. pos - 1 BY <2>3, <1>2
    <3> QED BY <2>1, <3>1, <1>5, <1>7
  <2> QED BY <2>2, <2>3
<1>10. FilterInv'
  <2>1. pos' - 1 = pos /\ pos' <= Len(full) + 1 BY <1>1, <1>2
  <2> QED BY <2>1, <1>1, <1>2, <1>3, <1>7, <1>8, <1>9 DEF FilterInv, full
<1>11. TypeOK'
  BY <1>1, <1>2, <1>7, ValidIDAssumption, SeqMonotonic DEF IInv, TypeOK
<1>12. Inputs'
  BY <1>1 DEF IInv, Inputs
<1> QED
  BY <1>1, <1>7, <1>10, <1>11, <1>12
     DEF IInv, InsertInv, PlacedAtTemplateIndex, SurvivorsKeepOrder, RefusedIffCollision

\* The insertion starts from the survivors of the filter.
LEMMA EndFilterStep == IInv /\ EndFilter => IInv'
<1> SUFFICES ASSUME IInv, EndFilter PROVE IInv'
  OBVIOUS
<1>1. /\ pc = "filter" /\ pc' = "insert" /\ pos > Len(Full(in)) /\ pos' = 1
      /\ in' = in /\ nextShared' = nextShared /\ nextOrder' = nextOrder /\ ids' = ids
  BY DEF EndFilter, args
<1>2. /\ Len(Full(in)) \in Nat /\ DOMAIN Full(in) = 1 .. Len(Full(in))
      /\ pos - 1 = Len(Full(in)) /\ Len(nextOrder) \in Nat
      /\ DOMAIN nextOrder = 1 .. Len(nextOrder)
  BY <1>1, ArgumentLists, LenProperties DEF IInv, TypeOK, FilterInv
<1>3. \A x : x \in Range(ids) <=> x \in Kept
  BY <1>1, <1>2 DEF IInv, FilterInv, Kept, Range
<1>4. \A x, y \in Range(Full(in)) :
         Outlives(x) /\ Outlives(y) /\ Precedes(Full(in), x, y) => Precedes(ids, x, y)
  BY <1>1, <1>2 DEF IInv, FilterInv, Precedes
<1>5. SurvivorsKeepOrder'
  BY <1>1, <1>4 DEF SurvivorsKeepOrder, Outlives
<1>6. InsertInv'
  BY <1>1, <1>2, <1>3 DEF IInv, FilterInv, InsertInv, Kept, Outlives
<1>7. PlacedAtTemplateIndex'
  BY <1>1, <1>2 DEF PlacedAtTemplateIndex
<1> QED
  BY <1>1, <1>5, <1>6, <1>7
     DEF IInv, TypeOK, Inputs, FilterInv, RefusedIffCollision

\* One turn of the insertion loop.
LEMMA InsertStep == IInv /\ Insert => IInv'
<1> SUFFICES ASSUME IInv, Insert PROVE IInv'
  OBVIOUS
<1> DEFINE e == nextOrder[pos]
           new == e \notin Range(in.shared)
           NoCollision == Range(nextOrder) \cap Range(in.local) = {}
<1>1. /\ pc = "insert" /\ pc' = "insert" /\ pos' = pos + 1 /\ pos <= Len(nextOrder)
      /\ in' = in /\ nextShared' = nextShared /\ nextOrder' = nextOrder
  BY DEF Insert, args
<1>2. /\ nextOrder \in Seq(ValidID) /\ IsInjective(nextOrder)
      /\ Len(nextOrder) \in Nat /\ DOMAIN nextOrder = 1 .. Len(nextOrder)
      /\ pos \in 1 .. Len(nextOrder) /\ pos \in Nat /\ e \in ValidID
      /\ e \in Range(nextOrder)
  BY <1>1, ArgumentLists, LenProperties, ElementOfSeq DEF IInv, TypeOK, Range
<1>3. /\ ids \in Seq(ValidID)
      /\ \A x : x \in Range(ids) <=> x \in Kept \/ \E k \in 1 .. pos - 1 : nextOrder[k] = x
      /\ NoCollision => IsInjective(ids)
  BY <1>1 DEF IInv, InsertInv
<1>4. ids' = IF new THEN InsertAt(ids, pos, e) ELSE ids
  BY DEF Insert
<1>5. new => pos \in 1 .. Len(ids) + 1
  BY <1>1, <1>2, <1>3, BoundFromInvariant, LenProperties DEF InsertInBounds
<1>6. ~new => e \in Range(ids)
  BY <1>2, <1>3, KeptRules DEF IInv
<1>7. new /\ NoCollision => e \notin Range(ids)
  <2> SUFFICES ASSUME new, NoCollision, e \in Range(ids) PROVE FALSE
    OBVIOUS
  <2>1. e \notin Kept BY <1>2, KeptRules DEF IInv
  <2>2. PICK k \in 1 .. pos - 1 : nextOrder[k] = e BY <2>1, <1>3
  <2>3. k \in DOMAIN nextOrder /\ pos \in DOMAIN nextOrder /\ k # pos BY <1>2
  <2> QED BY <2>2, <2>3, <1>2 DEF IsInjective
<1>8. /\ ids' \in Seq(ValidID)
      /\ Range(ids') = Range(ids) \cup {e}
      /\ NoCollision => IsInjective(ids')
      /\ \A x, y : Precedes(ids, x, y) => Precedes(ids', x, y)
  <2>1. CASE new
    <3>1. ids' = InsertAt(ids, pos, e) /\ pos \in 1 .. Len(ids) + 1
      BY <2>1, <1>4, <1>5
    <3>2. ids' \in Seq(ValidID) /\ Range(ids') = Range(ids) \cup {e}
      BY <3>1, <1>2, <1>3, InsertAtPositions, InsertAtMembers
    <3>3. NoCollision => IsInjective(ids')
      BY <2>1, <3>1, <1>2, <1>3, <1>7, InsertAtMembers
    <3>4. \A x, y : Precedes(ids, x, y) => Precedes(ids', x, y)
      BY <3>1, <1>2, <1>3, InsertKeepsOrder
    <3> QED BY <3>2, <3>3, <3>4
  <2>2. CASE ~new
    BY <2>2, <1>3, <1>4, <1>6
  <2> QED BY <2>1, <2>2
<1>9. \A x : x \in Range(ids') <=> x \in Kept \/ \E k \in 1 .. pos : nextOrder[k] = x
  <2> SUFFICES ASSUME NEW x
               PROVE  x \in Range(ids') <=> x \in Kept \/ \E k \in 1 .. pos : nextOrder[k] = x
    OBVIOUS
  <2>1. (\E k \in 1 .. pos : nextOrder[k] = x) <=>
           (\E k \in 1 .. pos - 1 : nextOrder[k] = x) \/ e = x
    <3>1. 1 .. pos = (1 .. pos - 1) \cup {pos} BY <1>2
    <3> QED BY <3>1
  <2> QED BY <2>1, <1>3, <1>8
<1>10. InsertInv'
  <2>1. pos' - 1 = pos /\ pos' <= Len(nextOrder) + 1 BY <1>1, <1>2
  <2>2. \A x : (x \in Kept)' <=> x \in Kept BY <1>1 DEF Kept, Outlives
  <2> QED BY <2>1, <2>2, <1>1, <1>8, <1>9 DEF InsertInv
<1>11. PlacedAtTemplateIndex'
  <2> SUFFICES ASSUME NEW k \in DOMAIN nextOrder, k < pos + 1,
                      nextOrder[k] \notin Range(in.shared)
               PROVE  k \in DOMAIN ids' /\ ids'[k] = nextOrder[k]
    BY <1>1 DEF PlacedAtTemplateIndex
  <2>1. k < pos => k \in DOMAIN ids /\ ids[k] = nextOrder[k]
    BY <1>1 DEF IInv, PlacedAtTemplateIndex
  <2>2. CASE new
    <3>1. /\ DOMAIN ids' = 1 .. Len(ids) + 1 /\ DOMAIN ids = 1 .. Len(ids)
          /\ Len(ids) \in Nat
          /\ \A l \in 1 .. pos - 1 : ids'[l] = ids[l]
          /\ ids'[pos] = e
      BY <2>2, <1>2, <1>3, <1>4, <1>5, InsertAtPositions, LenProperties
    <3>2. CASE k < pos
      <4>1. k \in 1 .. pos - 1 BY <3>2, <1>2
      <4> QED BY <3>1, <3>2, <4>1, <2>1
    <3>3. CASE k = pos BY <3>1, <3>3, <2>2, <1>5
    <3> QED BY <3>2, <3>3, <1>2
  <2>3. CASE ~new
    <3>1. k < pos BY <2>3, <1>2
    <3> QED BY <2>1, <2>3, <3>1, <1>4
  <2> QED BY <2>2, <2>3
<1>12. SurvivorsKeepOrder'
  BY <1>1, <1>8 DEF IInv, SurvivorsKeepOrder, Outlives
<1>13. TypeOK'
  BY <1>1, <1>2, <1>8, ValidIDAssumption, SeqMonotonic DEF IInv, TypeOK
<1> QED
  BY <1>1, <1>8, <1>10, <1>11, <1>12, <1>13
     DEF IInv, Inputs, FilterInv, RefusedIffCollision

\* The end of the insertion.
LEMMA EndInsertStep == IInv /\ EndInsert => IInv'
<1> SUFFICES ASSUME IInv, EndInsert PROVE IInv'
  OBVIOUS
<1>1. /\ pc = "insert" /\ pc' = "validate" /\ pos > Len(nextOrder)
      /\ in' = in /\ nextShared' = nextShared /\ nextOrder' = nextOrder
      /\ ids' = ids /\ pos' = pos
  BY DEF EndInsert, args
<1>2. pos = Len(nextOrder) + 1
  BY <1>1, ArgumentLists, LenProperties DEF IInv, TypeOK, InsertInv
<1> QED
  BY <1>1, <1>2
     DEF IInv, TypeOK, Inputs, FilterInv, InsertInv, Kept, Outlives,
         PlacedAtTemplateIndex, SurvivorsKeepOrder, RefusedIffCollision

\* The merged list has the local rules and the rules of the next template, so
\* its validation fails exactly on a collision.
LEMMA ValidateStep == IInv /\ Validate => IInv'
<1> SUFFICES ASSUME IInv, Validate PROVE IInv'
  OBVIOUS
<1> DEFINE next == [NextTemplate(nextShared, nextOrder) EXCEPT !.local = in.local]
           Collision == Range(nextOrder) \cap Range(in.local) # {}
<1>1. /\ pc = "validate"
      /\ pc' = IF AssemblesAs(next, ids) THEN "accepted" ELSE "rejected"
      /\ in' = in /\ nextShared' = nextShared /\ nextOrder' = nextOrder
      /\ ids' = ids /\ pos' = pos
  BY DEF Validate, args
<1>2. /\ next.shared = nextShared /\ next.local = in.local
      /\ next.templateOrder = nextOrder /\ next.exclusions = <<>>
  BY DEF NextTemplate
<1> HIDE DEF next
<1>3. /\ nextOrder \in Seq(ValidID) /\ IsInjective(nextOrder)
      /\ Range(nextOrder) = Range(nextShared)
      /\ DistinctValid(in.local) /\ DistinctValid(nextShared)
      /\ Len(nextOrder) \in Nat /\ DOMAIN nextOrder = 1 .. Len(nextOrder)
  BY ArgumentLists, LenProperties DEF IInv
<1>4. pos - 1 = Len(nextOrder)
  BY <1>1, <1>3 DEF IInv, InsertInv
<1>5. Range(ids) = Range(nextShared) \cup Range(in.local)
  <2>1. \A x : x \in Range(ids) <=> x \in Kept \/ x \in Range(nextOrder)
    BY <1>1, <1>3, <1>4 DEF IInv, InsertInv, Range
  <2> QED BY <2>1, <1>3, KeptRules DEF IInv
<1>6. AssemblesAs(next, ids) => ~Collision
  BY <1>2, <1>3 DEF AssemblesAs, ValidMetadata
<1>7. ~Collision => AssemblesAs(next, ids)
  <2> SUFFICES ASSUME ~Collision PROVE AssemblesAs(next, ids)
    OBVIOUS
  <2>1. DistinctValid(ids)
    BY <1>1 DEF IInv, InsertInv, DistinctValid
  <2>2. DistinctValid(<<>>) /\ Range(<<>>) = {}
    BY EmptySeq DEF DistinctValid, IsInjective, Range
  <2> QED
    BY <2>1, <2>2, <1>2, <1>3, <1>5
       DEF AssemblesAs, ValidMetadata, ValidOrderedIDs, DistinctValid
<1>8. RefusedIffCollision'
  BY <1>1, <1>6, <1>7 DEF RefusedIffCollision
<1>9. pc' \in {"accepted", "rejected"}
  BY <1>1
<1> QED
  BY <1>1, <1>8, <1>9
     DEF IInv, TypeOK, Inputs, FilterInv, InsertInv, Kept, Outlives,
         PlacedAtTemplateIndex, SurvivorsKeepOrder

\* The turns of the two loops are the turns of the two folds.
LEMMA FoldStep == IInv /\ FoldInv /\ [Next]_vars => FoldInv'
<1> SUFFICES ASSUME IInv, FoldInv, [Next]_vars PROVE FoldInv'
  OBVIOUS
<1> DEFINE full == Full(in)
           K == Range(in.local) \cup Range(nextShared)
           list == Survivors(in, nextShared)
           old == Range(in.shared)
<1>1. /\ full \in Seq(ValidID) /\ Len(full) \in Nat
      /\ nextOrder \in Seq(ValidID) /\ Len(nextOrder) \in Nat
      /\ pos \in Nat \ {0}
  BY ArgumentLists, LenProperties DEF IInv, TypeOK
<1>2. ASSUME Filter PROVE FoldInv'
  <2>1. /\ pc = "filter" /\ pc' = "filter" /\ pos' = pos + 1 /\ pos <= Len(full)
        /\ in' = in /\ nextShared' = nextShared /\ nextOrder' = nextOrder
        /\ ids' = IF full[pos] \in K THEN Append(ids, full[pos]) ELSE ids
    BY <1>2 DEF Filter, args, Outlives
  <2>2. PICK kept : RetainLoop(full, K, kept) /\ ids = kept[pos - 1]
    BY <2>1 DEF FoldInv
  <2>3. pos \in 1 .. Len(full) /\ pos' - 1 = pos
    BY <2>1, <1>1
  <2>4. ids' = kept[pos]
    BY <2>1, <2>2, <2>3 DEF RetainLoop
  <2>5. full' = full /\ K' = K
    BY <2>1 DEF Full
  <2> HIDE DEF full, K
  <2>6. RetainLoop(full', K', kept) /\ ids' = kept[pos' - 1]
    BY <2>2, <2>3, <2>4, <2>5
  <2> QED BY <2>1, <2>6 DEF FoldInv, full, K
<1>3. ASSUME EndFilter PROVE FoldInv'
  <2>1. /\ pc = "filter" /\ pc' = "insert" /\ pos > Len(full) /\ pos' = 1
        /\ in' = in /\ nextShared' = nextShared /\ nextOrder' = nextOrder /\ ids' = ids
    BY <1>3 DEF EndFilter, args
  <2>2. PICK kept : RetainLoop(full, K, kept) /\ ids = kept[pos - 1]
    BY <2>1 DEF FoldInv
  <2>3. pos - 1 = Len(full)
    BY <2>1, <1>1 DEF IInv, FilterInv
  <2>4. ids = list
    BY <2>2, <2>3 DEF RetainLoop, Survivors
  <2>5. PICK placed : PlaceLoop(list, nextOrder, old, placed)
    BY <1>1, PlaceTurns
  <2>6. ids' = placed[pos' - 1]
    BY <2>1, <2>4, <2>5 DEF PlaceLoop
  <2>7. list' = list /\ old' = old
    BY <2>1 DEF Survivors, Full
  <2> HIDE DEF list, old
  <2>8. PlaceLoop(list', nextOrder', old', placed) /\ ids' = placed[pos' - 1]
    BY <2>1, <2>5, <2>6, <2>7
  <2> QED BY <2>1, <2>8 DEF FoldInv, list, old
<1>4. ASSUME Insert PROVE FoldInv'
  <2>1. /\ pc = "insert" /\ pc' = "insert" /\ pos' = pos + 1 /\ pos <= Len(nextOrder)
        /\ in' = in /\ nextShared' = nextShared /\ nextOrder' = nextOrder
        /\ ids' = IF nextOrder[pos] \in old THEN ids ELSE InsertAt(ids, pos, nextOrder[pos])
    BY <1>4 DEF Insert, args
  <2>2. PICK placed : PlaceLoop(list, nextOrder, old, placed) /\ ids = placed[pos - 1]
    BY <2>1 DEF FoldInv
  <2>3. pos \in 1 .. Len(nextOrder) /\ pos' - 1 = pos
    BY <2>1, <1>1
  <2>4. ids' = placed[pos]
    BY <2>1, <2>2, <2>3 DEF PlaceLoop
  <2>5. list' = list /\ old' = old
    BY <2>1 DEF Survivors, Full
  <2> HIDE DEF list, old
  <2>6. PlaceLoop(list', nextOrder', old', placed) /\ ids' = placed[pos' - 1]
    BY <2>1, <2>2, <2>3, <2>4, <2>5
  <2> QED BY <2>1, <2>6 DEF FoldInv, list, old
<1>5. ASSUME EndInsert \/ Validate \/ UNCHANGED vars PROVE FoldInv'
  <2>1. /\ in' = in /\ nextShared' = nextShared /\ nextOrder' = nextOrder
        /\ ids' = ids /\ pos' = pos
        /\ pc' = "filter" <=> pc = "filter"
    BY <1>5 DEF EndInsert, Validate, vars, args
  <2> QED BY <2>1 DEF FoldInv, Survivors, Full
<1> QED BY <1>2, <1>3, <1>4, <1>5 DEF Next

\* Every step keeps the invariant.
LEMMA NextInv == IInv /\ [Next]_vars => IInv'
<1> SUFFICES ASSUME IInv, [Next]_vars PROVE IInv'
  OBVIOUS
<1>1. CASE Filter BY <1>1, FilterStep
<1>2. CASE EndFilter BY <1>2, EndFilterStep
<1>3. CASE Insert BY <1>3, InsertStep
<1>4. CASE EndInsert BY <1>4, EndInsertStep
<1>5. CASE Validate BY <1>5, ValidateStep
<1>6. CASE UNCHANGED vars
  BY <1>6 DEF vars, IInv, TypeOK, Inputs, FilterInv, InsertInv, Kept, Outlives,
              PlacedAtTemplateIndex, SurvivorsKeepOrder, RefusedIffCollision
<1> QED BY <1>1, <1>2, <1>3, <1>4, <1>5, <1>6 DEF Next

\* The invariant holds throughout the call.
LEMMA AlwaysIInv == Spec => []IInv
BY InitInv, NextInv, PTL DEF Spec

-----------------------------------------------------------------------------
(* Theorems *)

\* The list under construction and the loop position keep their types.
THEOREM LoopTypeCorrect == Spec => []TypeOK
<1>1. IInv => TypeOK BY DEF IInv
<1> QED BY <1>1, AlwaysIInv, PTL

\* No insertion index lies past the end of the list: ReconcileRuleOrder does
\* not panic on any pair of templates.
THEOREM InsertionsInBounds == Spec => []InsertInBounds
BY BoundFromInvariant, AlwaysIInv, PTL

\* Every rule that is new in the template is placed at its template index.
THEOREM NewRulesPlaced == Spec => []PlacedAtTemplateIndex
<1>1. IInv => PlacedAtTemplateIndex BY DEF IInv
<1> QED BY <1>1, AlwaysIInv, PTL

\* An update never reorders the rules that outlive it.
THEOREM SurvivorsOrdered == Spec => []SurvivorsKeepOrder
<1>1. IInv => SurvivorsKeepOrder BY DEF IInv
<1> QED BY <1>1, AlwaysIInv, PTL

\* The merged order is refused exactly when a new rule has a local rule's UUID.
THEOREM OnlyCollisionsRefused == Spec => []RefusedIffCollision
<1>1. IInv => RefusedIffCollision BY DEF IInv
<1> QED BY <1>1, AlwaysIInv, PTL

\* The two loops compute the order that RuleOrder states as a fold.
THEOREM LoopsAreTheFold == Spec => []LoopsMatchFold
<1>1. Init => FoldInv
  <2> SUFFICES ASSUME Init PROVE FoldInv
    OBVIOUS
  <2>1. pc = "filter" /\ ids = <<>> /\ pos = 1
    BY DEF Init
  <2>2. Full(in) \in Seq(ValidID)
    BY InitInv, ArgumentLists DEF IInv
  <2>3. PICK kept : RetainLoop(Full(in), Range(in.local) \cup Range(nextShared), kept)
    BY <2>2, RetainTurns
  <2>4. ids = kept[pos - 1]
    BY <2>1, <2>3 DEF RetainLoop
  <2> QED BY <2>1, <2>3, <2>4 DEF FoldInv
<1>2. IInv /\ FoldInv => LoopsMatchFold
  <2> SUFFICES ASSUME IInv, FoldInv, pc \in {"validate", "accepted", "rejected"}
               PROVE  ids = ReconciledIDs(in, nextShared, nextOrder)
    BY DEF LoopsMatchFold
  <2>1. PICK placed : /\ PlaceLoop(Survivors(in, nextShared), nextOrder,
                                   Range(in.shared), placed)
                      /\ ids = placed[pos - 1]
    BY DEF FoldInv
  <2>2. pos = Len(nextOrder) + 1 /\ Len(nextOrder) \in Nat
    BY ArgumentLists, LenProperties DEF IInv, InsertInv
  <2>3. pos - 1 = Len(nextOrder)
    BY <2>2
  <2> QED BY <2>1, <2>3 DEF PlaceLoop, ReconciledIDs
<1> QED BY <1>1, <1>2, AlwaysIInv, FoldStep, PTL DEF Spec
=============================================================================
