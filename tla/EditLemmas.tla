----------------------------- MODULE EditLemmas -----------------------------
(***************************************************************************)
(* What the list edits of slices.Insert and slices.Delete and the loops of *)
(* RuleLists do to the members of a list without duplicates, to their      *)
(* order and to the length of the list.  The proofs about rule orders rest *)
(* on these facts.                                                         *)
(***************************************************************************)
EXTENDS Integers, FiniteSets, RuleLists, FiniteSetTheorems, SequenceTheorems, TLAPS

\* InsertAt puts e at index i and shifts the rest by one place
\* (slices.Insert in rule_order.go).
LEMMA InsertAtPositions ==
    ASSUME NEW S, NEW s \in Seq(S), NEW e \in S, NEW i \in 1 .. Len(s) + 1
    PROVE  /\ InsertAt(s, i, e) \in Seq(S)
           /\ Len(InsertAt(s, i, e)) = Len(s) + 1
           /\ \A k \in 1 .. i - 1 : InsertAt(s, i, e)[k] = s[k]
           /\ InsertAt(s, i, e)[i] = e
           /\ \A k \in i + 1 .. Len(s) + 1 : InsertAt(s, i, e)[k] = s[k - 1]
<1> DEFINE front == SubSeq(s, 1, i - 1)
           back  == SubSeq(s, i, Len(s))
<1>1. /\ front \in Seq(S) /\ Len(front) = i - 1
      /\ \A k \in 1 .. i - 1 : front[k] = s[k]
  BY SubSeqProperties, ElementOfSeq, LenProperties
<1>2. /\ back \in Seq(S) /\ Len(back) = Len(s) - i + 1
      /\ \A k \in 1 .. Len(s) - i + 1 : back[k] = s[i + k - 1]
  BY SubSeqProperties, ElementOfSeq, LenProperties
<1> DEFINE one == <<e>>
<1>3. /\ one \in Seq(S) /\ Len(one) = 1 /\ one[1] = e
  OBVIOUS
<1> DEFINE head == front \o one
<1>0. Len(s) \in Nat /\ i \in Nat
  BY LenProperties
<1> HIDE DEF front, back, one
<1>4. /\ head \in Seq(S) /\ Len(head) = i
      /\ \A k \in 1 .. i - 1 : head[k] = s[k]
      /\ head[i] = e
  <2>1. /\ front \o one \in Seq(S)
        /\ Len(front \o one) = i - 1 + 1
        /\ \A k \in 1 .. i - 1 + 1 :
              (front \o one)[k] = IF k <= i - 1 THEN front[k] ELSE one[k - (i - 1)]
    <3>1. front \in Seq(S) /\ one \in Seq(S)
      BY <1>1, <1>3
    <3>2. /\ front \o one \in Seq(S)
          /\ Len(front \o one) = Len(front) + Len(one)
          /\ \A k \in 1 .. Len(front) + Len(one) :
                (front \o one)[k] = IF k <= Len(front) THEN front[k] ELSE one[k - Len(front)]
      BY <3>1, ConcatProperties
    <3>3. Len(front) = i - 1 /\ Len(one) = 1
      BY <1>1, <1>3
    <3> QED BY <3>2, <3>3
  <2>2. (front \o one)[i] = one[1]
    <3>1. i \in 1 .. i - 1 + 1 /\ ~(i <= i - 1) /\ i - (i - 1) = 1
      BY <1>0
    <3>2. (front \o one)[i] = one[i - (i - 1)]
      BY <3>1, <2>1
    <3> QED BY <3>1, <3>2
  <2>3. i - 1 + 1 = i /\ 1 .. i - 1 \subseteq 1 .. i - 1 + 1
    BY <1>0
  <2>4. ASSUME NEW k \in 1 .. i - 1 PROVE head[k] = s[k]
    <3>1. (front \o one)[k] = front[k]
      BY <2>1, <2>3
    <3> QED BY <3>1, <1>1
  <2>5. head \in Seq(S) /\ Len(head) = i /\ head[i] = e
    BY <1>3, <2>1, <2>2, <2>3
  <2> QED BY <2>4, <2>5
<1>5. InsertAt(s, i, e) = head \o back
  BY DEF InsertAt, front, back, one
<1> HIDE DEF head
<1>6. /\ head \o back \in Seq(S)
      /\ Len(head \o back) = Len(s) + 1
      /\ \A k \in 1 .. Len(s) + 1 :
            (head \o back)[k] = IF k <= i THEN head[k] ELSE back[k - i]
  <2>1. head \in Seq(S) /\ back \in Seq(S)
    BY <1>2, <1>4
  <2>2. /\ head \o back \in Seq(S)
        /\ Len(head \o back) = Len(head) + Len(back)
        /\ \A k \in 1 .. Len(head) + Len(back) :
              (head \o back)[k] = IF k <= Len(head) THEN head[k] ELSE back[k - Len(head)]
    BY <2>1, ConcatProperties
  <2>3. Len(head) = i /\ Len(head) + Len(back) = Len(s) + 1
    BY <1>0, <1>2, <1>4
  <2> QED BY <2>2, <2>3
<1>7. \A k \in i + 1 .. Len(s) + 1 : (head \o back)[k] = s[k - 1]
  <2> SUFFICES ASSUME NEW k \in i + 1 .. Len(s) + 1 PROVE (head \o back)[k] = s[k - 1]
    OBVIOUS
  <2>1. k - i \in 1 .. Len(s) - i + 1 /\ i + (k - i) - 1 = k - 1 /\ ~(k <= i)
    BY <1>0
  <2>2. back[k - i] = s[i + (k - i) - 1]
    BY <2>1, <1>2
  <2>3. k \in 1 .. Len(s) + 1
    BY <1>0
  <2> QED BY <2>1, <2>2, <2>3, <1>6
<1> QED
  BY <1>4, <1>5, <1>6, <1>7, LenProperties

\* RemoveAt drops one place and closes the gap (slices.Delete).
LEMMA RemoveAtPositions ==
    ASSUME NEW S, NEW s \in Seq(S), NEW i \in 1 .. Len(s)
    PROVE  /\ RemoveAt(s, i) \in Seq(S)
           /\ Len(RemoveAt(s, i)) = Len(s) - 1
           /\ \A k \in 1 .. i - 1 : RemoveAt(s, i)[k] = s[k]
           /\ \A k \in i .. Len(s) - 1 : RemoveAt(s, i)[k] = s[k + 1]
<1> DEFINE front == SubSeq(s, 1, i - 1)
           back  == SubSeq(s, i + 1, Len(s))
<1>1. /\ front \in Seq(S) /\ Len(front) = i - 1
      /\ \A k \in 1 .. i - 1 : front[k] = s[k]
  BY SubSeqProperties, ElementOfSeq, LenProperties
<1>2. /\ back \in Seq(S) /\ Len(back) = Len(s) - i
      /\ \A k \in 1 .. Len(s) - i : back[k] = s[i + k]
  BY SubSeqProperties, ElementOfSeq, LenProperties
<1>3. RemoveAt(s, i) = front \o back
  BY DEF RemoveAt
<1> HIDE DEF front, back
<1>4. /\ front \o back \in Seq(S)
      /\ Len(front \o back) = Len(front) + Len(back)
      /\ \A k \in 1 .. Len(front) + Len(back) :
            (front \o back)[k] = IF k <= Len(front) THEN front[k] ELSE back[k - Len(front)]
  BY <1>1, <1>2, ConcatProperties
<1>5. Len(s) \in Nat /\ i \in Nat
  BY LenProperties
<1>6. \A k \in i .. Len(s) - 1 : (front \o back)[k] = s[k + 1]
  <2> SUFFICES ASSUME NEW k \in i .. Len(s) - 1 PROVE (front \o back)[k] = s[k + 1]
    OBVIOUS
  <2>1. k - (i - 1) \in 1 .. Len(s) - i /\ i + (k - (i - 1)) = k + 1 /\ ~(k <= i - 1)
    BY <1>5
  <2>2. k \in 1 .. Len(front) + Len(back)
    BY <1>1, <1>2, <1>5
  <2>3. (front \o back)[k] = back[k - (i - 1)]
    BY <2>1, <2>2, <1>1, <1>4
  <2>4. back[k - (i - 1)] = s[i + (k - (i - 1))]
    BY <2>1, <1>2
  <2> QED BY <2>1, <2>3, <2>4
<1>7. Len(front) = i - 1 /\ Len(front) + Len(back) = Len(s) - 1
  BY <1>1, <1>2, <1>5
<1>8. \A k \in 1 .. i - 1 : (front \o back)[k] = s[k]
  <2> SUFFICES ASSUME NEW k \in 1 .. i - 1 PROVE (front \o back)[k] = s[k]
    OBVIOUS
  <2>1. k \in 1 .. Len(front) + Len(back) /\ k <= Len(front)
    BY <1>5, <1>7
  <2>2. (front \o back)[k] = front[k]
    BY <2>1, <1>4
  <2> QED BY <2>2, <1>1
<1> QED
  BY <1>3, <1>4, <1>6, <1>7, <1>8

\* Inserting a new member keeps a list free of duplicates and adds it alone.
LEMMA InsertAtMembers ==
    ASSUME NEW S, NEW s \in Seq(S), NEW e \in S, NEW i \in 1 .. Len(s) + 1
    PROVE  /\ Range(InsertAt(s, i, e)) = Range(s) \cup {e}
           /\ IsInjective(s) /\ e \notin Range(s) => IsInjective(InsertAt(s, i, e))
<1>01. InsertAt(s, i, e) \in Seq(S) /\ Len(InsertAt(s, i, e)) = Len(s) + 1
  BY InsertAtPositions
<1>02. \A k \in 1 .. i - 1 : InsertAt(s, i, e)[k] = s[k]
  BY InsertAtPositions
<1>03. InsertAt(s, i, e)[i] = e
  BY InsertAtPositions
<1>04. \A k \in i + 1 .. Len(s) + 1 : InsertAt(s, i, e)[k] = s[k - 1]
  BY InsertAtPositions
<1> DEFINE t == InsertAt(s, i, e)
<1> HIDE DEF t
<1>1. /\ t \in Seq(S) /\ Len(t) = Len(s) + 1 /\ Len(s) \in Nat /\ i \in Nat
      /\ DOMAIN t = 1 .. Len(s) + 1 /\ DOMAIN s = 1 .. Len(s)
      /\ \A k \in 1 .. i - 1 : t[k] = s[k]
      /\ t[i] = e
      /\ \A k \in i + 1 .. Len(s) + 1 : t[k] = s[k - 1]
  <2>0. /\ t \in Seq(S) /\ Len(t) = Len(s) + 1
        /\ \A k \in 1 .. i - 1 : t[k] = s[k]
        /\ t[i] = e
        /\ \A k \in i + 1 .. Len(s) + 1 : t[k] = s[k - 1]
    BY <1>01, <1>02, <1>03, <1>04 DEF t
  <2>1. Len(s) \in Nat /\ DOMAIN s = 1 .. Len(s) /\ DOMAIN t = 1 .. Len(t)
    BY <2>0, LenProperties
  <2> QED BY <2>0, <2>1
<1>2. Range(t) \subseteq Range(s) \cup {e}
  <2> SUFFICES ASSUME NEW k \in 1 .. Len(s) + 1 PROVE t[k] \in Range(s) \cup {e}
    BY <1>1 DEF Range
  <2>1. CASE k < i BY <2>1, <1>1 DEF Range
  <2>2. CASE k = i BY <2>2, <1>1
  <2>3. CASE k > i
    <3>1. t[k] = s[k - 1] /\ k - 1 \in 1 .. Len(s) BY <2>3, <1>1
    <3> QED BY <3>1, <1>1 DEF Range
  <2> QED BY <2>1, <2>2, <2>3, <1>1
<1>3. Range(s) \cup {e} \subseteq Range(t)
  <2> SUFFICES ASSUME NEW k \in 1 .. Len(s) PROVE s[k] \in Range(t)
    BY <1>1 DEF Range
  <2>1. CASE k < i BY <2>1, <1>1 DEF Range
  <2>2. CASE k >= i
    <3>1. t[k + 1] = s[k] /\ k + 1 \in 1 .. Len(s) + 1 BY <2>2, <1>1
    <3> QED BY <3>1, <1>1 DEF Range
  <2> QED BY <2>1, <2>2, <1>1
<1>4. ASSUME IsInjective(s), e \notin Range(s) PROVE IsInjective(t)
  <2> DEFINE src(k) == IF k < i THEN k ELSE k - 1
  <2>1. \A k \in 1 .. Len(s) + 1 : k # i => t[k] = s[src(k)] /\ src(k) \in 1 .. Len(s)
    BY <1>1
  <2>2. \A k \in 1 .. Len(s) + 1 : k # i => t[k] # e
    BY <2>1, <1>1, <1>4 DEF Range
  <2> SUFFICES ASSUME NEW k \in 1 .. Len(s) + 1, NEW l \in 1 .. Len(s) + 1, t[k] = t[l]
               PROVE  k = l
    BY <1>1 DEF IsInjective
  <2>3. CASE k = i \/ l = i BY <2>3, <2>2, <1>1
  <2>4. CASE k # i /\ l # i
    <3>1. s[src(k)] = s[src(l)] /\ src(k) \in DOMAIN s /\ src(l) \in DOMAIN s
      BY <2>1, <2>4, <1>1
    <3>2. src(k) = src(l)
      <4> HIDE DEF src
      <4> QED BY <3>1, <1>4 DEF IsInjective
    <3> QED BY <3>2, <2>4, <1>1
  <2> QED BY <2>3, <2>4
<1> QED BY <1>2, <1>3, <1>4 DEF t

\* Taking a member out of a list without duplicates removes it alone.
LEMMA RemoveAtMembers ==
    ASSUME NEW S, NEW s \in Seq(S), NEW i \in 1 .. Len(s), IsInjective(s)
    PROVE  /\ Range(RemoveAt(s, i)) = Range(s) \ {s[i]}
           /\ IsInjective(RemoveAt(s, i))
<1> DEFINE t == RemoveAt(s, i)
           src(k) == IF k < i THEN k ELSE k + 1
<1>1. /\ Len(s) \in Nat /\ i \in Nat
      /\ DOMAIN t = 1 .. Len(s) - 1 /\ DOMAIN s = 1 .. Len(s)
  BY RemoveAtPositions, LenProperties
<1>0. /\ \A k \in 1 .. i - 1 : t[k] = s[k]
      /\ \A k \in i .. Len(s) - 1 : t[k] = s[k + 1]
  BY RemoveAtPositions
<1> HIDE DEF t
<1>2. \A k \in 1 .. Len(s) - 1 : t[k] = s[src(k)] /\ src(k) \in 1 .. Len(s) /\ src(k) # i
  BY <1>0, <1>1
<1>3. Range(t) \subseteq Range(s) \ {s[i]}
  BY <1>1, <1>2 DEF Range, IsInjective
<1>4. Range(s) \ {s[i]} \subseteq Range(t)
  <2> SUFFICES ASSUME NEW k \in 1 .. Len(s), k # i PROVE s[k] \in Range(t)
    BY <1>1 DEF Range
  <2>1. CASE k < i
    <3>1. k \in 1 .. Len(s) - 1 /\ t[k] = s[k] BY <2>1, <1>1, <1>2
    <3> QED BY <3>1, <1>1 DEF Range
  <2>2. CASE k > i
    <3>1. k - 1 \in 1 .. Len(s) - 1 /\ t[k - 1] = s[k] BY <2>2, <1>1, <1>2
    <3> QED BY <3>1, <1>1 DEF Range
  <2> QED BY <2>1, <2>2, <1>1
<1>5. IsInjective(t)
  <2> SUFFICES ASSUME NEW k \in 1 .. Len(s) - 1, NEW l \in 1 .. Len(s) - 1, t[k] = t[l]
               PROVE  k = l
    BY <1>1 DEF IsInjective
  <2>1. src(k) = src(l) BY <1>1, <1>2 DEF IsInjective
  <2> QED BY <2>1, <1>1
<1> QED BY <1>3, <1>4, <1>5 DEF t

\* An index range counts its indices.
LEMMA IndexCardinality ==
    ASSUME NEW n \in Nat
    PROVE  IsFiniteSet(1 .. n) /\ Cardinality(1 .. n) = n
BY FS_Interval

\* A list has no fewer places than members; without duplicates it has exactly
\* as many.
LEMMA RangeCardinality ==
    ASSUME NEW S, NEW s \in Seq(S)
    PROVE  /\ IsFiniteSet(Range(s))
           /\ Cardinality(Range(s)) \in Nat
           /\ Cardinality(Range(s)) <= Len(s)
           /\ IsInjective(s) => Cardinality(Range(s)) = Len(s)
<1>1. /\ Len(s) \in Nat /\ DOMAIN s = 1 .. Len(s)
      /\ s \in [1 .. Len(s) -> Range(s)]
  BY LenProperties DEF Range
<1>2. s \in Surjection(1 .. Len(s), Range(s))
  BY <1>1 DEF Surjection, Range
<1>3. IsFiniteSet(1 .. Len(s)) /\ Cardinality(1 .. Len(s)) = Len(s)
  BY <1>1, IndexCardinality
<1>4. /\ IsFiniteSet(Range(s)) /\ Cardinality(Range(s)) <= Len(s)
      /\ Cardinality(Range(s)) = Len(s) <=> s \in Injection(1 .. Len(s), Range(s))
  BY <1>2, <1>3, FS_Surjection
<1>5. IsInjective(s) => s \in Injection(1 .. Len(s), Range(s))
  BY <1>1 DEF IsInjective, Injection
<1> QED BY <1>4, <1>5, FS_CardinalityType

-----------------------------------------------------------------------------
(* Relative order *)

\* An insertion does not change the relative order of what was there.
LEMMA InsertKeepsOrder ==
    ASSUME NEW S, NEW s \in Seq(S), NEW e \in S, NEW i \in 1 .. Len(s) + 1,
           NEW x, NEW y, Precedes(s, x, y)
    PROVE  Precedes(InsertAt(s, i, e), x, y)
<1> DEFINE t == InsertAt(s, i, e)
           at(k) == IF k < i THEN k ELSE k + 1
<1>1. Len(s) \in Nat /\ i \in Nat /\ DOMAIN s = 1 .. Len(s) /\ DOMAIN t = 1 .. Len(s) + 1
  BY InsertAtPositions, LenProperties
<1>2. PICK k \in 1 .. Len(s), l \in 1 .. Len(s) : k < l /\ s[k] = x /\ s[l] = y
  BY <1>1 DEF Precedes
<1>3. /\ \A m \in 1 .. i - 1 : t[m] = s[m]
      /\ \A m \in i + 1 .. Len(s) + 1 : t[m] = s[m - 1]
  <2>1. \A m \in 1 .. i - 1 : InsertAt(s, i, e)[m] = s[m]
    BY InsertAtPositions
  <2>2. \A m \in i + 1 .. Len(s) + 1 : InsertAt(s, i, e)[m] = s[m - 1]
    BY InsertAtPositions
  <2> QED BY <2>1, <2>2
<1> HIDE DEF t
<1>4. \A m \in 1 .. Len(s) : at(m) \in DOMAIN t /\ t[at(m)] = s[m]
  BY <1>1, <1>3
<1>5. at(k) < at(l)
  BY <1>2, <1>1
<1> QED BY <1>2, <1>4, <1>5 DEF Precedes, t

\* Where the entries of a list are once one is appended.
LEMMA AppendPositions ==
    ASSUME NEW S, NEW s \in Seq(S), NEW e \in S
    PROVE  /\ Append(s, e) \in Seq(S)
           /\ Len(s) \in Nat /\ DOMAIN s = 1 .. Len(s)
           /\ DOMAIN Append(s, e) = 1 .. Len(s) + 1
           /\ \A k \in 1 .. Len(s) : Append(s, e)[k] = s[k]
           /\ Append(s, e)[Len(s) + 1] = e
BY LenProperties

\* Appending a new entry adds it behind everything else.
LEMMA AppendKeepsOrder ==
    ASSUME NEW S, NEW s \in Seq(S), NEW e \in S
    PROVE  /\ Range(Append(s, e)) = Range(s) \cup {e}
           /\ IsInjective(s) /\ e \notin Range(s) => IsInjective(Append(s, e))
           /\ \A x, y : Precedes(s, x, y) => Precedes(Append(s, e), x, y)
           /\ \A x \in Range(s) : Precedes(Append(s, e), x, e)
<1> DEFINE t == Append(s, e)
<1>1. /\ Len(s) \in Nat /\ DOMAIN s = 1 .. Len(s) /\ DOMAIN t = 1 .. Len(s) + 1
      /\ \A k \in 1 .. Len(s) : t[k] = s[k]
      /\ t[Len(s) + 1] = e
  BY AppendPositions
<1> HIDE DEF t
<1>2. Range(t) = Range(s) \cup {e}
  BY <1>1 DEF Range
<1>3. ASSUME IsInjective(s), e \notin Range(s) PROVE IsInjective(t)
  <2>1. \A m \in 1 .. Len(s) : t[m] = s[m] /\ s[m] # e
    BY <1>1, <1>3 DEF Range
  <2> SUFFICES ASSUME NEW k \in 1 .. Len(s) + 1, NEW l \in 1 .. Len(s) + 1, t[k] = t[l]
               PROVE  k = l
    BY <1>1 DEF IsInjective
  <2> QED BY <1>1, <1>3, <2>1 DEF IsInjective
<1>4. ASSUME NEW x, NEW y, Precedes(s, x, y) PROVE Precedes(t, x, y)
  BY <1>1, <1>4 DEF Precedes
<1>5. ASSUME NEW x \in Range(s) PROVE Precedes(t, x, e)
  <2>1. PICK k \in 1 .. Len(s) : s[k] = x BY <1>1 DEF Range
  <2>2. k \in DOMAIN t /\ Len(s) + 1 \in DOMAIN t /\ k < Len(s) + 1 /\ t[k] = x
    BY <1>1, <2>1
  <2> QED BY <2>2, <1>1 DEF Precedes
<1> QED BY <1>2, <1>3, <1>4, <1>5 DEF t

\* A list that has the first p - 1 entries of a list without duplicates is at
\* least p - 1 long.
LEMMA EnoughEntries ==
    ASSUME NEW S, NEW s \in Seq(S), NEW t \in Seq(S), IsInjective(t),
           NEW p \in 1 .. Len(t) + 1,
           \A k \in 1 .. p - 1 : t[k] \in Range(s)
    PROVE  p <= Len(s) + 1
<1> DEFINE f == [k \in 1 .. p - 1 |-> t[k]]
<1>1. Len(t) \in Nat /\ DOMAIN t = 1 .. Len(t) /\ p - 1 \in Nat /\ Len(s) \in Nat
  BY LenProperties
<1>2. f \in Injection(1 .. p - 1, Range(s))
  <2>1. f \in [1 .. p - 1 -> Range(s)]
    OBVIOUS
  <2>2. \A k \in 1 .. p - 1 : k \in DOMAIN t /\ f[k] = t[k]
    BY <1>1
  <2>3. IsInjective(f)
    BY <2>2 DEF IsInjective
  <2> QED BY <2>1, <2>3 DEF Injection
<1>3. /\ IsFiniteSet(Range(s)) /\ Cardinality(Range(s)) \in Nat
      /\ Cardinality(Range(s)) <= Len(s)
  BY RangeCardinality
<1>4. Cardinality(1 .. p - 1) = p - 1
  BY <1>1, IndexCardinality
<1> HIDE DEF f
<1>5. Cardinality(1 .. p - 1) <= Cardinality(Range(s))
  BY <1>2, <1>3, FS_Injection
<1> QED BY <1>1, <1>3, <1>4, <1>5

\* In a list without duplicates no entry stands on both sides of another.
LEMMA OneWay ==
    ASSUME NEW s, IsInjective(s), NEW x, NEW y, Precedes(s, x, y), Precedes(s, y, x),
           DOMAIN s \subseteq Nat
    PROVE  FALSE
<1>1. PICK i, j \in DOMAIN s : i < j /\ s[i] = x /\ s[j] = y
  BY DEF Precedes
<1>2. PICK k, l \in DOMAIN s : k < l /\ s[k] = y /\ s[l] = x
  BY DEF Precedes
<1>3. i = l /\ j = k
  BY <1>1, <1>2 DEF IsInjective
<1> QED BY <1>1, <1>2, <1>3

\* Two different entries stand one before the other.
LEMMA EitherWay ==
    ASSUME NEW S, NEW s \in Seq(S), NEW x \in Range(s), NEW y \in Range(s), x # y
    PROVE  Precedes(s, x, y) \/ Precedes(s, y, x)
<1>1. DOMAIN s = 1 .. Len(s) /\ Len(s) \in Nat
  BY LenProperties
<1>2. PICK i \in DOMAIN s : s[i] = x
  BY DEF Range
<1>3. PICK j \in DOMAIN s : s[j] = y
  BY DEF Range
<1>4. i < j \/ j < i
  BY <1>1, <1>2, <1>3
<1> QED BY <1>2, <1>3, <1>4 DEF Precedes

\* Deleting an entry does not change the relative order of the others.
LEMMA RemoveKeepsOrder ==
    ASSUME NEW S, NEW s \in Seq(S), NEW i \in 1 .. Len(s), NEW x, NEW y,
           x # s[i], y # s[i], Precedes(s, x, y)
    PROVE  Precedes(RemoveAt(s, i), x, y)
<1> DEFINE t == RemoveAt(s, i)
           at(k) == IF k < i THEN k ELSE k - 1
<1>1. /\ Len(s) \in Nat /\ i \in Nat /\ DOMAIN s = 1 .. Len(s)
      /\ t \in Seq(S) /\ Len(t) = Len(s) - 1
  BY RemoveAtPositions, LenProperties
<1>2. DOMAIN t = 1 .. Len(s) - 1
  <2> HIDE DEF t
  <2> QED BY <1>1, LenProperties
<1>3. \A m \in 1 .. i - 1 : t[m] = s[m]
  BY RemoveAtPositions
<1>4. \A m \in i .. Len(s) - 1 : t[m] = s[m + 1]
  BY RemoveAtPositions
<1> HIDE DEF t
<1>5. PICK k \in 1 .. Len(s), l \in 1 .. Len(s) : k < l /\ s[k] = x /\ s[l] = y
  BY <1>1 DEF Precedes
<1>6. \A m \in 1 .. Len(s) : m # i => at(m) \in DOMAIN t /\ t[at(m)] = s[m]
  <2> SUFFICES ASSUME NEW m \in 1 .. Len(s), m # i
               PROVE  at(m) \in DOMAIN t /\ t[at(m)] = s[m]
    OBVIOUS
  <2>1. CASE m < i
    <3>1. m \in 1 .. i - 1 /\ at(m) = m /\ m \in 1 .. Len(s) - 1
      BY <2>1, <1>1
    <3> QED BY <3>1, <1>2, <1>3
  <2>2. CASE ~(m < i)
    <3>1. m - 1 \in i .. Len(s) - 1 /\ at(m) = m - 1 /\ m - 1 \in 1 .. Len(s) - 1 /\ m - 1 + 1 = m
      BY <2>2, <1>1
    <3> QED BY <3>1, <1>2, <1>4
  <2> QED BY <2>1, <2>2
<1>7. k # i /\ l # i
  BY <1>5
<1>8. at(k) < at(l)
  BY <1>5, <1>7, <1>1
<1> QED BY <1>5, <1>6, <1>7, <1>8 DEF Precedes, t

\* How far an entry stands from the front, counted by what stands before it.
LEMMA EntriesBefore ==
    ASSUME NEW S, NEW s \in Seq(S), IsInjective(s), NEW i \in 1 .. Len(s)
    PROVE  /\ IsFiniteSet({x \in Range(s) : Precedes(s, x, s[i])})
           /\ Cardinality({x \in Range(s) : Precedes(s, x, s[i])}) = i - 1
<1> DEFINE front == SubSeq(s, 1, i - 1)
<1>1. Len(s) \in Nat /\ i \in Nat /\ DOMAIN s = 1 .. Len(s)
  BY LenProperties
<1>2. /\ front \in Seq(S) /\ Len(front) = i - 1
      /\ \A k \in 1 .. i - 1 : front[k] = s[k]
  BY <1>1, SubSeqProperties, ElementOfSeq, LenProperties
<1> HIDE DEF front
<1>3. DOMAIN front = 1 .. i - 1
  BY <1>2, LenProperties
<1>4. IsInjective(front)
  <2>1. \A k \in 1 .. i - 1 : k \in DOMAIN s /\ front[k] = s[k]
    BY <1>1, <1>2
  <2> QED BY <2>1, <1>3 DEF IsInjective
<1>5. Range(front) = {x \in Range(s) : Precedes(s, x, s[i])}
  <2>1. ASSUME NEW k \in 1 .. i - 1
        PROVE  front[k] \in Range(s) /\ Precedes(s, front[k], s[i])
    <3>1. k \in DOMAIN s /\ i \in DOMAIN s /\ k < i /\ front[k] = s[k]
      BY <1>1, <1>2
    <3> QED BY <3>1 DEF Range, Precedes
  <2>2. ASSUME NEW x \in Range(s), Precedes(s, x, s[i])
        PROVE  x \in Range(front)
    <3>1. PICK k, j \in DOMAIN s : k < j /\ s[k] = x /\ s[j] = s[i]
      BY <2>2 DEF Precedes
    <3>2. j = i
      BY <3>1, <1>1 DEF IsInjective
    <3>3. k \in 1 .. i - 1 /\ front[k] = x
      BY <3>1, <3>2, <1>1, <1>2
    <3> QED BY <3>3, <1>3 DEF Range
  <2>3. \A x \in Range(front) : \E k \in 1 .. i - 1 : front[k] = x
    BY <1>3 DEF Range
  <2> QED BY <2>1, <2>2, <2>3
<1>6. IsFiniteSet(Range(front)) /\ Cardinality(Range(front)) = i - 1
  BY <1>2, <1>4, RangeCardinality
<1> QED BY <1>5, <1>6

\* Two lists without duplicates, of the same members in the same order, are equal.
LEMMA SameOrderSameList ==
    ASSUME NEW S, NEW s \in Seq(S), NEW t \in Seq(S), IsInjective(s), IsInjective(t),
           Range(s) = Range(t), \A x, y \in Range(s) : Precedes(s, x, y) => Precedes(t, x, y)
    PROVE  s = t
<1>1. /\ Len(s) \in Nat /\ DOMAIN s = 1 .. Len(s)
      /\ Len(t) \in Nat /\ DOMAIN t = 1 .. Len(t)
  BY LenProperties
<1>2. Len(s) = Len(t)
  BY RangeCardinality
<1>3. \A x, y \in Range(s) : Precedes(t, x, y) => Precedes(s, x, y)
  <2> SUFFICES ASSUME NEW x \in Range(s), NEW y \in Range(s), Precedes(t, x, y),
                      ~Precedes(s, x, y)
               PROVE  FALSE
    OBVIOUS
  <2>0. DOMAIN t \subseteq Nat
    BY <1>1
  <2>1. CASE x = y
    BY <2>0, <2>1, OneWay
  <2>2. CASE x # y
    <3>1. Precedes(s, y, x)
      BY <2>2, EitherWay
    <3>2. Precedes(t, y, x)
      BY <3>1
    <3> QED BY <2>0, <3>2, OneWay
  <2> QED BY <2>1, <2>2
<1>4. ASSUME NEW i \in 1 .. Len(s) PROVE s[i] = t[i]
  <2>1. s[i] \in Range(s)
    BY <1>1 DEF Range
  <2>2. PICK k \in 1 .. Len(t) : t[k] = s[i]
    BY <2>1, <1>1 DEF Range
  <2>3. {x \in Range(s) : Precedes(s, x, s[i])} = {x \in Range(t) : Precedes(t, x, t[k])}
    BY <1>3, <2>1, <2>2
  <2>4. Cardinality({x \in Range(s) : Precedes(s, x, s[i])}) = i - 1
    BY EntriesBefore
  <2>5. Cardinality({x \in Range(t) : Precedes(t, x, t[k])}) = k - 1
    BY EntriesBefore
  <2>6. i - 1 = k - 1
    BY <2>3, <2>4, <2>5, Zenon
  <2>7. i = k
    BY <2>6, <1>1
  <2> QED BY <2>2, <2>7
<1> QED BY <1>1, <1>2, <1>4, SeqEqual

\* Refilling the shared slots of a full order from the template order, one by
\* one, reads the template order within its bounds, uses each entry once, and
\* so keeps the members of the full order and the order of the template (the
\* loop of ResetRuleOrder).
LEMMA SlotRefill ==
    ASSUME NEW S, NEW full \in Seq(S), NEW T \in Seq(S), NEW L,
           IsInjective(full), IsInjective(T),
           Range(T) \cap L = {}, Range(full) = Range(T) \cup L
    PROVE  /\ \A k \in DOMAIN full : full[k] \notin L => SharedUpTo(full, L, k) \in DOMAIN T
           /\ Refill(full, T, L) \in Seq(S)
           /\ IsInjective(Refill(full, T, L))
           /\ Range(Refill(full, T, L)) = Range(full)
           /\ \A x, y \in Range(T) : Precedes(Refill(full, T, L), x, y) => Precedes(T, x, y)
<1> DEFINE slots(k) == {j \in 1 .. k : full[j] \notin L}
           upTo(k)  == Cardinality(slots(k))
           ids == [k \in DOMAIN full |-> IF full[k] \in L THEN full[k] ELSE T[upTo(k)]]
<1>1. /\ Len(full) \in Nat /\ DOMAIN full = 1 .. Len(full)
      /\ Len(T) \in Nat /\ DOMAIN T = 1 .. Len(T)
  BY LenProperties
<1>2. \A k \in 1 .. Len(full) : IsFiniteSet(slots(k)) /\ upTo(k) \in Nat
  <2> SUFFICES ASSUME NEW k \in 1 .. Len(full)
               PROVE  IsFiniteSet(slots(k)) /\ upTo(k) \in Nat
    OBVIOUS
  <2>1. IsFiniteSet(1 .. k) BY FS_Interval, <1>1
  <2>2. IsFiniteSet(slots(k)) BY <2>1, FS_Subset
  <2> QED BY <2>2, FS_CardinalityType
<1>3. \A k \in 1 .. Len(full) : upTo(k) <= Len(T)
  <2> SUFFICES ASSUME NEW k \in 1 .. Len(full) PROVE upTo(k) <= Len(T)
    OBVIOUS
  <2> DEFINE f == [j \in slots(k) |-> full[j]]
  <2>1. \A j \in slots(k) : j \in DOMAIN full /\ full[j] \in Range(T)
    BY <1>1 DEF Range
  <2>2. f \in Injection(slots(k), Range(T))
    BY <2>1 DEF Injection, IsInjective
  <2>3. /\ IsFiniteSet(Range(T)) /\ Cardinality(Range(T)) = Len(T)
    BY RangeCardinality
  <2> HIDE DEF slots, f
  <2> QED BY <2>2, <2>3, FS_Injection
<1>4. \A k \in 1 .. Len(full) : full[k] \notin L => upTo(k) \in 1 .. Len(T)
  <2> SUFFICES ASSUME NEW k \in 1 .. Len(full), full[k] \notin L
               PROVE  upTo(k) \in 1 .. Len(T)
    OBVIOUS
  <2>1. k \in slots(k) BY <1>1
  <2>2. IsFiniteSet(slots(k)) /\ upTo(k) \in Nat /\ upTo(k) <= Len(T)
    BY <1>2, <1>3
  <2> HIDE DEF slots
  <2>3. upTo(k) # 0 BY <2>1, <2>2, FS_EmptySet
  <2> QED BY <2>2, <2>3, <1>1
<1>5. ASSUME NEW k \in 1 .. Len(full), NEW l \in 1 .. Len(full),
             k < l, full[l] \notin L
      PROVE  upTo(k) < upTo(l)
  <2>1. slots(k) \in SUBSET (slots(l) \ {l}) /\ l \in slots(l)
    BY <1>1, <1>5
  <2>2. IsFiniteSet(slots(l)) /\ upTo(l) \in Nat /\ upTo(k) \in Nat
    BY <1>2
  <2> HIDE DEF slots
  <2>3. /\ IsFiniteSet(slots(l) \ {l})
        /\ Cardinality(slots(l) \ {l}) = upTo(l) - 1
    BY <2>1, <2>2, FS_RemoveElement
  <2>4. upTo(k) <= Cardinality(slots(l) \ {l})
    BY <2>1, <2>3, FS_Subset
  <2> QED BY <2>2, <2>3, <2>4
<1> HIDE DEF slots
<1>6. \A k \in 1 .. Len(full) :
         /\ full[k] \in L => ids[k] = full[k]
         /\ full[k] \notin L => ids[k] = T[upTo(k)] /\ ids[k] \in Range(T)
         /\ ids[k] \in Range(full) /\ ids[k] \in S
  <2> SUFFICES ASSUME NEW k \in 1 .. Len(full)
               PROVE  /\ full[k] \in L => ids[k] = full[k]
                      /\ full[k] \notin L => ids[k] = T[upTo(k)] /\ ids[k] \in Range(T)
                      /\ ids[k] \in Range(full) /\ ids[k] \in S
    OBVIOUS
  <2>1. CASE full[k] \in L
    BY <2>1, <1>1, ElementOfSeq DEF Range
  <2>2. CASE full[k] \notin L
    <3>1. ids[k] = T[upTo(k)] /\ upTo(k) \in 1 .. Len(T) BY <2>2, <1>1, <1>4
    <3>2. T[upTo(k)] \in Range(T) /\ T[upTo(k)] \in S
      BY <3>1, <1>1, ElementOfSeq DEF Range
    <3> QED BY <2>2, <3>1, <3>2
  <2> QED BY <2>1, <2>2
<1>7. DOMAIN ids = 1 .. Len(full) /\ ids \in Seq(S)
  <2>1. ids \in [1 .. Len(full) -> S]
    BY <1>1, <1>6
  <2> QED BY <2>1, <1>1, SeqDef
<1>8. IsInjective(ids)
  <2> SUFFICES ASSUME NEW k \in 1 .. Len(full), NEW l \in 1 .. Len(full), ids[k] = ids[l]
               PROVE  k = l
    BY <1>7 DEF IsInjective
  <2> HIDE DEF ids
  <2>1. CASE full[k] \in L /\ full[l] \in L
    BY <2>1, <1>1, <1>6 DEF IsInjective
  <2>2. CASE full[k] \in L /\ full[l] \notin L
    BY <2>2, <1>6
  <2>3. CASE full[k] \notin L /\ full[l] \in L
    BY <2>3, <1>6
  <2>4. CASE full[k] \notin L /\ full[l] \notin L
    <3>1. T[upTo(k)] = T[upTo(l)] /\ upTo(k) \in DOMAIN T /\ upTo(l) \in DOMAIN T
      BY <2>4, <1>1, <1>4, <1>6
    <3>2. upTo(k) = upTo(l) BY <3>1 DEF IsInjective
    <3>3. ~(k < l) /\ ~(l < k)
      BY <2>4, <3>1, <3>2, <1>1, <1>5
    <3> QED BY <3>3
  <2> QED BY <2>1, <2>2, <2>3, <2>4
<1>9. Range(ids) = Range(full)
  <2> HIDE DEF ids
  <2>1. ids \in Injection(1 .. Len(full), Range(full))
    <3>1. \A k \in DOMAIN ids : ids[k] \in Range(full) BY <1>6, <1>7
    <3>2. ids \in [DOMAIN ids -> Range(full)]
      <4>1. ids = [k \in DOMAIN ids |-> ids[k]] BY DEF ids
      <4> QED BY <3>1, <4>1
    <3> QED BY <3>2, <1>7, <1>8 DEF Injection
  <2>2. /\ IsFiniteSet(Range(full))
        /\ Cardinality(1 .. Len(full)) = Cardinality(Range(full))
    <3>1. IsFiniteSet(Range(full)) /\ Cardinality(Range(full)) = Len(full)
      BY RangeCardinality
    <3>2. Cardinality(1 .. Len(full)) = Len(full)
      BY <1>1, IndexCardinality
    <3> QED BY <3>1, <3>2
  <2>3. ids \in Surjection(1 .. Len(full), Range(full))
    BY <2>1, <2>2, FS_Injection
  <2>4. \A x \in Range(full) : \E k \in 1 .. Len(full) : ids[k] = x
    BY <2>3 DEF Surjection
  <2>5. Range(full) \subseteq Range(ids)
    BY <2>4, <1>7 DEF Range
  <2>6. Range(ids) \subseteq Range(full)
    <3> SUFFICES ASSUME NEW k \in 1 .. Len(full) PROVE ids[k] \in Range(full)
      BY <1>7, Zenon DEF Range
    <3> QED BY <1>6
  <2> QED BY <2>5, <2>6
<1>10. ASSUME NEW x \in Range(T), NEW y \in Range(T), Precedes(ids, x, y)
       PROVE  Precedes(T, x, y)
  <2> HIDE DEF ids
  <2>1. PICK k, l \in 1 .. Len(full) : k < l /\ ids[k] = x /\ ids[l] = y
    BY <1>7, <1>10 DEF Precedes
  <2>2. full[k] \notin L /\ full[l] \notin L
    BY <2>1, <1>6
  <2>3. upTo(k) < upTo(l)
    BY <2>1, <2>2, <1>5
  <2>4. /\ upTo(k) \in DOMAIN T /\ T[upTo(k)] = x
        /\ upTo(l) \in DOMAIN T /\ T[upTo(l)] = y
    BY <2>1, <2>2, <1>1, <1>4, <1>6
  <2> QED BY <2>3, <2>4 DEF Precedes
<1> QED BY <1>1, <1>4, <1>7, <1>8, <1>9, <1>10 DEF slots, SharedUpTo, Refill

-----------------------------------------------------------------------------
(* Loops as folds *)

\* A set of natural numbers that is not empty has a least one.
LEMMA LeastNumber ==
    ASSUME NEW T \in SUBSET Nat, T # {}
    PROVE  \E m \in T : \A k \in T : m <= k
<1> DEFINE F == {1 .. n : n \in T}
           R == StrictSubsetOrdering(Nat)
           S == FiniteSubsetsOf(Nat)
<1>1. F \subseteq S
  <2> SUFFICES ASSUME NEW n \in T PROVE 1 .. n \in S
    OBVIOUS
  <2>1. 1 .. n \in SUBSET Nat
    OBVIOUS
  <2>2. IsFiniteSet(1 .. n)
    <3>1. n \in Nat
      OBVIOUS
    <3> QED BY <3>1, IndexCardinality
  <2> QED BY <2>1, <2>2, Zenon DEF FiniteSubsetsOf
<1>2. F # {}
  OBVIOUS
<1>3. IsWellFoundedOn(R, S)
  BY FS_StrictSubsetOrderingWellFounded
<1>4. \A x, y \in F : x \subseteq y /\ x # y => <<x, y>> \in R
  <2>1. \A x, y \in SUBSET Nat : x \subseteq y /\ x # y => <<x, y>> \in R
    BY DEF StrictSubsetOrdering
  <2> QED BY <2>1
<1> HIDE DEF F, R, S
<1>5. \E x \in F : \A y \in F : ~(<<y, x>> \in R)
  BY <1>1, <1>2, <1>3, WFMin
<1>6. PICK m \in T : \A k \in T : ~(<<1 .. k, 1 .. m>> \in R)
  BY <1>5 DEF F
<1>7. \A k \in T : 1 .. k \subseteq 1 .. m => 1 .. k = 1 .. m
  BY <1>4, <1>6 DEF F
<1>8. ASSUME NEW k \in T, k < m PROVE FALSE
  <2>1. 1 .. k \subseteq 1 .. m /\ m \in 1 .. m /\ m \notin 1 .. k
    BY <1>8
  <2> QED BY <2>1, <1>7
<1> QED BY <1>8

\* Induction over the turns of a loop, for a set P of numbers.
LEMMA TurnInduction ==
    ASSUME NEW n \in Nat, NEW P, 0 \in P, \A k \in 1 .. n : k - 1 \in P => k \in P
    PROVE  \A k \in 0 .. n : k \in P
<1> SUFFICES ASSUME NEW k \in 0 .. n, k \notin P PROVE FALSE
  OBVIOUS
<1> DEFINE T == {m \in Nat : m <= n /\ m \notin P}
<1>1. T \in SUBSET Nat /\ T # {}
  OBVIOUS
<1>2. PICK m \in T : \A l \in T : m <= l
  BY <1>1, LeastNumber
<1>3. m \in 1 .. n /\ m - 1 \notin T /\ m - 1 \in Nat /\ m - 1 <= n
  BY <1>2
<1> QED BY <1>2, <1>3

\* The greatest of the first k indices is k.
LEMMA GreatestIndex ==
    ASSUME NEW n \in Nat, NEW d \in SUBSET (1 .. n), n \in d
    PROVE  Max(d) = n
<1>1. \A x \in d : n >= x /\ x \in Nat
  OBVIOUS
<1>2. \E x \in d : \A y \in d : x >= y
  BY <1>1
<1> DEFINE m == Max(d)
<1>3. m \in d /\ \A y \in d : m >= y
  BY <1>2 DEF Max
<1> HIDE DEF m
<1>4. m = n
  BY <1>1, <1>3
<1> QED BY <1>4 DEF m

\* The loop Retain stands for: kept[k] is the list after k turns.
RetainLoop(s, K, kept) ==
    /\ kept[0] = <<>>
    /\ \A k \in 1 .. Len(s) :
          kept[k] = IF s[k] \in K THEN Append(kept[k - 1], s[k]) ELSE kept[k - 1]
    /\ Retain(s, K) = kept[Len(s)]

\* The fold behind Retain has such turns.
LEMMA RetainTurns ==
    ASSUME NEW S, NEW s \in Seq(S), NEW K
    PROVE  \E kept \in [0 .. Len(s) -> Seq(S)] : RetainLoop(s, K, kept)
<1> DEFINE n == Len(s)
           Folds(m, iter) ==
              iter = [d \in SUBSET (1 .. m) |->
                        IF d = {} THEN <<>>
                        ELSE IF s[Max(d)] \in K THEN Append(iter[d \ {Max(d)}], s[Max(d)])
                        ELSE iter[d \ {Max(d)}]]
           P == {m \in 0 .. n : \E iter : Folds(m, iter)}
<1>0. n \in Nat /\ DOMAIN s = 1 .. n /\ \A k \in 1 .. n : s[k] \in S
  BY LenProperties, ElementOfSeq
<1>1. 0 \in P
  <2>1. SUBSET (1 .. 0) = {{}}
    OBVIOUS
  <2> DEFINE iter == [d \in SUBSET (1 .. 0) |-> <<>>]
  <2>2. Folds(0, iter)
    BY <2>1
  <2> HIDE DEF Folds
  <2>3. \E i : Folds(0, i)
    BY <2>2
  <2> QED BY <1>0, <2>3
<1>2. ASSUME NEW k \in 1 .. n, k - 1 \in P PROVE k \in P
  <2>1. PICK iter : Folds(k - 1, iter)
    BY <1>2
  <2> DEFINE step(l) == IF s[k] \in K THEN Append(l, s[k]) ELSE l
             more == [d \in SUBSET (1 .. k) |->
                         IF k \in d THEN step(iter[d \ {k}]) ELSE iter[d]]
  <2>2. ASSUME NEW d \in SUBSET (1 .. k)
        PROVE  more[d] = IF d = {} THEN <<>>
                         ELSE IF s[Max(d)] \in K THEN Append(more[d \ {Max(d)}], s[Max(d)])
                         ELSE more[d \ {Max(d)}]
    <3>1. CASE k \in d
      <4>1. Max(d) = k
        BY <1>0, <3>1, GreatestIndex
      <4>2. d \ {k} \in SUBSET (1 .. k) /\ k \notin d \ {k}
        OBVIOUS
      <4>3. more[d] = step(iter[d \ {k}]) /\ more[d \ {k}] = iter[d \ {k}]
        BY <3>1, <4>2
      <4> HIDE DEF more
      <4> QED BY <3>1, <4>1, <4>3
    <3>2. CASE k \notin d
      <4>1. d \in SUBSET (1 .. k - 1)
        BY <1>0, <3>2
      <4>0. d \ {Max(d)} \in SUBSET (1 .. k) /\ k \notin d \ {Max(d)}
        BY <3>2
      <4>2. more[d] = iter[d] /\ more[d \ {Max(d)}] = iter[d \ {Max(d)}]
        BY <3>2, <4>0, <4>1
      <4>3. iter[d] = IF d = {} THEN <<>>
                      ELSE IF s[Max(d)] \in K THEN Append(iter[d \ {Max(d)}], s[Max(d)])
                      ELSE iter[d \ {Max(d)}]
        BY <2>1, <4>1
      <4> HIDE DEF more
      <4> QED BY <4>2, <4>3
    <3> QED BY <3>1, <3>2
  <2>3. Folds(k, more)
    BY <2>2
  <2> HIDE DEF Folds
  <2>4. \E i : Folds(k, i)
    BY <2>3
  <2> QED BY <2>4
<1>3. \E iter : Folds(n, iter)
  <2> HIDE DEF P
  <2>1. \A k \in 0 .. n : k \in P
    BY <1>0, <1>1, <1>2, TurnInduction
  <2>2. n \in P
    BY <1>0, <2>1
  <2> HIDE DEF Folds
  <2> QED BY <2>2 DEF P
<1> DEFINE F == CHOOSE iter : Folds(n, iter)
<1>4. Folds(n, F)
  <2> HIDE DEF Folds
  <2> QED BY <1>3
<1>5. Retain(s, K) = F[1 .. n]
  BY <1>0, Zenon DEF Retain, FoldLeft, MapThenFoldSet
<1> HIDE DEF F
<1> DEFINE kept == [k \in 0 .. n |-> F[1 .. k]]
<1>6. kept[0] = <<>>
  <2>1. 1 .. 0 = {} /\ {} \in SUBSET (1 .. n)
    OBVIOUS
  <2>2. F[{}] = <<>>
    BY <1>4, <2>1
  <2> QED BY <1>0, <2>1, <2>2
<1>7. ASSUME NEW k \in 1 .. n
      PROVE  kept[k] = IF s[k] \in K THEN Append(kept[k - 1], s[k]) ELSE kept[k - 1]
  <2>1. Max(1 .. k) = k
    BY GreatestIndex
  <2>2. 1 .. k \in SUBSET (1 .. n) /\ (1 .. k) \ {k} = 1 .. k - 1
    BY <1>0
  <2>5. k \in 1 .. k
    BY <1>0
  <2>3. F[1 .. k] = IF s[k] \in K THEN Append(F[1 .. k - 1], s[k]) ELSE F[1 .. k - 1]
    BY <1>4, <2>1, <2>2, <2>5
  <2>4. k \in 0 .. n /\ k - 1 \in 0 .. n
    BY <1>0
  <2> QED BY <2>3, <2>4
<1>8. \A k \in 0 .. n : kept[k] \in Seq(S)
  <2> HIDE DEF kept
  <2> DEFINE Q == {k \in 0 .. n : kept[k] \in Seq(S)}
  <2>1. 0 \in Q
    <3>1. 0 \in 0 .. n /\ <<>> \in Seq(S)
      BY <1>0
    <3> QED BY <1>6, <3>1
  <2>2. ASSUME NEW k \in 1 .. n, k - 1 \in Q PROVE k \in Q
    <3>1. kept[k - 1] \in Seq(S) /\ k \in 0 .. n /\ s[k] \in S
      BY <1>0, <2>2
    <3>2. Append(kept[k - 1], s[k]) \in Seq(S)
      BY <3>1
    <3> QED BY <1>7, <3>1, <3>2
  <2> HIDE DEF Q
  <2>3. \A k \in 0 .. n : k \in Q
    BY <1>0, <2>1, <2>2, TurnInduction
  <2> QED BY <2>3 DEF Q
<1>9. kept[n] = Retain(s, K)
  BY <1>0, <1>5
<1>10. kept \in [0 .. n -> Seq(S)]
  BY <1>8
<1> HIDE DEF kept
<1> QED BY <1>6, <1>7, <1>9, <1>10 DEF RetainLoop

\* Retain keeps the members that it should, once each, in their order.
LEMMA RetainMembers ==
    ASSUME NEW S, NEW s \in Seq(S), NEW K
    PROVE  /\ Retain(s, K) \in Seq(S)
           /\ Range(Retain(s, K)) = Range(s) \cap K
           /\ IsInjective(s) => IsInjective(Retain(s, K))
           /\ \A x, y \in K : Precedes(s, x, y) => Precedes(Retain(s, K), x, y)
<1>1. PICK kept \in [0 .. Len(s) -> Seq(S)] : RetainLoop(s, K, kept)
  BY RetainTurns
<1>2. /\ kept[0] = <<>>
      /\ \A k \in 1 .. Len(s) :
            kept[k] = IF s[k] \in K THEN Append(kept[k - 1], s[k]) ELSE kept[k - 1]
      /\ Retain(s, K) = kept[Len(s)]
  BY <1>1 DEF RetainLoop
<1>3. Len(s) \in Nat /\ DOMAIN s = 1 .. Len(s) /\ \A k \in 1 .. Len(s) : s[k] \in S
  BY LenProperties, ElementOfSeq
<1> DEFINE Done(k) ==
              /\ \A x : x \in Range(kept[k]) <=> \E j \in 1 .. k : s[j] = x /\ x \in K
              /\ IsInjective(s) => IsInjective(kept[k])
              /\ \A i, j \in 1 .. k : (i < j /\ s[i] \in K /\ s[j] \in K) =>
                    Precedes(kept[k], s[i], s[j])
           P == {k \in 0 .. Len(s) : Done(k)}
<1>4. 0 \in P
  <2>1. Range(<<>>) = {} /\ IsInjective(<<>>)
    BY DEF Range, IsInjective
  <2>2. Done(0)
    BY <1>2, <2>1
  <2> HIDE DEF Done
  <2> QED BY <1>3, <2>2
<1>5. ASSUME NEW k \in 1 .. Len(s), k - 1 \in P PROVE k \in P
  <2> DEFINE old == kept[k - 1]
             new == kept[k]
             e == s[k]
  <2>1. k \in Nat /\ k - 1 \in 0 .. Len(s) /\ k \in 0 .. Len(s) /\ old \in Seq(S) /\ e \in S
    BY <1>3
  <2>2. /\ \A x : x \in Range(old) <=> \E j \in 1 .. k - 1 : s[j] = x /\ x \in K
        /\ IsInjective(s) => IsInjective(old)
        /\ \A i, j \in 1 .. k - 1 : (i < j /\ s[i] \in K /\ s[j] \in K) =>
              Precedes(old, s[i], s[j])
    BY <1>5
  <2>3. new = IF e \in K THEN Append(old, e) ELSE old
    BY <1>2
  <2>4. IsInjective(s) => e \notin Range(old)
    <3> SUFFICES ASSUME IsInjective(s), e \in Range(old) PROVE FALSE
      OBVIOUS
    <3>1. PICK j \in 1 .. k - 1 : s[j] = e
      BY <2>2
    <3>2. j \in DOMAIN s /\ k \in DOMAIN s /\ j # k
      BY <1>3, <2>1
    <3> QED BY <3>1, <3>2 DEF IsInjective
  <2>5. 1 .. k = (1 .. k - 1) \cup {k}
    BY <2>1
  <2> HIDE DEF Done
  <2>6. CASE e \in K
    <3> HIDE DEF old, new, e
    <3>1. /\ Range(new) = Range(old) \cup {e}
          /\ IsInjective(old) /\ e \notin Range(old) => IsInjective(new)
          /\ \A x, y : Precedes(old, x, y) => Precedes(new, x, y)
          /\ \A x \in Range(old) : Precedes(new, x, e)
      BY <2>1, <2>3, <2>6, AppendKeepsOrder
    <3>2. \A x : x \in Range(new) <=> \E j \in 1 .. k : s[j] = x /\ x \in K
      BY <3>1, <2>2, <2>5, <2>6 DEF e
    <3>3. IsInjective(s) => IsInjective(new)
      BY <3>1, <2>2, <2>4
    <3>4. ASSUME NEW i \in 1 .. k, NEW j \in 1 .. k, i < j, s[i] \in K, s[j] \in K
          PROVE  Precedes(new, s[i], s[j])
      <4>1. i \in 1 .. k - 1
        BY <3>4, <2>1
      <4>2. CASE j = k
        <5>1. s[i] \in Range(old)
          BY <3>4, <4>1, <2>2
        <5> QED BY <4>2, <5>1, <3>1 DEF e
      <4>3. CASE j # k
        <5>1. j \in 1 .. k - 1
          BY <4>3, <2>1
        <5> QED BY <3>4, <4>1, <5>1, <3>1, <2>2
      <4> QED BY <4>2, <4>3
    <3> QED BY <2>1, <3>2, <3>3, <3>4 DEF Done, new
  <2>7. CASE e \notin K
    <3> HIDE DEF old, new, e
    <3>1. new = old
      BY <2>3, <2>7
    <3>2. \A x : x \in Range(new) <=> \E j \in 1 .. k : s[j] = x /\ x \in K
      BY <3>1, <2>2, <2>5, <2>7 DEF e
    <3>3. ASSUME NEW i \in 1 .. k, NEW j \in 1 .. k, i < j, s[i] \in K, s[j] \in K
          PROVE  Precedes(new, s[i], s[j])
      <4>1. i \in 1 .. k - 1 /\ j \in 1 .. k - 1
        BY <3>3, <2>1, <2>7 DEF e
      <4> QED BY <3>3, <4>1, <3>1, <2>2
    <3> QED BY <2>1, <2>2, <3>1, <3>2, <3>3 DEF Done, new
  <2> QED BY <2>6, <2>7
<1>6. Done(Len(s))
  <2> HIDE DEF P
  <2>1. \A k \in 0 .. Len(s) : k \in P
    BY <1>3, <1>4, <1>5, TurnInduction
  <2>2. Len(s) \in P
    BY <1>3, <2>1
  <2> HIDE DEF Done
  <2> QED BY <2>2 DEF P
<1>7. Retain(s, K) \in Seq(S)
  BY <1>2, <1>3
<1>8. Range(Retain(s, K)) = Range(s) \cap K
  <2>1. \A x : x \in Range(s) <=> \E j \in 1 .. Len(s) : s[j] = x
    BY <1>3 DEF Range
  <2> QED BY <1>2, <1>6, <2>1
<1>9. ASSUME NEW x \in K, NEW y \in K, Precedes(s, x, y)
      PROVE  Precedes(Retain(s, K), x, y)
  <2>1. PICK i, j \in DOMAIN s : i < j /\ s[i] = x /\ s[j] = y
    BY <1>9 DEF Precedes
  <2> QED BY <1>2, <1>3, <1>6, <2>1
<1> QED BY <1>2, <1>6, <1>7, <1>8, <1>9

\* Retaining all members of a list without duplicates changes nothing.
LEMMA RetainAll ==
    ASSUME NEW S, NEW s \in Seq(S), IsInjective(s)
    PROVE  Retain(s, Range(s)) = s
<1> DEFINE K == Range(s)
           t == Retain(s, K)
<1> HIDE DEF K
<1>1. /\ t \in Seq(S) /\ Range(t) = Range(s) \cap K /\ IsInjective(t)
      /\ \A x, y \in K : Precedes(s, x, y) => Precedes(t, x, y)
  BY RetainMembers
<1> HIDE DEF t
<1>2. Range(t) = Range(s) /\ \A x, y \in Range(s) : Precedes(s, x, y) => Precedes(t, x, y)
  BY <1>1 DEF K
<1>3. s = t
  BY <1>1, <1>2, SameOrderSameList
<1> QED BY <1>3 DEF t, K

\* The loop Place stands for: placed[k] is the list after k turns.
PlaceLoop(list, s, K, placed) ==
    /\ placed[0] = list
    /\ \A k \in 1 .. Len(s) :
          placed[k] = IF s[k] \in K THEN placed[k - 1] ELSE InsertAt(placed[k - 1], k, s[k])
    /\ Place(list, s, K) = placed[Len(s)]

\* The fold behind Place has such turns.
LEMMA PlaceTurns ==
    ASSUME NEW S, NEW s \in Seq(S), NEW list, NEW K
    PROVE  \E placed : PlaceLoop(list, s, K, placed)
<1> DEFINE n == Len(s)
           indices == [i \in DOMAIN s |-> i]
           at(d) == indices[Max(d)]
           Folds(m, iter) ==
              iter = [d \in SUBSET (1 .. m) |->
                        IF d = {} THEN list
                        ELSE IF s[at(d)] \in K THEN iter[d \ {Max(d)}]
                        ELSE InsertAt(iter[d \ {Max(d)}], at(d), s[at(d)])]
           P == {m \in 0 .. n : \E iter : Folds(m, iter)}
<1>0. n \in Nat /\ DOMAIN s = 1 .. n /\ \A k \in 1 .. n : s[k] \in S
  BY LenProperties, ElementOfSeq
<1> HIDE DEF at
<1>1. 0 \in P
  <2>1. SUBSET (1 .. 0) = {{}}
    OBVIOUS
  <2> DEFINE iter == [d \in SUBSET (1 .. 0) |-> list]
  <2>2. Folds(0, iter)
    BY <2>1
  <2> HIDE DEF Folds
  <2>3. \E i : Folds(0, i)
    BY <2>2
  <2> QED BY <1>0, <2>3
<1>2. ASSUME NEW k \in 1 .. n, k - 1 \in P PROVE k \in P
  <2>1. PICK iter : Folds(k - 1, iter)
    BY <1>2
  <2> DEFINE step(l) == IF s[k] \in K THEN l ELSE InsertAt(l, k, s[k])
             more == [d \in SUBSET (1 .. k) |->
                         IF k \in d THEN step(iter[d \ {k}]) ELSE iter[d]]
  <2>2. ASSUME NEW d \in SUBSET (1 .. k)
        PROVE  more[d] = IF d = {} THEN list
                         ELSE IF s[at(d)] \in K THEN more[d \ {Max(d)}]
                         ELSE InsertAt(more[d \ {Max(d)}], at(d), s[at(d)])
    <3>1. CASE k \in d
      <4>1. Max(d) = k /\ at(d) = k
        BY <1>0, <3>1, GreatestIndex DEF at
      <4>2. d \ {k} \in SUBSET (1 .. k) /\ k \notin d \ {k}
        OBVIOUS
      <4>3. more[d] = step(iter[d \ {k}]) /\ more[d \ {k}] = iter[d \ {k}]
        BY <3>1, <4>2
      <4> HIDE DEF more
      <4> QED BY <3>1, <4>1, <4>3
    <3>2. CASE k \notin d
      <4>1. d \in SUBSET (1 .. k - 1)
        BY <1>0, <3>2
      <4>0. d \ {Max(d)} \in SUBSET (1 .. k) /\ k \notin d \ {Max(d)}
        BY <3>2
      <4>2. more[d] = iter[d] /\ more[d \ {Max(d)}] = iter[d \ {Max(d)}]
        BY <3>2, <4>0, <4>1
      <4>3. iter[d] = IF d = {} THEN list
                      ELSE IF s[at(d)] \in K THEN iter[d \ {Max(d)}]
                      ELSE InsertAt(iter[d \ {Max(d)}], at(d), s[at(d)])
        BY <2>1, <4>1
      <4> HIDE DEF more
      <4> QED BY <4>2, <4>3
    <3> QED BY <3>1, <3>2
  <2>3. Folds(k, more)
    BY <2>2
  <2> HIDE DEF Folds
  <2>4. \E i : Folds(k, i)
    BY <2>3
  <2> QED BY <2>4
<1>3. \E iter : Folds(n, iter)
  <2> HIDE DEF P
  <2>1. \A k \in 0 .. n : k \in P
    BY <1>0, <1>1, <1>2, TurnInduction
  <2>2. n \in P
    BY <1>0, <2>1
  <2> HIDE DEF Folds
  <2> QED BY <2>2 DEF P
<1> DEFINE F == CHOOSE iter : Folds(n, iter)
<1>4. Folds(n, F)
  <2> HIDE DEF Folds
  <2> QED BY <1>3
<1>5. Place(list, s, K) = F[1 .. n]
  <2>1. DOMAIN indices = 1 .. n
    BY <1>0
  <2> QED BY <2>1, Zenon DEF Place, FoldLeftDomain, FoldLeft, MapThenFoldSet, at
<1> HIDE DEF F
<1> DEFINE placed == [k \in 0 .. n |-> F[1 .. k]]
<1>6. placed[0] = list
  <2>1. 1 .. 0 = {} /\ {} \in SUBSET (1 .. n)
    OBVIOUS
  <2>2. F[{}] = list
    BY <1>4, <2>1
  <2> QED BY <1>0, <2>1, <2>2
<1>7. ASSUME NEW k \in 1 .. n
      PROVE  placed[k] = IF s[k] \in K THEN placed[k - 1] ELSE InsertAt(placed[k - 1], k, s[k])
  <2>1. Max(1 .. k) = k /\ at(1 .. k) = k
    BY <1>0, GreatestIndex DEF at
  <2>2. 1 .. k \in SUBSET (1 .. n) /\ (1 .. k) \ {k} = 1 .. k - 1
    BY <1>0
  <2>5. k \in 1 .. k
    BY <1>0
  <2>3. F[1 .. k] = IF s[k] \in K THEN F[1 .. k - 1] ELSE InsertAt(F[1 .. k - 1], k, s[k])
    BY <1>4, <2>1, <2>2, <2>5
  <2>4. k \in 0 .. n /\ k - 1 \in 0 .. n
    BY <1>0
  <2> QED BY <2>3, <2>4
<1>8. placed[n] = Place(list, s, K)
  BY <1>0, <1>5
<1> HIDE DEF placed
<1> QED BY <1>6, <1>7, <1>8 DEF PlaceLoop

\* Placing the entries of s into a list that has the known ones already never
\* reaches past its end; nothing that was there is lost or reordered.
LEMMA PlaceMembers ==
    ASSUME NEW S, NEW list \in Seq(S), NEW s \in Seq(S), NEW K, IsInjective(s),
           Range(s) \cap K \subseteq Range(list)
    PROVE  /\ Place(list, s, K) \in Seq(S)
           /\ Range(Place(list, s, K)) = Range(list) \cup Range(s)
           /\ \A x, y : Precedes(list, x, y) => Precedes(Place(list, s, K), x, y)
<1>1. PICK placed : PlaceLoop(list, s, K, placed)
  BY PlaceTurns
<1>2. /\ placed[0] = list
      /\ \A k \in 1 .. Len(s) :
            placed[k] = IF s[k] \in K THEN placed[k - 1] ELSE InsertAt(placed[k - 1], k, s[k])
      /\ Place(list, s, K) = placed[Len(s)]
  BY <1>1 DEF PlaceLoop
<1>3. Len(s) \in Nat /\ DOMAIN s = 1 .. Len(s) /\ \A k \in 1 .. Len(s) : s[k] \in S
  BY LenProperties, ElementOfSeq
<1> DEFINE Done(k) ==
              /\ placed[k] \in Seq(S)
              /\ \A x : x \in Range(placed[k]) <=>
                           x \in Range(list) \/ \E j \in 1 .. k : s[j] = x
              /\ \A x, y : Precedes(list, x, y) => Precedes(placed[k], x, y)
           P == {k \in 0 .. Len(s) : Done(k)}
<1>4. 0 \in P
  <2>1. Done(0)
    BY <1>2
  <2> HIDE DEF Done
  <2> QED BY <1>3, <2>1
<1>5. ASSUME NEW k \in 1 .. Len(s), k - 1 \in P PROVE k \in P
  <2> DEFINE old == placed[k - 1]
             new == placed[k]
             e == s[k]
  <2>1. k \in Nat /\ k - 1 \in 0 .. Len(s) /\ k \in 0 .. Len(s) /\ e \in S /\ e \in Range(s)
    BY <1>3 DEF Range
  <2>2. /\ old \in Seq(S)
        /\ \A x : x \in Range(old) <=> x \in Range(list) \/ \E j \in 1 .. k - 1 : s[j] = x
        /\ \A x, y : Precedes(list, x, y) => Precedes(old, x, y)
    BY <1>5
  <2>3. new = IF e \in K THEN old ELSE InsertAt(old, k, e)
    BY <1>2
  <2>4. 1 .. k = (1 .. k - 1) \cup {k}
    BY <2>1
  <2>5. k \in 1 .. Len(old) + 1
    <3>1. k \in 1 .. Len(s) + 1 /\ \A j \in 1 .. k - 1 : s[j] \in Range(old)
      BY <1>3, <2>1, <2>2
    <3> HIDE DEF old
    <3>2. Len(old) \in Nat
      BY <2>2, LenProperties
    <3> QED BY <2>1, <2>2, <3>1, <3>2, EnoughEntries
  <2> HIDE DEF Done, old, new
  <2>6. /\ new \in Seq(S)
        /\ Range(new) = Range(old) \cup {e}
        /\ \A x, y : Precedes(old, x, y) => Precedes(new, x, y)
    <3> HIDE DEF e
    <3>1. CASE e \in K
      <4>1. e \in Range(old)
        BY <2>1, <2>2, <3>1
      <4> QED BY <2>2, <2>3, <3>1, <4>1
    <3>2. CASE e \notin K
      BY <3>2, <2>1, <2>2, <2>3, <2>5, InsertAtPositions, InsertAtMembers, InsertKeepsOrder
    <3> QED BY <3>1, <3>2
  <2>7. \A x : x \in Range(new) <=> x \in Range(list) \/ \E j \in 1 .. k : s[j] = x
    BY <2>2, <2>4, <2>6
  <2> QED BY <2>1, <2>2, <2>6, <2>7 DEF Done, new
<1>6. Done(Len(s))
  <2> HIDE DEF P
  <2>1. \A k \in 0 .. Len(s) : k \in P
    BY <1>3, <1>4, <1>5, TurnInduction
  <2>2. Len(s) \in P
    BY <1>3, <2>1
  <2> HIDE DEF Done
  <2> QED BY <2>2 DEF P
<1>7. \A x : x \in Range(s) <=> \E j \in 1 .. Len(s) : s[j] = x
  BY <1>3 DEF Range
<1> QED BY <1>2, <1>6, <1>7

\* What is retained keeps its order, both ways.
LEMMA RetainOrder ==
    ASSUME NEW S, NEW s \in Seq(S), NEW K, IsInjective(s),
           NEW x \in Range(s) \cap K, NEW y \in Range(s) \cap K
    PROVE  Precedes(Retain(s, K), x, y) <=> Precedes(s, x, y)
<1> DEFINE t == Retain(s, K)
<1>1. /\ t \in Seq(S) /\ IsInjective(t)
      /\ \A u, v \in K : Precedes(s, u, v) => Precedes(t, u, v)
  BY RetainMembers
<1> HIDE DEF t
<1>2. DOMAIN t \subseteq Nat
  BY <1>1, LenProperties
<1>3. ASSUME Precedes(t, x, y) PROVE Precedes(s, x, y)
  <2>1. x # y
    BY <1>1, <1>2, <1>3 DEF Precedes, IsInjective
  <2>2. CASE Precedes(s, y, x)
    <3>1. Precedes(t, y, x)
      BY <1>1, <2>2
    <3> QED BY <1>1, <1>2, <1>3, <3>1, OneWay
  <2> QED BY <2>1, <2>2, EitherWay
<1> QED BY <1>1, <1>3 DEF t

\* Part of a list in the same order is what is retained of the list.
LEMMA PartIsRetained ==
    ASSUME NEW S, NEW s \in Seq(S), NEW t \in Seq(S), IsInjective(s), IsInjective(t), NEW K,
           Range(t) = Range(s) \cap K,
           \A x, y \in Range(t) : Precedes(t, x, y) => Precedes(s, x, y)
    PROVE  t = Retain(s, K)
<1> DEFINE u == Retain(s, K)
<1>1. /\ u \in Seq(S) /\ IsInjective(u) /\ Range(u) = Range(s) \cap K
      /\ \A x, y \in K : Precedes(s, x, y) => Precedes(u, x, y)
  BY RetainMembers
<1> HIDE DEF u
<1>2. \A x, y \in Range(t) : Precedes(t, x, y) => Precedes(u, x, y)
  BY <1>1
<1>3. t = u
  BY <1>1, <1>2, SameOrderSameList
<1> QED BY <1>3 DEF u
=============================================================================
