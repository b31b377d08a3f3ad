------------------------- MODULE TemplateStringProofs -------------------------
(***************************************************************************)
(* The two readings of a template string agree and are what the contract   *)
(* says, for strings of any length over any alphabet.                      *)
(***************************************************************************)
EXTENDS TemplateString, EditLemmas

\* A whole reference is found in the first turn of the loop or never, and it is
\* what collectNames looks for.
ScanInv ==
    pc = "scan" =>
        /\ references < i
        /\ references = 0 <=> name = None
        /\ whole => references = 1 /\ i = Len(s) + 1 /\ Declares /\ name = DeclaredName
        /\ Declares => i = 1 \/ whole

IInv == TypeOK /\ ScanInv /\ DiscoveryAgrees

-----------------------------------------------------------------------------

\* The string of a declaration is well formed in the scanner's eyes, and the
\* only "}" is its last character.
LEMMA DeclarationIsReference ==
    ASSUME TypeOK, Declares
    PROVE  /\ WellFormed(1, Len(s))
           /\ \A end \in DOMAIN s : WellFormed(1, end) => end = Len(s)
<1>1. /\ s \in Seq(Char) /\ Len(s) \in Nat /\ 1 < Len(s)
      /\ s[2] = Open /\ s[Len(s)] = Close
      /\ DeclaredName \in Seq(Letter) /\ DeclaredName # <<>>
  BY DEF TypeOK, Declares, Pair, DeclaredName, ValidVariableName
<1>2. /\ Len(s) - 1 \in Nat /\ Len(s) # 2
      /\ DeclaredName = [k \in 1 .. Len(s) - 3 |-> s[k + 2]]
      /\ Len(DeclaredName) = Len(s) - 3 /\ Len(s) > 3
  BY <1>1 DEF DeclaredName
<1>3. ASSUME NEW j \in 3 .. Len(s) - 1 PROVE s[j] # Close
  <2>1. j - 2 \in 1 .. Len(DeclaredName) /\ DeclaredName[j - 2] = s[j]
    BY <1>1, <1>2
  <2>2. DeclaredName[j - 2] \in Letter
    BY <1>1, <2>1
  <2> QED BY <2>1, <2>2, LetterAssumption
<1>4. WellFormed(1, Len(s))
  BY <1>1, <1>2, <1>3 DEF WellFormed, FirstClose, Named, DeclaredName, ValidVariableName
<1>5. ASSUME NEW end \in DOMAIN s, WellFormed(1, end) PROVE end = Len(s)
  BY <1>1, <1>3, <1>5 DEF WellFormed, FirstClose
<1> QED BY <1>4, <1>5

\* The invariant before the first character is read.
LEMMA InitInv == Init => IInv
<1> SUFFICES ASSUME Init PROVE IInv
  OBVIOUS
<1>1. s \in Seq(Char) /\ Len(s) \in Nat
  BY InputsAssumption DEF Init
<1>2. TypeOK
  <2>1. out \in Seq(Char) /\ i \in 1 .. Len(s) + 1 /\ references \in 0 .. Len(s)
    BY <1>1, EmptySeq DEF Init
  <2>2. name \in Seq(Letter) \cup {None} /\ whole \in BOOLEAN
    BY DEF Init
  <2> QED BY <1>1, <2>1, <2>2 DEF Init, TypeOK
<1>3. ScanInv /\ DiscoveryAgrees
  BY DEF Init, ScanInv, DiscoveryAgrees
<1> QED BY <1>2, <1>3 DEF IInv

\* Every step keeps the invariant.
LEMMA NextInv == IInv /\ [Next]_vars => IInv'
<1> SUFFICES ASSUME IInv, [Next]_vars PROVE IInv'
  OBVIOUS
<1>1. /\ s \in Seq(Char) /\ Len(s) \in Nat /\ out \in Seq(Char) /\ i \in 1 .. Len(s) + 1
      /\ references \in 0 .. Len(s) /\ name \in Seq(Letter) \cup {None}
  BY DEF IInv, TypeOK
<1>2. None \notin Seq(Letter)
  BY NoNameAssumption, SeqMonotonic DEF Char
<1>3. ASSUME s' = s PROVE (Declares' <=> Declares) /\ DeclaredName' = DeclaredName
  BY <1>3 DEF Declares, DeclaredName, Pair
<1>4. CASE Escape
  <2>1. /\ s' = s /\ i' = i + 2 /\ out' = Append(out, Dollar) /\ i < Len(s) /\ s[i] = Dollar
        /\ s[i + 1] = Dollar /\ pc = "scan"
        /\ UNCHANGED <<references, name, whole, code, pc>>
    BY <1>4 DEF Escape, Pair
  <2>2. TypeOK'
    BY <1>1, <2>1 DEF IInv, TypeOK, Char
  <2>3. ~Declares \/ i # 1
    BY <2>1, MarksAssumption DEF Declares, Pair
  <2>4. ~whole /\ ~Declares
    <3>1. (whole => i = Len(s) + 1) /\ (Declares => i = 1 \/ whole)
      BY <2>1 DEF IInv, ScanInv
    <3>2. i # Len(s) + 1
      BY <1>1, <2>1
    <3> QED BY <2>3, <3>1, <3>2
  <2>5. references' < i' /\ (references' = 0 <=> name' = None)
    BY <1>1, <2>1 DEF IInv, ScanInv
  <2> QED BY <1>3, <2>1, <2>2, <2>4, <2>5 DEF IInv, ScanInv, DiscoveryAgrees
<1>5. CASE Literal
  <2>1. /\ s' = s /\ i' = i + 1 /\ out' = Append(out, s[i]) /\ i <= Len(s)
        /\ ~Pair(i, Dollar, Open) /\ pc = "scan"
        /\ UNCHANGED <<references, name, whole, code, pc>>
    BY <1>5 DEF Literal
  <2>2. TypeOK'
    BY <1>1, <2>1 DEF IInv, TypeOK
  <2>3. ~Declares \/ i # 1
    BY <2>1 DEF Declares
  <2> QED BY <1>1, <1>3, <2>1, <2>2, <2>3 DEF IInv, ScanInv, DiscoveryAgrees
<1>6. CASE Reference
  <2>1. PICK end \in DOMAIN s :
           /\ WellFormed(i, end)
           /\ name' = Named(i, end) /\ whole' = (i = 1 /\ end = Len(s)) /\ i' = end + 1
    BY <1>6 DEF Reference
  <2>2. /\ pc = "scan" /\ Pair(i, Dollar, Open) /\ references' = references + 1
        /\ UNCHANGED <<s, out, code, pc>>
    BY <1>6 DEF Reference
  <2>3. end \in i + 2 .. Len(s) /\ s[end] = Close /\ Named(i, end) \in Seq(Letter)
        /\ Named(i, end) # <<>>
    BY <2>1 DEF WellFormed, FirstClose, ValidVariableName
  <2>4. references < i /\ (references > 0 => i > 1)
    BY <1>1, <2>2 DEF IInv, ScanInv
  <2>5. TypeOK'
    BY <1>1, <2>1, <2>2, <2>3, <2>4 DEF IInv, TypeOK
  <2>6. references' < i' /\ references' # 0 /\ name' # None
    BY <1>1, <1>2, <2>1, <2>2, <2>3, <2>4
  <2>7. ASSUME whole'
        PROVE  references' = 1 /\ i' = Len(s') + 1 /\ Declares' /\ name' = DeclaredName'
    <3>0. i = 1 /\ end = Len(s)
      BY <2>1, <2>7
    <3>1. i = 1 /\ end = Len(s) /\ references = 0
      BY <1>1, <2>4, <3>0
    <3>2. Named(i, end) = DeclaredName
      <4>1. i + 2 = 3 /\ end - 1 = Len(s) - 1
        BY <3>1
      <4> QED BY <4>1 DEF Named, DeclaredName
    <3>3. Declares
      BY <2>2, <2>3, <3>1, <3>2 DEF Declares, DeclaredName, ValidVariableName
    <3>4. references' = 1 /\ i' = Len(s') + 1
      BY <2>1, <2>2, <3>1
    <3> QED BY <1>3, <2>1, <2>2, <3>2, <3>3, <3>4
  <2>8. ASSUME Declares' PROVE whole'
    <3>1. Declares /\ ~whole
      BY <1>1, <1>3, <2>2, <2>8 DEF IInv, ScanInv, Pair
    <3>2. i = 1
      BY <2>2, <3>1 DEF IInv, ScanInv
    <3> QED BY <2>1, <3>1, <3>2, DeclarationIsReference DEF IInv
  <2> QED BY <2>2, <2>5, <2>6, <2>7, <2>8 DEF IInv, ScanInv, DiscoveryAgrees
<1>7. CASE InvalidReference
  <2>1. /\ pc = "scan" /\ Pair(i, Dollar, Open) /\ ~ \E end \in DOMAIN s : WellFormed(i, end)
        /\ code' = "invalid_reference" /\ name' = None /\ pc' = "done"
        /\ UNCHANGED <<s, i, out, references, whole>>
    BY <1>7 DEF InvalidReference
  <2>2. ~Declares
    <3> SUFFICES ASSUME Declares PROVE FALSE
      OBVIOUS
    <3>1. i = 1
      BY <1>1, <2>1 DEF IInv, ScanInv, Pair
    <3>2. Len(s) \in DOMAIN s
      BY <1>1, <2>1 DEF Pair
    <3> QED BY <2>1, <3>1, <3>2, DeclarationIsReference DEF IInv
  <2>3. TypeOK'
    BY <2>1 DEF IInv, TypeOK
  <2> QED BY <1>3, <2>1, <2>2, <2>3 DEF IInv, ScanInv, DiscoveryAgrees, Substituted
<1>8. CASE Finish
  <2>1. /\ pc = "scan" /\ i > Len(s) /\ pc' = "done"
        /\ code' = IF references = 0 \/ (references = 1 /\ whole)
                   THEN None ELSE "unsupported_interpolation"
        /\ name' = IF references > 1 THEN None ELSE name
        /\ UNCHANGED <<s, i, out, references, whole>>
    BY <1>8 DEF Finish
  <2>2. Declares <=> whole
    BY <1>1, <2>1 DEF IInv, ScanInv, Declares, Pair
  <2>3. TypeOK'
    BY <2>1 DEF IInv, TypeOK
  <2>4. CASE whole
    <3>1. references = 1 /\ name = DeclaredName /\ name # None
      BY <1>1, <2>1, <2>4 DEF IInv, ScanInv
    <3>2. code' = None /\ name' = DeclaredName' /\ name' # None
      BY <1>3, <2>1, <2>4, <3>1
    <3> QED BY <1>3, <2>1, <2>2, <2>3, <2>4, <3>2 DEF IInv, ScanInv, DiscoveryAgrees, Substituted
  <2>5. CASE ~whole
    <3>1. ~Declares'
      BY <1>3, <2>1, <2>2, <2>5
    <3>2. references = 0 => name' = None
      BY <1>1, <2>1 DEF IInv, ScanInv
    <3>3. ~Substituted'
      BY <2>1, <2>5, <3>2, NoNameAssumption DEF Substituted
    <3> QED BY <2>1, <2>3, <3>1, <3>3 DEF IInv, ScanInv, DiscoveryAgrees
  <2> QED BY <2>4, <2>5
<1>9. CASE UNCHANGED vars
  BY <1>3, <1>9 DEF vars, IInv, TypeOK, ScanInv, DiscoveryAgrees, Substituted
<1> QED BY <1>4, <1>5, <1>6, <1>7, <1>8, <1>9 DEF Next

\* The invariant holds throughout.
LEMMA AlwaysInv == Spec => []IInv
<1> QED BY InitInv, NextInv, PTL DEF Spec

-----------------------------------------------------------------------------
(* Escapes *)

\* How the runs of "$" grow from one character to the next.
LEMMA RunsOfDollars ==
    ASSUME s \in Seq(Char)
    PROVE  /\ RunOfDollars(0) = 0
           /\ \A k \in 0 .. Len(s) : RunOfDollars(k) \in Nat
           /\ \A k \in 1 .. Len(s) :
                 RunOfDollars(k) = IF s[k] = Dollar THEN RunOfDollars(k - 1) + 1 ELSE 0
<1> DEFINE others(k) == {j \in 0 .. k : j = 0 \/ s[j] # Dollar}
           n == Len(s)
           greatest(k, m) == m \in others(k) /\ \A j \in others(k) : m >= j
           P == {k \in 0 .. n : \E m : greatest(k, m)}
<1>1. n \in Nat
  BY LenProperties
<1>2. \A k \in 1 .. n : s[k] = Dollar => others(k) = others(k - 1)
  BY <1>1
<1>3. \A k \in 1 .. n : s[k] # Dollar => greatest(k, k)
  BY <1>1
<1>4. greatest(0, 0)
  OBVIOUS
<1>5. \A k \in 0 .. n : k \in P
  <2>1. 0 \in P
    BY <1>1, <1>4
  <2>2. ASSUME NEW k \in 1 .. n, k - 1 \in P PROVE k \in P
    <3>1. CASE s[k] = Dollar
      <4>1. PICK m : greatest(k - 1, m)
        BY <2>2
      <4>2. greatest(k, m)
        BY <1>2, <3>1, <4>1
      <4> QED BY <4>2, <2>2, <1>1
    <3>2. CASE s[k] # Dollar
      BY <1>1, <1>3, <3>2, <2>2
    <3> QED BY <3>1, <3>2
  <2> HIDE DEF P, n
  <2> QED BY <1>1, <2>1, <2>2, TurnInduction
<1>6. ASSUME NEW k \in 0 .. n PROVE greatest(k, Max(others(k))) /\ RunOfDollars(k) = k - Max(others(k))
  <2>1. \E m : greatest(k, m)
    BY <1>5
  <2>2. greatest(k, Max(others(k)))
    BY <1>1, <2>1 DEF Max
  <2> QED BY <2>2 DEF RunOfDollars
<1>7. ASSUME NEW k \in 0 .. n PROVE RunOfDollars(k) \in Nat /\ Max(others(k)) \in 0 .. k
  <2>1. RunOfDollars(k) = k - Max(others(k)) /\ Max(others(k)) \in others(k) /\ k \in Nat
    BY <1>1, <1>6
  <2>2. Max(others(k)) \in 0 .. k
    BY <2>1
  <2> HIDE DEF others
  <2> QED BY <2>1, <2>2
<1>8. RunOfDollars(0) = 0
  <2>1. greatest(0, Max(others(0))) /\ RunOfDollars(0) = 0 - Max(others(0))
    BY <1>1, <1>6
  <2> QED BY <2>1
<1>9. ASSUME NEW k \in 1 .. n
      PROVE  RunOfDollars(k) = IF s[k] = Dollar THEN RunOfDollars(k - 1) + 1 ELSE 0
  <2>1. CASE s[k] = Dollar
    <3>1. others(k) = others(k - 1)
      BY <1>2, <2>1
    <3>2. /\ RunOfDollars(k) = k - Max(others(k))
          /\ RunOfDollars(k - 1) = (k - 1) - Max(others(k - 1))
          /\ Max(others(k)) \in Nat /\ k \in Nat
      <4>1. k \in 0 .. n /\ k - 1 \in 0 .. n
        BY <1>1
      <4> HIDE DEF others
      <4> QED BY <1>6, <1>7, <4>1
    <3>3. RunOfDollars(k - 1) = (k - 1) - Max(others(k))
      BY <3>1, <3>2
    <3> HIDE DEF others
    <3> QED BY <2>1, <3>2, <3>3
  <2>2. CASE s[k] # Dollar
    <3>1. /\ RunOfDollars(k) = k - Max(others(k))
          /\ greatest(k, Max(others(k)))
      BY <1>1, <1>6
    <3>2. Max(others(k)) = k
      BY <1>1, <1>3, <2>2, <3>1
    <3> QED BY <2>2, <3>1, <3>2
  <2> QED BY <2>1, <2>2
<1> QED BY <1>7, <1>8, <1>9

\* Behind an escape a token begins, and so it does behind any other character
\* that begins one; the second half of an escape begins none.
LEMMA NextToken ==
    ASSUME s \in Seq(Char), NEW k \in 1 .. Len(s), BeginsToken(k)
    PROVE  /\ Pair(k, Dollar, Dollar) =>
                 ~BeginsToken(k + 1) /\ (k + 2 <= Len(s) => BeginsToken(k + 2))
           /\ ~Pair(k, Dollar, Dollar) /\ k + 1 <= Len(s) => BeginsToken(k + 1)
<1>1. Len(s) \in Nat
  BY LenProperties
<1>2. \A l \in 1 .. Len(s) :
         /\ RunOfDollars(l) \in Nat
         /\ RunOfDollars(l) = IF s[l] = Dollar THEN RunOfDollars(l - 1) + 1 ELSE 0
  BY <1>1, RunsOfDollars
<1>3. ASSUME Pair(k, Dollar, Dollar)
      PROVE  ~BeginsToken(k + 1) /\ (k + 2 <= Len(s) => BeginsToken(k + 2))
  <2>1. s[k] = Dollar /\ s[k + 1] = Dollar /\ k + 1 \in 1 .. Len(s)
    BY <1>1, <1>3 DEF Pair
  <2>2. RunOfDollars(k) \in Nat /\ RunOfDollars(k) % 2 = 1
    BY <1>2, <2>1 DEF BeginsToken
  <2>3. RunOfDollars(k + 1) = RunOfDollars(k) + 1
    BY <1>2, <2>1
  <2>4. ~BeginsToken(k + 1)
    BY <2>1, <2>2, <2>3 DEF BeginsToken
  <2>5. ASSUME k + 2 <= Len(s), s[k + 2] = Dollar PROVE RunOfDollars(k + 2) % 2 = 1
    <3>1. RunOfDollars(k + 2) = RunOfDollars(k + 1) + 1
      <4>1. k + 2 \in 1 .. Len(s) /\ (k + 2) - 1 = k + 1
        BY <1>1, <2>5
      <4> QED BY <1>2, <2>5, <4>1
    <3> QED BY <2>2, <2>3, <3>1
  <2> QED BY <2>4, <2>5 DEF BeginsToken
<1>4. ASSUME ~Pair(k, Dollar, Dollar), k + 1 <= Len(s), s[k + 1] = Dollar
      PROVE  RunOfDollars(k + 1) % 2 = 1
  <2>1. s[k] # Dollar /\ k + 1 \in 1 .. Len(s) /\ (k + 1) - 1 = k
    BY <1>1, <1>4 DEF Pair
  <2>2. RunOfDollars(k) = 0 /\ RunOfDollars(k + 1) = RunOfDollars(k) + 1
    BY <1>2, <1>4, <2>1
  <2> QED BY <2>2
<1> QED BY <1>3, <1>4 DEF BeginsToken

\* The place of a character in the text.
LEMMA Positions ==
    ASSUME s \in Seq(Char)
    PROVE  /\ Position(0) = 0
           /\ \A k \in 1 .. Len(s) :
                 /\ Position(k) \in Nat /\ Position(k - 1) \in Nat
                 /\ Position(k) = Position(k - 1) + IF BeginsToken(k) THEN 1 ELSE 0
<1> DEFINE upto(k) == {j \in 1 .. k : BeginsToken(j)}
<1>1. Len(s) \in Nat
  BY LenProperties
<1>2. Position(0) = 0
  <2>1. upto(0) = {}
    OBVIOUS
  <2> QED BY <2>1, FS_EmptySet DEF Position
<1>3. ASSUME NEW k \in Nat PROVE IsFiniteSet(upto(k)) /\ Cardinality(upto(k)) \in Nat
  <2>1. IsFiniteSet(1 .. k) /\ upto(k) \subseteq 1 .. k
    BY FS_Interval
  <2> QED BY <2>1, FS_Subset, FS_CardinalityType
<1>4. ASSUME NEW k \in 1 .. Len(s)
      PROVE  /\ Position(k) \in Nat /\ Position(k - 1) \in Nat
             /\ Position(k) = Position(k - 1) + IF BeginsToken(k) THEN 1 ELSE 0
  <2>1. k \in Nat /\ k - 1 \in Nat
    BY <1>1
  <2>2. Position(k) \in Nat /\ Position(k - 1) \in Nat
    BY <1>3, <2>1 DEF Position
  <2>3. CASE BeginsToken(k)
    <3>1. upto(k) = upto(k - 1) \cup {k} /\ k \notin upto(k - 1)
      BY <1>1, <2>3
    <3>2. Cardinality(upto(k - 1) \cup {k}) = Cardinality(upto(k - 1)) + 1
      <4> HIDE DEF upto
      <4>1. IsFiniteSet(upto(k - 1))
        BY <1>3, <2>1
      <4> QED BY <3>1, <4>1, FS_AddElement
    <3> QED BY <2>2, <2>3, <3>1, <3>2 DEF Position
  <2>4. CASE ~BeginsToken(k)
    <3>1. upto(k) = upto(k - 1)
      BY <1>1, <2>4
    <3>2. Position(k) = Position(k - 1)
      BY <3>1 DEF Position
    <3> QED BY <2>2, <2>4, <3>2
  <2> QED BY <2>2, <2>3, <2>4
<1> QED BY <1>2, <1>4

\* No "$" stands between the first character of a reference and its end.
LEMMA InsideReference ==
    ASSUME s \in Seq(Char), NEW k \in 1 .. Len(s), NEW end \in DOMAIN s,
           Pair(k, Dollar, Open), WellFormed(k, end)
    PROVE  /\ end \in k + 2 .. Len(s)
           /\ \A j \in k + 1 .. end : s[j] # Dollar
<1>1. /\ Len(s) \in Nat /\ end \in k + 2 .. Len(s) /\ s[end] = Close
      /\ s[k + 1] = Open /\ Named(k, end) \in Seq(Letter)
  BY LenProperties DEF WellFormed, FirstClose, ValidVariableName, Pair
<1>2. /\ Named(k, end) = [j \in 1 .. end - k - 2 |-> s[j + k + 1]]
      /\ Len(Named(k, end)) = end - k - 2
  BY <1>1 DEF Named
<1>3. ASSUME NEW j \in k + 2 .. end - 1 PROVE s[j] # Dollar
  <2>1. j - k - 1 \in 1 .. Len(Named(k, end)) /\ Named(k, end)[j - k - 1] = s[j]
    BY <1>1, <1>2
  <2>2. Named(k, end)[j - k - 1] \in Letter
    BY <1>1, <2>1
  <2> QED BY <2>1, <2>2, LetterAssumption
<1> QED BY <1>1, <1>3, MarksAssumption

-----------------------------------------------------------------------------
(* The outcome *)

\* The first n characters have been copied to the text, without the second
\* halves of escapes.
Copied(n) ==
    /\ Len(out) = Position(n)
    /\ \A k \in 1 .. n :
          BeginsToken(k) => Position(k) \in 1 .. Len(out) /\ out[Position(k)] = s[k]

\* The scanner stands where a token begins; every reference behind it is
\* well-formed, and if there is none all characters behind it are in the text.
ReadInv ==
    pc = "scan" =>
        /\ i <= Len(s) => BeginsToken(i)
        /\ \A k \in Opening : k < i => \E end \in DOMAIN s : WellFormed(k, end)
        /\ references = 0 <=> \A k \in Opening : k >= i
        /\ references = 0 => Copied(i - 1)

\* What is left of a string once it is read does not depend on the run.
LEMMA SameString ==
    ASSUME s' = s
    PROVE  /\ Opening' = Opening
           /\ (\E k \in Opening : ~ \E end \in DOMAIN s : WellFormed(k, end))' <=>
                 \E k \in Opening : ~ \E end \in DOMAIN s : WellFormed(k, end)
           /\ WellFormed(1, Len(s))' <=> WellFormed(1, Len(s))
           /\ \A k, end : WellFormed(k, end)' <=> WellFormed(k, end)
           /\ \A k : BeginsToken(k)' <=> BeginsToken(k)
           /\ \A k : Position(k)' = Position(k)
<1>1. \A k : BeginsToken(k)' <=> BeginsToken(k)
  BY DEF BeginsToken, RunOfDollars
<1>2. \A k : Pair(k, Dollar, Open)' <=> Pair(k, Dollar, Open)
  BY DEF Pair
<1>3. \A k, end : WellFormed(k, end)' <=> WellFormed(k, end)
  BY DEF WellFormed, FirstClose, Named
<1>4. Opening' = Opening
  BY <1>1, <1>2 DEF Opening
<1>5. \A k : Position(k)' = Position(k)
  BY <1>1 DEF Position
<1> QED BY <1>1, <1>3, <1>4, <1>5

\* A string has a reference as a whole exactly if it is a declaration.
LEMMA WholeReference ==
    ASSUME TypeOK
    PROVE  Declares <=> Opening = {1} /\ WellFormed(1, Len(s))
<1>1. s \in Seq(Char) /\ Len(s) \in Nat /\ DOMAIN s = 1 .. Len(s)
  BY LenProperties DEF TypeOK
<1>2. ASSUME Declares PROVE Opening = {1} /\ WellFormed(1, Len(s))
  <2>1. WellFormed(1, Len(s)) /\ Pair(1, Dollar, Open) /\ Len(s) \in DOMAIN s /\ 1 \in 1 .. Len(s)
    BY <1>1, <1>2, DeclarationIsReference DEF Declares, Pair
  <2>2. \A j \in 1 + 1 .. Len(s) : s[j] # Dollar
    BY <1>1, <2>1, InsideReference
  <2>3. RunOfDollars(1) = 1
    <3>1. s[1] = Dollar
      BY <2>1 DEF Pair
    <3>2. 1 - 1 = 0
      OBVIOUS
    <3> QED BY <1>1, <2>1, <3>1, <3>2, RunsOfDollars
  <2>4. 1 \in Opening
    BY <1>1, <2>1, <2>3 DEF Opening, BeginsToken
  <2>5. ASSUME NEW k \in Opening PROVE k = 1
    BY <1>1, <2>2 DEF Opening, Pair
  <2> QED BY <2>1, <2>4, <2>5
<1>3. ASSUME Opening = {1}, WellFormed(1, Len(s)) PROVE Declares
  <2>1. Pair(1, Dollar, Open)
    BY <1>3 DEF Opening
  <2>2. s[Len(s)] = Close /\ ValidVariableName(SubSeq(s, 1 + 2, Len(s) - 1))
    BY <1>3 DEF WellFormed, FirstClose, Named
  <2> QED BY <2>1, <2>2 DEF Declares
<1> QED BY <1>2, <1>3

\* A character that begins a token goes to the end of the text.
LEMMA CopyCharacter ==
    ASSUME TypeOK, NEW m \in 1 .. Len(s), BeginsToken(m), Copied(m - 1),
           s' = s, out' = Append(out, s[m])
    PROVE  Copied(m)'
<1>1. /\ s \in Seq(Char) /\ Len(s) \in Nat /\ m \in 1 .. Len(s)
      /\ out \in Seq(Char) /\ s[m] \in Char
  BY LenProperties DEF TypeOK
<1>2. /\ Len(out) \in Nat /\ Len(out') = Len(out) + 1
      /\ \A k \in 1 .. Len(out) : out'[k] = out[k]
      /\ out'[Len(out) + 1] = s[m]
  BY <1>1
<1>3. /\ Position(m) = Position(m - 1) + 1 /\ Len(out) = Position(m - 1)
  BY <1>1, Positions DEF Copied
<1>4. \A k \in 1 .. m :
         BeginsToken(k) => Position(k) \in 1 .. Len(out') /\ out'[Position(k)] = s[k]
  <2> SUFFICES ASSUME NEW k \in 1 .. m, BeginsToken(k)
               PROVE  Position(k) \in 1 .. Len(out') /\ out'[Position(k)] = s[k]
    OBVIOUS
  <2>1. CASE k = m
    BY <1>2, <1>3, <2>1
  <2>2. CASE k # m
    <3>1. k \in 1 .. m - 1
      BY <1>1, <2>2
    <3>2. Position(k) \in 1 .. Len(out) /\ out[Position(k)] = s[k]
      BY <3>1 DEF Copied
    <3> QED BY <1>2, <3>2
  <2> QED BY <2>1, <2>2
<1>5. (\A k : BeginsToken(k)' <=> BeginsToken(k)) /\ \A k : Position(k)' = Position(k)
  BY SameString
<1>6. Len(out') = Position(m)
  BY <1>2, <1>3
<1> QED BY <1>4, <1>5, <1>6 DEF Copied

\* A second half of an escape adds nothing to the text.
LEMMA SkipCharacter ==
    ASSUME TypeOK, NEW m \in 1 .. Len(s), ~BeginsToken(m), Copied(m - 1)', s' = s
    PROVE  Copied(m)'
<1>1. s \in Seq(Char) /\ Len(s) \in Nat
  BY LenProperties DEF TypeOK
<1>2. Position(m) = Position(m - 1)
  BY <1>1, Positions
<1>3. (\A k : BeginsToken(k)' <=> BeginsToken(k)) /\ \A k : Position(k)' = Position(k)
  BY SameString
<1>4. \A k \in 1 .. m : k = m \/ k \in 1 .. m - 1
  BY <1>1
<1> QED BY <1>2, <1>3, <1>4 DEF Copied

\* The scan begins at a token and with an empty text.
LEMMA InitReads == Init => ReadInv
<1> SUFFICES ASSUME Init PROVE ReadInv
  OBVIOUS
<1>1. s \in Seq(Char) /\ Len(s) \in Nat /\ i = 1 /\ out = <<>> /\ references = 0
  BY InputsAssumption, LenProperties DEF Init
<1>2. 1 <= Len(s) => BeginsToken(1)
  <2> SUFFICES ASSUME 1 <= Len(s), s[1] = Dollar PROVE RunOfDollars(1) % 2 = 1
    BY DEF BeginsToken
  <2>1. 1 \in 1 .. Len(s) /\ 1 - 1 = 0
    BY <1>1
  <2>2. RunOfDollars(1) = RunOfDollars(0) + 1 /\ RunOfDollars(0) = 0
    BY <1>1, <2>1, RunsOfDollars
  <2> QED BY <2>2
<1>3. \A k \in Opening : k >= 1
  BY <1>1 DEF Opening
<1>4. Copied(i - 1)
  <2>1. i - 1 = 0 /\ Position(0) = 0 /\ Len(out) = 0
    BY <1>1, Positions
  <2> QED BY <2>1 DEF Copied
<1>5. /\ i <= Len(s) => BeginsToken(i)
      /\ \A k \in Opening : k >= i
  BY <1>1, <1>2, <1>3
<1>6. \A k \in Opening : ~(k < i)
  BY <1>1, <1>5 DEF Opening
<1> QED BY <1>1, <1>4, <1>5, <1>6 DEF ReadInv

\* The invariant at the next position, said of the string as it is.
LEMMA ReadOn ==
    ASSUME TypeOK, s' = s, NEW n \in Nat, i' = n,
           n <= Len(s) => BeginsToken(n),
           \A k \in Opening : k < n => \E end \in DOMAIN s : WellFormed(k, end),
           references' = 0 <=> \A k \in Opening : k >= n,
           references' = 0 => Copied(n - 1)'
    PROVE  ReadInv'
<1>1. /\ Opening' = Opening
      /\ BeginsToken(n)' <=> BeginsToken(n)
      /\ \A k, end : WellFormed(k, end)' <=> WellFormed(k, end)
  BY SameString
<1>2. (i <= Len(s) => BeginsToken(i))'
  BY <1>1 DEF BeginsToken
<1>3. (\A k \in Opening : k < i => \E end \in DOMAIN s : WellFormed(k, end))'
  <2> SUFFICES ASSUME NEW k \in Opening, k < n
               PROVE  \E end \in DOMAIN s : WellFormed(k, end)'
    BY <1>1
  <2> QED BY <1>1
<1>4. (references = 0 <=> \A k \in Opening : k >= i)'
  BY <1>1
<1>5. (references = 0 => Copied(i - 1))'
  BY DEF Copied
<1> QED BY <1>2, <1>3, <1>4, <1>5 DEF ReadInv

\* Every step of the scanner moves it from token to token.
LEMMA NextReads == IInv /\ ReadInv /\ [Next]_vars => ReadInv'
<1> SUFFICES ASSUME IInv, ReadInv, [Next]_vars PROVE ReadInv'
  OBVIOUS
<1>1. /\ s \in Seq(Char) /\ Len(s) \in Nat /\ DOMAIN s = 1 .. Len(s)
      /\ i \in 1 .. Len(s) + 1 /\ references \in Nat /\ TypeOK
  BY LenProperties DEF IInv, TypeOK
<1>2. CASE Escape
  <2>1. /\ pc = "scan" /\ s' = s /\ i' = i + 2 /\ out' = Append(out, s[i])
        /\ Pair(i, Dollar, Dollar) /\ i \in 1 .. Len(s) /\ i + 1 \in 1 .. Len(s)
        /\ references' = references
    BY <1>1, <1>2 DEF Escape, Pair
  <2>2. PICK m \in 1 .. Len(s) : m = i
    BY <2>1
  <2>3. /\ BeginsToken(m) /\ ~BeginsToken(m + 1)
        /\ m + 2 <= Len(s) => BeginsToken(m + 2)
    BY <1>1, <2>1, <2>2, NextToken DEF ReadInv
  <2>4. \A k \in Opening : k < m \/ k >= m + 2
    <3> SUFFICES ASSUME NEW k \in Opening, k = m \/ k = m + 1 PROVE FALSE
      BY <1>1 DEF Opening
    <3>1. Pair(k, Dollar, Open) /\ BeginsToken(k)
      BY DEF Opening
    <3> QED BY <2>1, <2>2, <2>3, <3>1, MarksAssumption DEF Pair
  <2>5. references' = 0 => Copied((m + 2) - 1)'
    <3> SUFFICES ASSUME references = 0 PROVE Copied((m + 2) - 1)'
      BY <2>1
    <3>1. Copied(m - 1)
      BY <2>1, <2>2 DEF ReadInv
    <3>2. out' = Append(out, s[m])
      BY <2>1, <2>2
    <3>3. Copied(m)'
      BY <1>1, <2>1, <2>3, <3>1, <3>2, CopyCharacter
    <3>4. PICK l \in 1 .. Len(s) : l = m + 1
      BY <2>1, <2>2
    <3>5. ~BeginsToken(l) /\ l - 1 = m /\ (m + 2) - 1 = l
      BY <1>1, <2>3, <3>4
    <3>6. Copied(l - 1)'
      BY <3>3, <3>5
    <3>7. Copied(l)'
      BY <1>1, <2>1, <3>5, <3>6, SkipCharacter
    <3> QED BY <3>5, <3>7
  <2>6. PICK n \in Nat : n = m + 2
    BY <1>1
  <2>7. i' = n /\ (n <= Len(s) => BeginsToken(n)) /\ (references' = 0 => Copied(n - 1)')
    BY <2>1, <2>2, <2>3, <2>5, <2>6
  <2>8. \A k \in Opening : k < n => \E end \in DOMAIN s : WellFormed(k, end)
    <3>1. \A k \in Opening : k \in Nat
      BY <1>1 DEF Opening
    <3>2. \A k \in Opening : k < n => k < i
      BY <1>1, <2>1, <2>2, <2>4, <2>6, <3>1
    <3> QED BY <2>1, <3>2 DEF ReadInv
  <2>9. references' = 0 <=> \A k \in Opening : k >= n
    <3>1. \A k \in Opening : k \in Nat
      BY <1>1 DEF Opening
    <3> QED BY <1>1, <2>1, <2>2, <2>4, <2>6, <3>1 DEF ReadInv
  <2> QED BY <1>1, <2>1, <2>7, <2>8, <2>9, ReadOn
<1>3. CASE Literal
  <2>1. /\ pc = "scan" /\ s' = s /\ i' = i + 1 /\ out' = Append(out, s[i])
        /\ ~Pair(i, Dollar, Dollar) /\ ~Pair(i, Dollar, Open) /\ i \in 1 .. Len(s)
        /\ references' = references
    BY <1>1, <1>3 DEF Literal
  <2>2. PICK m \in 1 .. Len(s) : m = i
    BY <2>1
  <2>3. /\ BeginsToken(m)
        /\ m + 1 <= Len(s) => BeginsToken(m + 1)
    BY <1>1, <2>1, <2>2, NextToken DEF ReadInv
  <2>4. \A k \in Opening : k \in Nat /\ (k < m \/ k >= m + 1)
    BY <1>1, <2>1, <2>2 DEF Opening
  <2>5. references' = 0 => Copied(m)'
    <3> SUFFICES ASSUME references = 0 PROVE Copied(m)'
      BY <2>1
    <3>1. Copied(m - 1)
      BY <2>1, <2>2 DEF ReadInv
    <3>2. out' = Append(out, s[m])
      BY <2>1, <2>2
    <3> QED BY <1>1, <2>1, <2>3, <3>1, <3>2, CopyCharacter
  <2>6. PICK n \in Nat : n = m + 1 /\ n - 1 = m
    BY <1>1
  <2>7. i' = n /\ (n <= Len(s) => BeginsToken(n)) /\ (references' = 0 => Copied(n - 1)')
    BY <2>1, <2>2, <2>3, <2>5, <2>6
  <2>8. \A k \in Opening : k < n => \E end \in DOMAIN s : WellFormed(k, end)
    BY <1>1, <2>1, <2>2, <2>4, <2>6 DEF ReadInv
  <2>9. references' = 0 <=> \A k \in Opening : k >= n
    BY <1>1, <2>1, <2>2, <2>4, <2>6 DEF ReadInv
  <2> QED BY <1>1, <2>1, <2>7, <2>8, <2>9, ReadOn
<1>4. CASE Reference
  <2>1. PICK end \in DOMAIN s : WellFormed(i, end) /\ i' = end + 1
    BY <1>4 DEF Reference
  <2>2. /\ pc = "scan" /\ s' = s /\ Pair(i, Dollar, Open) /\ references' = references + 1
        /\ i \in 1 .. Len(s)
    BY <1>1, <1>4 DEF Reference, Pair
  <2>3. PICK m \in 1 .. Len(s) : m = i
    BY <2>2
  <2>4. /\ WellFormed(m, end) /\ Pair(m, Dollar, Open) /\ BeginsToken(m)
    BY <1>1, <2>1, <2>2, <2>3 DEF ReadInv
  <2>5. end \in m + 2 .. Len(s) /\ \A j \in m + 1 .. end : s[j] # Dollar
    BY <1>1, <2>4, InsideReference
  <2>6. PICK n \in Nat : n = end + 1
    BY <1>1
  <2>7. n <= Len(s) => BeginsToken(n)
    <3> SUFFICES ASSUME n <= Len(s), s[n] = Dollar PROVE RunOfDollars(n) % 2 = 1
      BY DEF BeginsToken
    <3>1. /\ end \in 1 .. Len(s) /\ n \in 1 .. Len(s) /\ s[end] # Dollar /\ n - 1 = end
      BY <1>1, <2>5, <2>6
    <3>2. RunOfDollars(end) = 0 /\ RunOfDollars(n) = RunOfDollars(n - 1) + 1
      BY <1>1, <3>1, RunsOfDollars
    <3> QED BY <3>1, <3>2
  <2>8. m \in Opening /\ \A k \in Opening : k \in Nat /\ (k < m \/ k = m \/ k >= n)
    <3>1. m \in Opening
      BY <1>1, <2>4 DEF Opening
    <3>2. \A k \in Opening : k \in 1 .. Len(s) /\ s[k] = Dollar
      BY <1>1 DEF Opening, Pair
    <3> QED BY <1>1, <2>5, <2>6, <3>1, <3>2
  <2>9. \A k \in Opening : k < n => \E e \in DOMAIN s : WellFormed(k, e)
    BY <1>1, <2>2, <2>3, <2>4, <2>8 DEF ReadInv
  <2>10. references' # 0 /\ m < n
    BY <1>1, <2>2, <2>5, <2>6
  <2>11. references' = 0 <=> \A k \in Opening : k >= n
    BY <1>1, <2>6, <2>8, <2>10
  <2>12. i' = n /\ (references' = 0 => Copied(n - 1)')
    BY <2>1, <2>6, <2>10
  <2> QED BY <1>1, <2>2, <2>7, <2>9, <2>11, <2>12, ReadOn
<1>5. CASE InvalidReference \/ Finish
  BY <1>5 DEF InvalidReference, Finish, ReadInv
<1>6. CASE UNCHANGED vars
  <2>1. s' = s /\ i' = i /\ references' = references /\ out' = out /\ pc' = pc
    BY <1>6 DEF vars
  <2>2. CASE pc = "scan"
    <3>1. PICK n \in Nat : n = i
      BY <1>1
    <3>2. Copied(n - 1) => Copied(n - 1)'
      BY <2>1, SameString DEF Copied
    <3> QED BY <1>1, <2>1, <2>2, <3>1, <3>2, ReadOn DEF ReadInv
  <2>3. CASE pc # "scan"
    BY <2>1, <2>3 DEF ReadInv
  <2> QED BY <2>2, <2>3
<1> QED BY <1>2, <1>3, <1>4, <1>5, <1>6 DEF Next

\* What the scanner returns when it is done.
LEMMA NextOutcome == IInv /\ ReadInv /\ OutcomeAsSpecified /\ [Next]_vars => OutcomeAsSpecified'
<1> SUFFICES ASSUME IInv, ReadInv, OutcomeAsSpecified, [Next]_vars PROVE OutcomeAsSpecified'
  OBVIOUS
<1>1. /\ s \in Seq(Char) /\ Len(s) \in Nat /\ DOMAIN s = 1 .. Len(s)
      /\ i \in 1 .. Len(s) + 1 /\ references \in Nat /\ TypeOK /\ IInv'
  BY LenProperties, NextInv DEF IInv, TypeOK
<1> DEFINE spoiled == \E k \in Opening : ~ \E end \in DOMAIN s : WellFormed(k, end)
<1>2. CASE InvalidReference
  <2>1. /\ pc = "scan" /\ Pair(i, Dollar, Open) /\ ~ \E end \in DOMAIN s : WellFormed(i, end)
        /\ code' = "invalid_reference" /\ s' = s
    BY <1>2 DEF InvalidReference
  <2>2. i \in Opening
    BY <1>1, <2>1 DEF ReadInv, Opening, Pair
  <2>3. spoiled'
    BY <2>1, <2>2, SameString
  <2> QED BY <2>1, <2>3 DEF OutcomeAsSpecified
<1>3. CASE Finish
  <2>1. /\ pc = "scan" /\ i = Len(s) + 1 /\ pc' = "done" /\ s' = s /\ out' = out
        /\ code' = IF references = 0 \/ (references = 1 /\ whole)
                   THEN None ELSE "unsupported_interpolation"
        /\ name' = IF references > 1 THEN None ELSE name
    BY <1>1, <1>3 DEF Finish
  <2>2. /\ Opening' = Opening /\ (spoiled' <=> spoiled)
        /\ WellFormed(1, Len(s))' <=> WellFormed(1, Len(s))
    BY <2>1, SameString
  <2>3. \A k \in Opening : k \in 1 .. Len(s)
    BY <1>1 DEF Opening
  <2>4. ~spoiled
    BY <1>1, <2>1, <2>3 DEF ReadInv
  <2>5. references = 0 <=> Opening = {}
    BY <1>1, <2>1, <2>3 DEF ReadInv
  <2>6. Substituted' <=> Opening = {1} /\ WellFormed(1, Len(s))
    <3>1. Substituted' <=> Declares'
      BY <1>1, <2>1 DEF IInv, DiscoveryAgrees
    <3>2. Declares' <=> Declares
      BY <2>1 DEF Declares, Pair
    <3> QED BY <1>1, <3>1, <3>2, WholeReference
  <2>7. CASE Opening = {}
    <3>1. code' = None /\ name' = None
      BY <1>1, <2>1, <2>5, <2>7 DEF IInv, ScanInv
    <3>2. Copied(Len(s))
      <4>1. Copied(i - 1) /\ i - 1 = Len(s)
        BY <1>1, <2>1, <2>5, <2>7 DEF ReadInv
      <4> QED BY <4>1
    <3>3. Unescaped(out)
      BY <1>1, <3>2 DEF Copied, Unescaped
    <3>4. Unescaped(out)'
      BY <2>1, <3>3, SameString DEF Unescaped
    <3> QED BY <2>2, <2>4, <2>7, <3>1, <3>4 DEF OutcomeAsSpecified
  <2>8. CASE Opening # {} /\ Opening = {1} /\ WellFormed(1, Len(s))
    BY <2>2, <2>4, <2>6, <2>8 DEF OutcomeAsSpecified
  <2>9. CASE Opening # {} /\ ~(Opening = {1} /\ WellFormed(1, Len(s)))
    <3>1. references > 0 /\ ~Substituted'
      BY <1>1, <2>5, <2>6, <2>9
    <3>2. code' # None
      <4> SUFFICES ASSUME code' = None PROVE FALSE
        OBVIOUS
      <4>1. references = 1 /\ whole
        BY <1>1, <2>1, <3>1, NoNameAssumption
      <4>2. name' # None
        BY <1>1, <2>1, <4>1 DEF IInv, ScanInv
      <4> QED BY <3>1, <4>2 DEF Substituted
    <3>3. code' = "unsupported_interpolation"
      BY <2>1, <3>2
    <3> QED BY <2>2, <2>4, <2>9, <3>3 DEF OutcomeAsSpecified
  <2> QED BY <2>7, <2>8, <2>9
<1>4. CASE Escape \/ Reference \/ Literal
  BY <1>4 DEF Escape, Reference, Literal, OutcomeAsSpecified
<1>5. CASE UNCHANGED vars
  <2>1. s' = s /\ pc' = pc /\ code' = code /\ name' = name /\ out' = out
    BY <1>5 DEF vars
  <2>2. /\ Opening' = Opening /\ (spoiled' <=> spoiled)
        /\ WellFormed(1, Len(s))' <=> WellFormed(1, Len(s))
    BY <2>1, SameString
  <2>3. Unescaped(out)' <=> Unescaped(out)
    BY <2>1, SameString DEF Unescaped
  <2> QED BY <2>1, <2>2, <2>3 DEF OutcomeAsSpecified, Substituted
<1> QED BY <1>2, <1>3, <1>4, <1>5 DEF Next

-----------------------------------------------------------------------------
(* Theorems *)

\* The scanner never reads past the end of a string.
THEOREM ScannerTypeCorrect == Spec => []TypeOK
<1>1. IInv => TypeOK BY DEF IInv
<1> QED BY <1>1, AlwaysInv, PTL

\* What discovery declares and what substitution replaces are the same strings
\* under the same names, whatever the string.
THEOREM ReadingsAgree == Spec => []DiscoveryAgrees
<1>1. IInv => DiscoveryAgrees BY DEF IInv
<1> QED BY <1>1, AlwaysInv, PTL

\* What the scanner's pass from left to right returns is what the contract says
\* of the string as a whole, whatever the string.
THEOREM OutcomeIsTheContract == Spec => []OutcomeAsSpecified
<1>1. Init => OutcomeAsSpecified BY DEF Init, OutcomeAsSpecified
<1> QED BY <1>1, InitInv, NextInv, InitReads, NextReads, NextOutcome, PTL DEF Spec
=============================================================================
