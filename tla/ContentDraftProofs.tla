-------------------------- MODULE ContentDraftProofs --------------------------
(***************************************************************************)
(* Proofs about ContentDraft, for any elements, variables, texts and       *)
(* values.                                                                 *)
(***************************************************************************)
EXTENDS ContentDraft, TLAPS

-----------------------------------------------------------------------------
(* Partial functions *)

\* A partial function is a function on a part of its keys.
LEMMA PartialIff ==
    ASSUME NEW K, NEW S, NEW f
    PROVE  f \in Partial(K, S) <=> /\ DOMAIN f \subseteq K
                                   /\ f \in [DOMAIN f -> S]
BY DEF Partial

\* Adding an entry keeps a partial function one.
LEMMA WithType ==
    ASSUME NEW K, NEW S, NEW f \in Partial(K, S), NEW key \in K, NEW value \in S
    PROVE  With(f, key, value) \in Partial(K, S)
<1>1. DOMAIN f \subseteq K /\ f \in [DOMAIN f -> S]
  BY PartialIff
<1>2. With(f, key, value) \in [DOMAIN f \cup {key} -> S]
  BY <1>1 DEF With
<1> QED BY <1>1, <1>2 DEF Partial

\* Deleting an entry keeps a partial function one.
LEMMA WithoutType ==
    ASSUME NEW K, NEW S, NEW f \in Partial(K, S), NEW key
    PROVE  Without(f, key) \in Partial(K, S)
<1>1. DOMAIN f \subseteq K /\ f \in [DOMAIN f -> S]
  BY PartialIff
<1>2. Without(f, key) \in [DOMAIN f \ {key} -> S]
  BY <1>1 DEF Without
<1> QED BY <1>1, <1>2 DEF Partial

-----------------------------------------------------------------------------
(* Lemmas about the operations *)

\* The empty set of personal values.
LEMMA NoValuesType == NoValues \in Partial(Var, Value)
<1>1. NoValues \in [{} -> Value]
  BY DEF NoValues
<1> QED BY <1>1 DEF Partial

\* PrepareElement makes an element out of any text and definitions, and
\* declares what the text refers to.
LEMMA PrepareElementType ==
    ASSUME NEW text \in Text, NEW defs \in Partial(Var, Definitions)
    PROVE  /\ PrepareElement(text, defs) \in Elements
           /\ Refs[PrepareElement(text, defs).text] \subseteq DOMAIN PrepareElement(text, defs).vars
           /\ PrepareElement(text, defs).text = text
<1> DEFINE all == [name \in DOMAIN defs \cup Refs[text] |->
                      IF name \in DOMAIN defs THEN defs[name] ELSE Discovered]
<1>1. DOMAIN defs \subseteq Var /\ defs \in [DOMAIN defs -> Definitions]
  BY PartialIff
<1>2. Refs[text] \subseteq Var
  BY TextAssumption
<1>3. Discovered \in Definitions
  BY BlankAssumption DEF Discovered, Definitions, Types
<1>4. all \in [DOMAIN defs \cup Refs[text] -> Definitions]
  BY <1>1, <1>3
<1>5. PrepareElement(text, defs) = [text |-> text, vars |-> all]
  BY DEF PrepareElement
<1>6. all \in Partial(Var, Definitions) /\ DOMAIN all = DOMAIN defs \cup Refs[text]
  BY <1>1, <1>2, <1>4 DEF Partial
<1> HIDE DEF all
<1> QED BY <1>5, <1>6 DEF Elements

\* An editor's input has the text and the definitions of an element.
LEMMA EditsType ==
    ASSUME NEW element \in Elements, NEW input \in Edits(element)
    PROVE  input.text \in Text /\ input.vars \in Partial(Var, Definitions)
<1>1. element.text \in Text /\ element.vars \in Partial(Var, Definitions)
  BY DEF Elements
<1>2. CASE \E text \in Text : input = [element EXCEPT !.text = text]
  BY <1>1, <1>2 DEF Elements
<1>3. ASSUME NEW name \in Var, NEW def \in [type : EditTypes, default : Value \cup {None}],
             input = [element EXCEPT !.vars = With(element.vars, name, def)]
      PROVE  input.text \in Text /\ input.vars \in Partial(Var, Definitions)
  <2>1. def \in Definitions
    BY EditTypesAssumption DEF Definitions
  <2>2. With(element.vars, name, def) \in Partial(Var, Definitions)
    BY <1>1, <2>1, WithType
  <2> QED BY <1>1, <1>3, <2>2 DEF Elements
<1>4. ASSUME NEW name \in Var, input = [element EXCEPT !.vars = Without(element.vars, name)]
      PROVE  input.text \in Text /\ input.vars \in Partial(Var, Definitions)
  <2>1. Without(element.vars, name) \in Partial(Var, Definitions)
    BY <1>1, WithoutType
  <2> QED BY <1>1, <1>4, <2>1 DEF Elements
<1> QED BY <1>2, <1>3, <1>4 DEF Edits

\* A transition of what may be there leaves what may be there; only a reset
\* leaves nothing.
LEMMA TransitionType ==
    ASSUME NEW override \in Overrides \cup {None}, NEW kind \in ActionKinds,
           NEW content \in Literal \cup {Malformed}, CanTransition(kind, content)
    PROVE  LET candidate == TransitionContentOverride(override, kind, content)
           IN  /\ kind = "reset" => candidate = None
               /\ kind # "reset" => /\ candidate \in Overrides
                                   /\ candidate # None
                                   /\ candidate.values = PersonalValues(override)
<1> DEFINE candidate == TransitionContentOverride(override, kind, content)
<1>1. PersonalValues(override) \in Partial(Var, Value)
  BY NoValuesType DEF PersonalValues, Overrides
<1>2. CASE kind = "reset"
  BY <1>2 DEF TransitionContentOverride
<1>3. CASE kind = "replace"
  <2>1. content \in Literal
    BY <1>3 DEF CanTransition
  <2>2. candidate = [mode |-> "replacement", values |-> PersonalValues(override),
                     content |-> content]
    BY <1>3 DEF TransitionContentOverride
  <2> QED BY <1>1, <1>3, <2>1, <2>2, RecordAssumption DEF Overrides, Modes
<1>4. CASE kind = "variables"
  <2>1. candidate = [mode |-> "variables", values |-> PersonalValues(override),
                     content |-> None]
    BY <1>4 DEF TransitionContentOverride
  <2> QED BY <1>1, <1>4, <2>1, RecordAssumption DEF Overrides, Modes
<1> QED BY <1>2, <1>3, <1>4 DEF ActionKinds

\* Looking an override up finds a well-formed one or none.
LEMMA OverrideType ==
    ASSUME TypeOK, NEW id
    PROVE  Override(overrides, id) \in Overrides \cup {None}
<1>1. overrides \in [DOMAIN overrides -> Overrides]
  BY PartialIff DEF TypeOK
<1> QED BY <1>1 DEF Override

\* What an editor enters as personal values is a set of values by name.
LEMMA EntriesType ==
    ASSUME NEW override \in Overrides \cup {None}, NEW values \in Entries(PersonalValues(override))
    PROVE  values \in Partial(Var, Value)
<1>1. PersonalValues(override) \in Partial(Var, Value)
  BY NoValuesType DEF PersonalValues, Overrides
<1> HIDE DEF PersonalValues
<1> QED BY <1>1, WithType, WithoutType DEF Entries

-----------------------------------------------------------------------------
(* The inductive invariant *)

\* An own JSON is there exactly where it is used (ContentOverride): without
\* this a replacement could have nothing to select.
ContentWhereUsed ==
    \A id \in DOMAIN overrides :
        overrides[id].mode = "replacement" <=> overrides[id].content # None

IInv == TypeOK /\ ValuesRetained /\ ReferencesDeclared /\ ContentWhereUsed

\* A new draft, with the elements of its template and no override.
LEMMA InitIInv == ASSUME Init PROVE IInv
<1>1. PICK text \in Text : shared = [id \in ID |-> PrepareElement(text, NoValues)]
  BY DEF Init
<1>2. NoValues \in Partial(Var, Definitions)
  <2>1. NoValues \in [{} -> Definitions]
    BY DEF NoValues
  <2> QED BY <2>1 DEF Partial
<1>3. /\ PrepareElement(text, NoValues) \in Elements
      /\ Refs[PrepareElement(text, NoValues).text]
           \subseteq DOMAIN PrepareElement(text, NoValues).vars
  BY <1>2, PrepareElementType
<1>4. shared \in [ID -> Elements]
  BY <1>1, <1>3
<1>5. DOMAIN overrides = {} /\ overrides \in [{} -> Overrides]
  BY DEF Init
<1>6. TypeOK
  <2>1. shared \in Partial(ID, Elements)
    BY <1>4 DEF Partial
  <2>2. overrides \in Partial(ID, Overrides)
    BY <1>5 DEF Partial
  <2>3. exclusions \in SUBSET ID /\ entered \in [ID -> Partial(Var, Value)]
    BY NoValuesType DEF Init
  <2> QED BY <2>1, <2>2, <2>3 DEF TypeOK
<1>7. ValuesRetained
  BY <1>5 DEF ValuesRetained, PersonalValues, Override, Init
<1>8. ReferencesDeclared
  BY <1>1, <1>3 DEF ReferencesDeclared
<1>9. ContentWhereUsed
  BY <1>5 DEF ContentWhereUsed
<1> QED BY <1>6, <1>7, <1>8, <1>9 DEF IInv

\* Setting one record leaves the other sources as they are.
LEMMA OverrideOfWith ==
    ASSUME NEW f, NEW key, NEW value, NEW id
    PROVE  Override(With(f, key, value), id) = IF id = key THEN value ELSE Override(f, id)
BY DEF Override, With

\* Dropping one record leaves the other sources as they are.
LEMMA OverrideOfWithout ==
    ASSUME NEW f, NEW key, NEW id
    PROVE  Override(Without(f, key), id) = IF id = key THEN None ELSE Override(f, id)
BY DEF Override, Without

\* An edit of an element declares what its new text refers to.
LEMMA EditElementStep ==
    ASSUME IInv, NEW id \in ID, EditElement(id)
    PROVE  IInv'
<1>1. PICK input \in Edits(shared[id]) :
          /\ CanPrepareElement(input.vars)
          /\ shared' = [shared EXCEPT ![id] = PrepareElement(input.text, input.vars)]
  BY DEF EditElement
<1>2. id \in DOMAIN shared /\ DOMAIN shared \subseteq ID /\ shared \in [DOMAIN shared -> Elements]
  BY PartialIff DEF IInv, TypeOK, EditElement
<1>3. input.text \in Text /\ input.vars \in Partial(Var, Definitions)
  BY <1>2, EditsType
<1> DEFINE element == PrepareElement(input.text, input.vars)
<1>4. element \in Elements /\ Refs[element.text] \subseteq DOMAIN element.vars
  BY <1>3, PrepareElementType
<1> HIDE DEF element
<1>5. shared' \in [DOMAIN shared -> Elements] /\ DOMAIN shared' = DOMAIN shared
      /\ shared'[id] = element /\ \A e \in DOMAIN shared \ {id} : shared'[e] = shared[e]
  BY <1>1, <1>2, <1>4 DEF element
<1>6. TypeOK'
  BY <1>2, <1>5 DEF IInv, TypeOK, EditElement, Partial
<1>7. ReferencesDeclared'
  BY <1>4, <1>5 DEF IInv, ReferencesDeclared
<1> QED BY <1>6, <1>7 DEF IInv, ValuesRetained, ContentWhereUsed, EditElement, Override

\* A new element declares what its text refers to.
LEMMA AddElementStep ==
    ASSUME IInv, NEW id \in ID, AddElement(id)
    PROVE  IInv'
<1>1. PICK text \in Text : shared' = With(shared, id, PrepareElement(text, NoValues))
  BY DEF AddElement
<1>2. NoValues \in Partial(Var, Definitions)
  <2>1. NoValues \in [{} -> Definitions]
    BY DEF NoValues
  <2> QED BY <2>1 DEF Partial
<1> DEFINE element == PrepareElement(text, NoValues)
<1>3. element \in Elements /\ Refs[element.text] \subseteq DOMAIN element.vars
  BY <1>2, PrepareElementType
<1> HIDE DEF element
<1>4. shared' = With(shared, id, element)
  BY <1>1 DEF element
<1>5. shared' \in Partial(ID, Elements)
  BY <1>3, <1>4, WithType DEF IInv, TypeOK
<1>6. ReferencesDeclared'
  BY <1>3, <1>4 DEF IInv, ReferencesDeclared, With
<1> QED BY <1>5, <1>6 DEF IInv, TypeOK, ValuesRetained, ContentWhereUsed, AddElement, Override

\* A removed element takes its declarations with it.
LEMMA RemoveElementStep ==
    ASSUME IInv, NEW id \in ID, RemoveElement(id)
    PROVE  IInv'
<1>1. shared' \in Partial(ID, Elements)
  BY WithoutType DEF IInv, TypeOK, RemoveElement
<1>2. ReferencesDeclared'
  BY DEF IInv, ReferencesDeclared, RemoveElement, Without
<1> QED BY <1>1, <1>2 DEF IInv, TypeOK, ValuesRetained, ContentWhereUsed, RemoveElement, Override

\* An exclusion touches neither content nor values.
LEMMA ToggleExclusionStep ==
    ASSUME IInv, NEW id \in ID, ToggleExclusion(id)
    PROVE  IInv'
BY DEF IInv, TypeOK, ValuesRetained, ReferencesDeclared, ContentWhereUsed, ToggleExclusion, Override

\* A transition of an override keeps or drops whole records only.
LEMMA TransitionStep ==
    ASSUME IInv, NEW id \in ID, NEW kind \in ActionKinds,
           NEW content \in Literal \cup {Malformed}, Transition(id, kind, content)
    PROVE  IInv'
<1> DEFINE before    == Override(overrides, id)
           candidate == TransitionContentOverride(before, kind, content)
<1>1. before \in Overrides \cup {None}
  BY OverrideType DEF IInv
<1>2. CanTransition(kind, content) /\ UNCHANGED <<shared, exclusions>>
  BY DEF Transition
<1>3. /\ kind = "reset" => candidate = None
      /\ kind # "reset" => /\ candidate \in Overrides
                          /\ candidate # None
                          /\ candidate.values = PersonalValues(before)
  BY <1>1, <1>2, TransitionType
<1>4. kind # "reset" => (candidate.mode = "replacement" <=> candidate.content # None)
  BY <1>2, AbsentAssumption DEF TransitionContentOverride, ActionKinds, CanTransition
<1>5. /\ overrides' = IF candidate = None THEN Without(overrides, id) ELSE With(overrides, id, candidate)
      /\ entered' = IF kind = "reset" THEN [entered EXCEPT ![id] = NoValues] ELSE entered
  BY DEF Transition
<1> HIDE DEF candidate, before
<1>6. overrides' \in Partial(ID, Overrides)
  BY <1>3, <1>5, WithType, WithoutType DEF IInv, TypeOK
<1>7. entered' \in [ID -> Partial(Var, Value)]
  BY <1>5, NoValuesType DEF IInv, TypeOK
<1>8. ValuesRetained'
  <2> SUFFICES ASSUME NEW e \in ID
               PROVE  PersonalValues(Override(overrides', e)) = entered'[e]
    BY DEF ValuesRetained
  <2>1. entered[e] = PersonalValues(Override(overrides, e)) /\ entered \in [ID -> Partial(Var, Value)]
    BY DEF IInv, ValuesRetained, TypeOK
  <2>2. CASE kind = "reset"
    <3>1. Override(overrides', e) = IF e = id THEN None ELSE Override(overrides, e)
      BY <2>2, <1>3, <1>5, OverrideOfWithout
    <3>2. entered'[e] = IF e = id THEN NoValues ELSE entered[e]
      BY <2>1, <2>2, <1>5
    <3> QED BY <2>1, <3>1, <3>2 DEF PersonalValues
  <2>3. CASE kind # "reset"
    <3>1. Override(overrides', e) = IF e = id THEN candidate ELSE Override(overrides, e)
      BY <2>3, <1>3, <1>5, OverrideOfWith
    <3>2. PersonalValues(candidate) = PersonalValues(before)
      BY <2>3, <1>3 DEF PersonalValues
    <3>3. entered'[e] = entered[e]
      BY <2>3, <1>5
    <3> QED BY <2>1, <3>1, <3>2, <3>3 DEF before
  <2> QED BY <2>2, <2>3
<1>9. ContentWhereUsed'
  <2>1. CASE kind = "reset"
    BY <2>1, <1>3, <1>5 DEF IInv, ContentWhereUsed, Without
  <2>2. CASE kind # "reset"
    BY <2>2, <1>3, <1>4, <1>5 DEF IInv, ContentWhereUsed, With
  <2> QED BY <2>1, <2>2
<1> QED BY <1>2, <1>6, <1>7, <1>8, <1>9 DEF IInv, TypeOK, ReferencesDeclared

\* An edit of the personal values leaves the override where it is used.
LEMMA EditValueStep ==
    ASSUME IInv, NEW id \in ID, NEW values \in Entries(PersonalValues(Override(overrides, id))),
           EditValue(id, values)
    PROVE  IInv'
<1>1. values \in Partial(Var, Value)
  BY OverrideType, EntriesType DEF IInv
<1> DEFINE record == IF id \in DOMAIN overrides
                     THEN [overrides[id] EXCEPT !.values = values]
                     ELSE [mode |-> "variables", values |-> values, content |-> None]
<1>2. /\ record \in Overrides /\ record.values = values
      /\ record.mode = "replacement" <=> record.content # None
  <2>1. CASE id \in DOMAIN overrides
    <3>1. overrides[id] \in Overrides
      BY <2>1, PartialIff DEF IInv, TypeOK
    <3>2. record = [mode |-> overrides[id].mode, values |-> values,
                    content |-> overrides[id].content]
      BY <2>1, <3>1 DEF Overrides
    <3> QED BY <1>1, <2>1, <3>1, <3>2 DEF IInv, ContentWhereUsed, Overrides
  <2>2. CASE id \notin DOMAIN overrides
    BY <1>1, <2>2 DEF Overrides, Modes
  <2> QED BY <2>1, <2>2
<1>3. /\ overrides' = With(overrides, id, record)
      /\ entered' = [entered EXCEPT ![id] = values]
      /\ UNCHANGED <<shared, exclusions>>
  BY DEF EditValue
<1> HIDE DEF record
<1>4. overrides' \in Partial(ID, Overrides)
  BY <1>2, <1>3, WithType DEF IInv, TypeOK
<1>5. entered' \in [ID -> Partial(Var, Value)]
  BY <1>1, <1>3 DEF IInv, TypeOK
<1>6. ValuesRetained'
  <2> SUFFICES ASSUME NEW e \in ID
               PROVE  PersonalValues(Override(overrides', e)) = entered'[e]
    BY DEF ValuesRetained
  <2>1. entered[e] = PersonalValues(Override(overrides, e)) /\ entered \in [ID -> Partial(Var, Value)]
    BY DEF IInv, ValuesRetained, TypeOK
  <2>2. Override(overrides', e) = IF e = id THEN record ELSE Override(overrides, e)
    BY <1>3, OverrideOfWith
  <2>3. PersonalValues(record) = values
    BY <1>2, RecordAssumption DEF PersonalValues
  <2> QED BY <1>3, <2>1, <2>2, <2>3
<1>7. ContentWhereUsed'
  BY <1>2, <1>3 DEF IInv, ContentWhereUsed, With
<1> QED BY <1>3, <1>4, <1>5, <1>6, <1>7 DEF IInv, TypeOK, ReferencesDeclared

\* Every step keeps the invariant.
LEMMA StepIInv == ASSUME IInv, [Next]_vars PROVE IInv'
<1>1. CASE UNCHANGED vars
  BY <1>1 DEF vars, IInv, TypeOK, ValuesRetained, ReferencesDeclared, ContentWhereUsed
<1>2. CASE Next
  BY <1>2, EditElementStep, AddElementStep, RemoveElementStep, ToggleExclusionStep,
     TransitionStep, EditValueStep DEF Next
<1> QED BY <1>1, <1>2

\* The inductive invariant holds.
LEMMA Invariant == Spec => []IInv
BY InitIInv, StepIInv, PTL DEF Spec

-----------------------------------------------------------------------------
(* Theorems *)

\* Every reachable draft has the types of the code's records.
THEOREM ContentTypeCorrect == Spec => []TypeOK
<1>1. IInv => TypeOK BY DEF IInv
<1> QED BY <1>1, Invariant, PTL

\* No switching of modes and no edit of the template loses, changes or brings
\* back a personal value.
THEOREM ValuesAreRetained == Spec => []ValuesRetained
<1>1. IInv => ValuesRetained BY DEF IInv
<1> QED BY <1>1, Invariant, PTL

\* A stored element declares every variable its text refers to.
THEOREM StoredReferencesDeclared == Spec => []ReferencesDeclared
<1>1. IInv => ReferencesDeclared BY DEF IInv
<1> QED BY <1>1, Invariant, PTL

\* What a router uses instead of inherited content is neither changed nor
\* blocked by anything that happens to the template or to the values it keeps.
THEOREM ReplacementUnaffected == Spec => ReplacementIsImmune
<1> DEFINE Immune ==
      \A id \in DOMAIN overrides \cap DOMAIN overrides' \cap DOMAIN shared \cap DOMAIN shared' :
         overrides[id].mode = "replacement" /\ overrides'[id].content = overrides[id].content =>
            /\ CanSelect(shared'[id], overrides'[id])
            /\ SelectElementContent(shared'[id], overrides'[id])
                 = SelectElementContent(shared[id], overrides[id])
<1>1. IInv /\ IInv' => Immune
  <2> SUFFICES ASSUME IInv, IInv', NEW id \in DOMAIN overrides, id \in DOMAIN overrides',
                      overrides[id].mode = "replacement",
                      overrides'[id].content = overrides[id].content
               PROVE  /\ CanSelect(shared'[id], overrides'[id])
                      /\ SelectElementContent(shared'[id], overrides'[id])
                           = SelectElementContent(shared[id], overrides[id])
    OBVIOUS
  <2>1. overrides[id] \in Overrides /\ overrides'[id] \in Overrides
    BY PartialIff DEF IInv, TypeOK
  <2>2. overrides[id] # None /\ overrides'[id] # None
    BY <2>1, RecordAssumption
  <2>3. overrides[id].content # None
    BY DEF IInv, ContentWhereUsed
  <2>4. overrides'[id].mode = "replacement"
    BY <2>3 DEF IInv, ContentWhereUsed
  <2> QED BY <2>2, <2>3, <2>4 DEF CanSelect, SelectElementContent, Inherits
<1>2. Spec => [][Immune]_vars
  BY <1>1, Invariant, PTL
<1> QED BY <1>2 DEF ReplacementIsImmune

\* Trying an own JSON and returning gives a router back exactly what it had.
THEOREM RoundTripIsNeutral == Spec => []RoundTripRestores
<1>1. IInv => RoundTripRestores
  <2> SUFFICES ASSUME IInv, NEW id \in DOMAIN shared, NEW content \in Literal,
                      NEW before, before = Override(overrides, id), Inherits(before),
                      NEW after,
                      after = TransitionContentOverride(
                         TransitionContentOverride(before, "replace", content), "variables", None)
               PROVE  /\ CanSelect(shared[id], after) <=> CanSelect(shared[id], before)
                      /\ SelectElementContent(shared[id], after)
                           = SelectElementContent(shared[id], before)
    BY DEF RoundTripRestores
  <2>1. before \in Overrides \cup {None}
    BY OverrideType DEF IInv
  <2> DEFINE own == TransitionContentOverride(before, "replace", content)
  <2>2. CanTransition("replace", content) /\ "replace" \in ActionKinds
    BY AbsentAssumption DEF CanTransition, ActionKinds
  <2>3. own \in Overrides /\ own.values = PersonalValues(before)
    BY <2>1, <2>2, TransitionType
  <2> HIDE DEF own
  <2>4. PersonalValues(own) = PersonalValues(before)
    BY <2>3, RecordAssumption DEF PersonalValues
  <2>5. after = [mode |-> "variables", values |-> PersonalValues(before), content |-> None]
    BY <2>4 DEF own, TransitionContentOverride
  <2>6. PersonalValues(before) \in Partial(Var, Value)
    BY <2>1, NoValuesType DEF PersonalValues, Overrides
  <2>7. after \in Overrides
    BY <2>5, <2>6 DEF Overrides, Modes
  <2>8. PersonalValues(after) = PersonalValues(before) /\ Inherits(after)
    BY <2>5, <2>7, RecordAssumption DEF PersonalValues, Inherits
  <2> HIDE DEF PersonalValues
  <2> QED BY <2>8 DEF CanSelect, SelectElementContent
<1> QED BY <1>1, Invariant, PTL

\* What is assembled is made of filled values of the declared types only.
THEOREM AssembledValuesFilled == Spec => []OnlyFilledValuesAssembled
<1>1. IInv => OnlyFilledValuesAssembled
  <2> DEFINE elements == SelectRouterElements(shared, overrides, exclusions)
  <2> SUFFICES ASSUME CanSelectRouter(shared, overrides, exclusions),
                      NEW id \in DOMAIN elements, elements[id].mode = "variables",
                      NEW name \in Refs[elements[id].content.text]
               PROVE  TypeOf[elements[id].content.values[name]] = shared[id].vars[name].type
    BY DEF OnlyFilledValuesAssembled
  <2> DEFINE override == Override(overrides, id)
             element  == shared[id]
  <2>1. /\ id \in DOMAIN shared \ exclusions
        /\ elements[id] = SelectElementContent(element, override)
    BY DEF SelectRouterElements
  <2>2. CanSelect(element, override)
    BY <2>1 DEF CanSelectRouter
  <2> HIDE DEF elements, override, element
  <2>3. Inherits(override)
    BY <2>1 DEF SelectElementContent
  <2>4. CanAssemble(element, PersonalValues(override))
    BY <2>2, <2>3 DEF CanSelect
  <2>5. elements[id].content = Assembled(element, PersonalValues(override))
    BY <2>1, <2>3 DEF SelectElementContent
  <2>6. name \in Refs[element.text] /\ name \in DOMAIN element.vars
    BY <2>4, <2>5 DEF Assembled, CanAssemble
  <2>7. elements[id].content.values[name]
          = PrepareValues(element.vars, PersonalValues(override))[name]
    BY <2>5, <2>6 DEF Assembled
  <2>8. TypeOf[PrepareValues(element.vars, PersonalValues(override))[name]]
          = element.vars[name].type
    BY <2>4, <2>6 DEF CanAssemble, CanPrepareValues, PrepareValues, PersonalFilled,
                      DefaultFilled, Filled
  <2> QED BY <2>7, <2>8 DEF element
<1> QED BY <1>1, Invariant, PTL

\* An edit of the template that brings in a reference nobody declared, or entered
\* a value for, leaves what inherits the element blocked.
THEOREM UndeclaredReferenceBlocks == Spec => NewReferenceBlocks
<1> DEFINE Blocks ==
      \A id \in DOMAIN shared \cap DOMAIN shared' :
         /\ ~(Refs[shared'[id].text] \subseteq DOMAIN shared[id].vars)
         /\ Inherits(Override(overrides, id))
         /\ DOMAIN entered[id] \subseteq DOMAIN shared[id].vars
         => ~CanSelect(shared'[id], Override(overrides', id))
<1>1. IInv /\ [Next]_vars => Blocks
  <2> SUFFICES ASSUME IInv, [Next]_vars, NEW id \in DOMAIN shared, id \in DOMAIN shared',
                      ~(Refs[shared'[id].text] \subseteq DOMAIN shared[id].vars),
                      Inherits(Override(overrides, id)),
                      DOMAIN entered[id] \subseteq DOMAIN shared[id].vars
               PROVE  ~CanSelect(shared'[id], Override(overrides', id))
    OBVIOUS
  <2>1. id \in ID /\ shared[id] \in Elements /\ Refs[shared[id].text] \subseteq DOMAIN shared[id].vars
    BY PartialIff DEF IInv, TypeOK, ReferencesDeclared
  <2>2. shared'[id] # shared[id]
    BY <2>1
  <2>3. EditElement(id)
    <3>1. PICK e \in ID : EditElement(e) \/ RemoveElement(e) \/ AddElement(e)
      BY <2>2 DEF Next, vars, ToggleExclusion, Transition, EditValue
    <3>2. ~RemoveElement(e)
      BY <2>2 DEF RemoveElement, Without
    <3>3. ~AddElement(e)
      BY <2>2 DEF AddElement, With
    <3>4. e = id
      BY <2>2, <3>1, <3>2, <3>3 DEF EditElement
    <3> QED BY <3>1, <3>2, <3>3, <3>4
  <2>4. PICK input \in Edits(shared[id]) :
            shared'[id] = PrepareElement(input.text, input.vars)
    BY <2>3 DEF EditElement
  <2>5. input.text \in Text /\ input.vars \in Partial(Var, Definitions) /\ shared'[id].text = input.text
    BY <2>1, <2>4, EditsType, PrepareElementType
  <2>6. input.vars = shared[id].vars
    <3>1. input.text # shared[id].text
      BY <2>1, <2>5
    <3>2. \E text \in Text : input = [shared[id] EXCEPT !.text = text]
      BY <2>1, <3>1 DEF Edits, Elements
    <3> QED BY <2>1, <3>2 DEF Elements
  <2>7. PICK name \in Refs[input.text] : name \notin DOMAIN shared[id].vars
    BY <2>5
  <2>8. name \in DOMAIN shared'[id].vars /\ shared'[id].vars[name] = Discovered
    BY <2>4, <2>6, <2>7 DEF PrepareElement
  <2>9. ~DefaultFilled(Discovered)
    BY BlankAssumption DEF DefaultFilled, Discovered, Filled
  <2>10. name \notin DOMAIN PersonalValues(Override(overrides, id))
    BY <2>1, <2>7 DEF IInv, ValuesRetained
  <2>11. ~CanPrepareValues(shared'[id].vars, PersonalValues(Override(overrides, id)))
    BY <2>8, <2>9, <2>10 DEF CanPrepareValues, PersonalFilled
  <2>12. Override(overrides', id) = Override(overrides, id)
    BY <2>3 DEF EditElement, Override
  <2> QED BY <2>11, <2>12 DEF CanSelect, CanAssemble
<1>2. Spec => [][Blocks]_vars
  BY <1>1, Invariant, PTL DEF Spec
<1> QED BY <1>2 DEF NewReferenceBlocks
=============================================================================
