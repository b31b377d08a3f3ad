----------------------------- MODULE ContentDraft -----------------------------
(***************************************************************************)
(* One router's own content while its template is edited: the editor of    *)
(* the template prepares elements, the administrator of the router fills   *)
(* in values, switches between them and an own JSON, resets, excludes.     *)
(***************************************************************************)
EXTENDS ElementContent

CONSTANT EditTypes   \* bound: the types the template's editor chooses from

ASSUME EditTypesAssumption == EditTypes \subseteq Types \cup {"unknown"}

VARIABLES
    shared,       \* the template's elements by UUID
    overrides,    \* the router's overrides by source
    exclusions,   \* the sources the router excludes
    entered       \* history: the values entered for a source since its last reset

vars == <<shared, overrides, exclusions, entered>>

TypeOK ==
    /\ shared \in Partial(ID, Elements)
    /\ overrides \in Partial(ID, Overrides)
    /\ exclusions \in SUBSET ID
    /\ entered \in [ID -> Partial(Var, Value)]

Init ==
    /\ \E text \in Text : shared = [id \in ID |-> PrepareElement(text, NoValues)]
    /\ overrides = [id \in {} |-> None]
    /\ exclusions = {}
    /\ entered = [id \in ID |-> NoValues]

-----------------------------------------------------------------------------

\* f with the value at key set, or with the key dropped.
With(f, key, value) == [k \in DOMAIN f \cup {key} |-> IF k = key THEN value ELSE f[k]]
Without(f, key)     == [k \in DOMAIN f \ {key} |-> f[k]]

\* The editor's input: the element as it is stored with another text, or with
\* one definition set or dropped.
Edits(element) ==
    {[element EXCEPT !.text = text] : text \in Text}
    \cup {[element EXCEPT !.vars = With(element.vars, name, def)] : name \in Var,
              def \in [type : EditTypes, default : Value \cup {None}]}
    \cup {[element EXCEPT !.vars = Without(element.vars, name)] : name \in Var}

EditElement(id) ==
    /\ id \in DOMAIN shared
    /\ \E input \in Edits(shared[id]) :
          /\ CanPrepareElement(input.vars)
          /\ shared' = [shared EXCEPT ![id] = PrepareElement(input.text, input.vars)]
    /\ UNCHANGED <<overrides, exclusions, entered>>

\* An element leaves the template; the router's records of it stay.
RemoveElement(id) ==
    /\ id \in DOMAIN shared
    /\ shared' = Without(shared, id)
    /\ UNCHANGED <<overrides, exclusions, entered>>

\* It is added again, perhaps with another text, under the UUID it had.
AddElement(id) ==
    /\ id \notin DOMAIN shared
    /\ \E text \in Text : shared' = With(shared, id, PrepareElement(text, NoValues))
    /\ UNCHANGED <<overrides, exclusions, entered>>

\* TransitionContentOverride looks at no element: a record whose element is gone
\* can still be switched and reset.
Transition(id, kind, content) ==
    LET candidate == TransitionContentOverride(Override(overrides, id), kind, content)
    IN  /\ CanTransition(kind, content)
        /\ overrides' = IF candidate = None THEN Without(overrides, id)
                                            ELSE With(overrides, id, candidate)
        /\ entered' = IF kind = "reset" THEN [entered EXCEPT ![id] = NoValues] ELSE entered
        /\ UNCHANGED <<shared, exclusions>>

\* The administrator enters or drops a value, in either mode.
EditValue(id, values) ==
    /\ overrides' =
          With(overrides, id,
               IF id \in DOMAIN overrides
               THEN [overrides[id] EXCEPT !.values = values]
               ELSE [mode |-> "variables", values |-> values, content |-> None])
    /\ entered' = [entered EXCEPT ![id] = values]
    /\ UNCHANGED <<shared, exclusions>>

\* What one entry makes of the values of a source.
Entries(values) ==
    {With(values, name, value) : name \in Var, value \in Value}
    \cup {Without(values, name) : name \in Var}

ToggleExclusion(id) ==
    /\ exclusions' = IF id \in exclusions THEN exclusions \ {id} ELSE exclusions \cup {id}
    /\ UNCHANGED <<shared, overrides, entered>>

-----------------------------------------------------------------------------

Next ==
    \E id \in ID :
        \/ EditElement(id)
        \/ RemoveElement(id)
        \/ AddElement(id)
        \/ ToggleExclusion(id)
        \/ \E kind \in ActionKinds, content \in Literal \cup {Malformed} : Transition(id, kind, content)
        \/ \E values \in Entries(PersonalValues(Override(overrides, id))) : EditValue(id, values)

Spec == Init /\ [][Next]_vars

-----------------------------------------------------------------------------
(* Properties *)

\* The values a router keeps for a source are those entered since the last
\* reset, whichever way the modes were switched, whatever became of the
\* template and of the element (TransitionContentOverride).
ValuesRetained ==
    \A id \in ID : PersonalValues(Override(overrides, id)) = entered[id]

\* Nothing that happens to the template and to the values a router keeps
\* changes or blocks the own JSON it uses; only a transition does.
ReplacementIsImmune ==
    [][\A id \in DOMAIN overrides \cap DOMAIN overrides' \cap DOMAIN shared \cap DOMAIN shared' :
          overrides[id].mode = "replacement" /\ overrides'[id].content = overrides[id].content =>
             /\ CanSelect(shared'[id], overrides'[id])
             /\ SelectElementContent(shared'[id], overrides'[id])
                  = SelectElementContent(shared[id], overrides[id])]_vars

\* No blank, null or wrongly typed value and no missing one is ever assembled
\* into what the router gets.
OnlyFilledValuesAssembled ==
    CanSelectRouter(shared, overrides, exclusions) =>
        LET elements == SelectRouterElements(shared, overrides, exclusions)
        IN  \A id \in DOMAIN elements :
               elements[id].mode = "variables" =>
                  \A name \in Refs[elements[id].content.text] :
                     TypeOf[elements[id].content.values[name]] = shared[id].vars[name].type

\* Trying an own JSON and returning leaves the router with what it would have
\* had without it: the same content, or none for the same reason.
RoundTripRestores ==
    \A id \in DOMAIN shared, content \in Literal :
        LET before == Override(overrides, id)
            after  == TransitionContentOverride(
                         TransitionContentOverride(before, "replace", content), "variables", None)
        IN  Inherits(before) =>
               /\ CanSelect(shared[id], after) <=> CanSelect(shared[id], before)
               /\ CanSelect(shared[id], before) =>
                     SelectElementContent(shared[id], after) = SelectElementContent(shared[id], before)

\* Every variable a stored text refers to is declared, also after declarations
\* were dropped (PrepareElement): a reference can lack a value, never a name.
ReferencesDeclared ==
    \A id \in DOMAIN shared : Refs[shared[id].text] \subseteq DOMAIN shared[id].vars

\* A reference added to the template without a declaration is never filled by
\* chance: the edit that brings it leaves what inherits the element blocked, if
\* nobody entered a value under a name that was not declared.
NewReferenceBlocks ==
    [][\A id \in DOMAIN shared \cap DOMAIN shared' :
          /\ ~(Refs[shared'[id].text] \subseteq DOMAIN shared[id].vars)
          /\ Inherits(Override(overrides, id))
          /\ DOMAIN entered[id] \subseteq DOMAIN shared[id].vars
          => ~CanSelect(shared'[id], Override(overrides', id))]_vars
=============================================================================
