---------------------------- MODULE ElementContent ----------------------------
(***************************************************************************)
(* The content of the shared elements of one router: the pure functions of *)
(* internal/configuration that prepare variable values, substitute them,   *)
(* switch between inherited and own content, and select what a router      *)
(* gets.                                                                   *)
(*                                                                         *)
(* A template text is known by the variables it refers to as whole values  *)
(* (Refs) and by whether the substitution accepts it: a text with a null,  *)
(* a malformed reference or an interpolation does not (BadText).  A value  *)
(* is known by the JSON type it has, or by being blank, null or no JSON.   *)
(* The source of an override is its key; records that repeat a source or   *)
(* name another template, UUID syntax, local elements and the locations of *)
(* diagnostics are left out.                                               *)
(***************************************************************************)
EXTENDS Naturals, FiniteSets

CONSTANTS
    ID,              \* UUIDs of shared elements
    Var,             \* names of variables
    Value,           \* JSON texts of values
    Text,            \* JSON texts of elements, as templates
    Literal,         \* JSON texts a router uses instead
    BadText,         \* texts the substitution refuses
    Refs,            \* the variables a text refers to
    TypeOf,          \* the type of a value
    Blank,           \* the value ""
    Malformed,       \* what is no JSON text
    None             \* an absent record, value or content

Types == {"string", "number", "boolean", "object", "array"}

ASSUME TextAssumption == BadText \subseteq Text /\ Refs \in [Text -> SUBSET Var]
ASSUME ValueAssumption == TypeOf \in [Value -> Types \cup {"blank", "null", "invalid"}]
ASSUME BlankAssumption == Blank \in Value /\ TypeOf[Blank] = "blank"
ASSUME AbsentAssumption == None \notin Value \cup Literal /\ Malformed \notin Literal

\* Functions from some of the keys.
Partial(keys, S) == UNION {[D -> S] : D \in SUBSET keys}

Definitions == [type : Types \cup {"unknown"}, default : Value \cup {None}]
Elements    == [text : Text, vars : Partial(Var, Definitions)]

Modes     == {"variables", "replacement"}
Overrides == [mode : Modes, values : Partial(Var, Value), content : Literal \cup {None}]

ASSUME RecordAssumption == \A override \in Overrides : override # None

NoValues == [name \in {} |-> Blank]

-----------------------------------------------------------------------------
(* PrepareElement *)

\* discoverDefinitions: a reference nobody declared is declared as a string
\* with a blank default.
Discovered == [type |-> "string", default |-> Blank]

\* Mutant: stored without looking for new references.
PrepareElement_Restored(text, vars) == [text |-> text, vars |-> vars]

PrepareElement(text, vars) ==
    [text |-> text,
     vars |-> [name \in DOMAIN vars \cup Refs[text] |->
                  IF name \in DOMAIN vars THEN vars[name] ELSE Discovered]]

\* RestoreElement refuses a default that is no JSON.
CanPrepareElement(vars) ==
    \A name \in DOMAIN vars : vars[name].default # None => TypeOf[vars[name].default] # "invalid"

-----------------------------------------------------------------------------
(* PrepareValues *)

\* validatePreparedValue reports no error for a value of the declared type and
\* none for a blank one, whatever the type; only the former counts as given.
Acceptable(value, type) == TypeOf[value] \in {type, "blank"}

\* Mutant: a blank value counts as given.
Filled_BlankToo(value, type) == TypeOf[value] \in {type, "blank"}

Filled(value, type) == TypeOf[value] = type

DefaultFilled(def) == def.default # None /\ Filled(def.default, def.type)

PersonalFilled(name, def, personal) == name \in DOMAIN personal /\ Filled(personal[name], def.type)

\* Every default and every personal value is checked, the unused ones too.
CanPrepareValues(vars, personal) ==
    /\ DOMAIN personal \subseteq DOMAIN vars
    /\ \A name \in DOMAIN vars :
          /\ vars[name].type \in Types
          /\ vars[name].default # None => Acceptable(vars[name].default, vars[name].type)
          /\ name \in DOMAIN personal => Acceptable(personal[name], vars[name].type)
          /\ DefaultFilled(vars[name]) \/ PersonalFilled(name, vars[name], personal)

PrepareValues(vars, personal) ==
    [name \in DOMAIN vars |->
        IF PersonalFilled(name, vars[name], personal) THEN personal[name] ELSE vars[name].default]

-----------------------------------------------------------------------------
(* SubstituteValues, AssembleElement and AssembleInheritedElement *)

CanAssemble(element, personal) ==
    /\ CanPrepareValues(element.vars, personal)
    /\ element.text \notin BadText
    /\ Refs[element.text] \subseteq DOMAIN element.vars

Assembled(element, personal) ==
    [text   |-> element.text,
     values |-> [name \in Refs[element.text] |-> PrepareValues(element.vars, personal)[name]]]

-----------------------------------------------------------------------------
(* SelectElementContent and TransitionContentOverride *)

Inherits(override) == override = None \/ override.mode = "variables"

PersonalValues(override) == IF override = None THEN NoValues ELSE override.values

\* Mutant: values are prepared before the mode is looked at.
CanSelect_PreparesFirst(element, override) ==
    /\ CanPrepareValues(element.vars, PersonalValues(override))
    /\ Inherits(override) => CanAssemble(element, PersonalValues(override))

CanSelect(element, override) ==
    IF Inherits(override)
    THEN CanAssemble(element, PersonalValues(override))
    ELSE override.content # None

SelectElementContent(element, override) ==
    IF Inherits(override)
    THEN [mode |-> "variables", content |-> Assembled(element, PersonalValues(override))]
    ELSE [mode |-> "replacement", content |-> override.content]

ActionKinds == {"replace", "variables", "reset"}

CanTransition(kind, content) == kind = "replace" => content # Malformed

\* Mutant: inactive values are dropped.
TransitionContentOverride_DropsInactive(override, kind, content) ==
    CASE kind = "reset"     -> None
      [] kind = "replace"   -> [mode |-> "replacement", values |-> NoValues, content |-> content]
      [] kind = "variables" -> [mode |-> "variables", values |-> PersonalValues(override),
                                content |-> None]

\* Mutant: a reset keeps the values.
TransitionContentOverride_ResetKeepsValues(override, kind, content) ==
    CASE kind \in {"reset", "variables"} ->
             [mode |-> "variables", values |-> PersonalValues(override), content |-> None]
      [] kind = "replace" -> [mode |-> "replacement", values |-> PersonalValues(override),
                              content |-> content]

\* The values are kept as they are in both modes; the content is not kept
\* where the mode does not use it.
TransitionContentOverride(override, kind, content) ==
    CASE kind = "reset"     -> None
      [] kind = "replace"   -> [mode |-> "replacement", values |-> PersonalValues(override),
                                content |-> content]
      [] kind = "variables" -> [mode |-> "variables", values |-> PersonalValues(override),
                                content |-> None]

-----------------------------------------------------------------------------
(* SelectRouterElements *)

Override(overrides, id) == IF id \in DOMAIN overrides THEN overrides[id] ELSE None

\* validateSelectionMetadata: overrides and exclusions have a source.
ValidMetadata(shared, overrides, exclusions) ==
    DOMAIN overrides \cup exclusions \subseteq DOMAIN shared

CanSelectRouter(shared, overrides, exclusions) ==
    /\ ValidMetadata(shared, overrides, exclusions)
    /\ \A id \in DOMAIN shared \ exclusions : CanSelect(shared[id], Override(overrides, id))

SelectRouterElements(shared, overrides, exclusions) ==
    [id \in DOMAIN shared \ exclusions |->
        SelectElementContent(shared[id], Override(overrides, id))]
=============================================================================
