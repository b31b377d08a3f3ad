---------------------------- MODULE TemplateString ----------------------------
(***************************************************************************)
(* How one string of a template is read: parseTemplateString, one action   *)
(* per turn of its loop, and collectNames, which looks for references in   *)
(* the same strings in a way of its own.                                   *)
(*                                                                         *)
(* A string is a sequence of characters: the three the scanner looks for,  *)
(* those a variable name may have (Letter) and those it may not (Space).   *)
(* The multi-byte characters of UTF-8 hold none of the three bytes.        *)
(***************************************************************************)
EXTENDS Naturals, Sequences, FiniteSetsExt

CONSTANTS
    Dollar, Open, Close,   \* the characters "$", "{" and "}"
    Letter,                \* characters of names
    Space,                 \* white space and control characters
    Inputs,                \* the strings that are read
    None                   \* a nil name, an empty code

Char == {Dollar, Open, Close} \cup Letter \cup Space

ASSUME MarksAssumption == Dollar # Open /\ Dollar # Close /\ Open # Close
ASSUME LetterAssumption == Letter \cap ({Dollar, Open, Close} \cup Space) = {}
ASSUME InputsAssumption == Inputs \subseteq Seq(Char)
ASSUME NoNameAssumption ==
    None \notin Seq(Char) /\ None \notin {"invalid_reference", "unsupported_interpolation"}

VARIABLES
    s,            \* the string
    i,            \* the position of the next character, from 1
    out,          \* the literal text so far; returned if there is no reference
    references,   \* references so far
    name,         \* the name of the last one, or None
    whole,        \* the last one is all of the string
    code,         \* None, "invalid_reference" or "unsupported_interpolation"
    pc            \* "scan" or "done"

vars == <<s, i, out, references, name, whole, code, pc>>

TypeOK ==
    /\ s \in Seq(Char) /\ out \in Seq(Char)
    /\ i \in 1 .. Len(s) + 1
    /\ references \in 0 .. Len(s)
    /\ name \in Seq(Letter) \cup {None}
    /\ whole \in BOOLEAN
    /\ code \in {None, "invalid_reference", "unsupported_interpolation"}
    /\ pc \in {"scan", "done"}

Init ==
    /\ s \in Inputs
    /\ i = 1 /\ out = <<>> /\ references = 0 /\ name = None /\ whole = FALSE
    /\ code = None /\ pc = "scan"

-----------------------------------------------------------------------------

ValidVariableName(n) == n # <<>> /\ n \in Seq(Letter)

\* The two characters at k are the given ones.
Pair(k, first, second) == k < Len(s) /\ s[k] = first /\ s[k + 1] = second

\* strings.IndexByte: the first "}" from k on is at end.
FirstClose(k, end) ==
    /\ end \in k .. Len(s)
    /\ s[end] = Close
    /\ \A j \in k .. end - 1 : s[j] # Close

\* The name between "${" at k and the "}" that closes it at end.
Named(k, end) == SubSeq(s, k + 2, end - 1)

WellFormed(k, end) == FirstClose(k + 2, end) /\ ValidVariableName(Named(k, end))

\* Mutant: the second "$" of an escape is looked at again.
Escape_Rescans ==
    /\ pc = "scan" /\ Pair(i, Dollar, Dollar)
    /\ out' = Append(out, Dollar) /\ i' = i + 1
    /\ UNCHANGED <<s, references, name, whole, code, pc>>

Escape ==
    /\ pc = "scan" /\ Pair(i, Dollar, Dollar)
    /\ out' = Append(out, Dollar) /\ i' = i + 2
    /\ UNCHANGED <<s, references, name, whole, code, pc>>

\* Mutant: a reference is whole if nothing follows it.
Reference_SuffixOnly ==
    /\ pc = "scan" /\ Pair(i, Dollar, Open)
    /\ \E end \in DOMAIN s :
          /\ WellFormed(i, end)
          /\ name' = Named(i, end) /\ whole' = (end = Len(s)) /\ i' = end + 1
    /\ references' = references + 1
    /\ UNCHANGED <<s, out, code, pc>>

Reference ==
    /\ pc = "scan" /\ Pair(i, Dollar, Open)
    /\ \E end \in DOMAIN s :
          /\ WellFormed(i, end)
          /\ name' = Named(i, end) /\ whole' = (i = 1 /\ end = Len(s)) /\ i' = end + 1
    /\ references' = references + 1
    /\ UNCHANGED <<s, out, code, pc>>

\* No "}" follows, or what stands before the first one is not a name.
InvalidReference ==
    /\ pc = "scan" /\ Pair(i, Dollar, Open)
    /\ ~ \E end \in DOMAIN s : WellFormed(i, end)
    /\ code' = "invalid_reference" /\ name' = None /\ pc' = "done"
    /\ UNCHANGED <<s, i, out, references, whole>>

Literal ==
    /\ pc = "scan" /\ i <= Len(s)
    /\ ~Pair(i, Dollar, Dollar) /\ ~Pair(i, Dollar, Open)
    /\ out' = Append(out, s[i]) /\ i' = i + 1
    /\ UNCHANGED <<s, references, name, whole, code, pc>>

\* What is returned after the loop; only the name of a single reference is.
Finish ==
    /\ pc = "scan" /\ i > Len(s)
    /\ code' = IF references = 0 \/ (references = 1 /\ whole)
               THEN None ELSE "unsupported_interpolation"
    /\ name' = IF references > 1 THEN None ELSE name
    /\ pc' = "done"
    /\ UNCHANGED <<s, i, out, references, whole>>

Next == Escape \/ Reference \/ InvalidReference \/ Literal \/ Finish

Spec == Init /\ [][Next]_vars

-----------------------------------------------------------------------------
(* collectNames *)

\* A string with this prefix and this suffix and a name between them declares
\* the name.
Declares ==
    /\ Pair(1, Dollar, Open) /\ s[Len(s)] = Close
    /\ ValidVariableName(SubSeq(s, 3, Len(s) - 1))

DeclaredName == SubSeq(s, 3, Len(s) - 1)

-----------------------------------------------------------------------------
(* Properties *)

Substituted == code = None /\ name # None

\* The two readings agree: the discovery of definitions declares exactly the
\* strings the substitution takes for whole references, under the same name.
\* Otherwise an element would be stored whose reference nobody can fill, or a
\* value be asked for that is never used.
DiscoveryAgrees ==
    pc = "done" =>
        /\ Substituted <=> Declares
        /\ Declares => name = DeclaredName

\* The "$" that end at k, and whether the last of them begins a token of its own
\* rather than being the second half of an escape.
RunOfDollars(k) == k - Max({j \in 0 .. k : j = 0 \/ s[j] # Dollar})
BeginsToken(k)  == s[k] = Dollar => RunOfDollars(k) % 2 = 1

\* What the contract calls a reference that is not escaped.
Opening == {k \in DOMAIN s : Pair(k, Dollar, Open) /\ BeginsToken(k)}

\* How many of the first k characters are not the second half of an escape.
Position(k) == Cardinality({j \in 1 .. k : BeginsToken(j)})

\* The text is the string without the second half of each escape.
Unescaped(text) ==
    /\ Len(text) = Position(Len(s))
    /\ \A k \in DOMAIN s : BeginsToken(k) => text[Position(k)] = s[k]

\* The scanner's one pass from left to right gives what the contract of the
\* variables says without any order: a reference counts unless the "$" before
\* its "{" is escaped, one that is not well-formed spoils the string, one that
\* is must be all of it, and without one "$$" stands for "$".
OutcomeAsSpecified ==
    pc = "done" =>
        IF \E k \in Opening : ~ \E end \in DOMAIN s : WellFormed(k, end)
        THEN code = "invalid_reference"
        ELSE IF Opening = {}
        THEN code = None /\ name = None /\ Unescaped(out)
        ELSE IF Opening = {1} /\ WellFormed(1, Len(s))
        THEN Substituted
        ELSE code = "unsupported_interpolation"
=============================================================================
