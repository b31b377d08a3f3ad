--------------------------- MODULE MCTemplateString ---------------------------
(***************************************************************************)
(* TemplateString on every string of up to MaxLen characters and on every  *)
(* string of up to MaxPieces pieces, which reach several references.       *)
(***************************************************************************)
EXTENDS TemplateString, SequencesExt, TLC

CONSTANTS a, blank, MaxLen, MaxPieces

Pieces == {<<Dollar, Open, a, Close>>, <<Dollar, Open>>, <<Dollar>>, <<Open>>, <<Close>>, <<a>>, <<blank>>}

MCInputs ==
    UNION {[1 .. n -> Char] : n \in 0 .. MaxLen}
    \cup {FlattenSeq(pieces) : pieces \in UNION {[1 .. n -> Pieces] : n \in 0 .. MaxPieces}}
=============================================================================
