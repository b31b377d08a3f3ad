---------------------------- MODULE MCContentDraft ----------------------------
(***************************************************************************)
(* ContentDraft with one shared element, two variables, texts that refer   *)
(* to none, one and both of them and one that cannot be substituted, and   *)
(* values of every kind the code tells apart.                              *)
(***************************************************************************)
EXTENDS ContentDraft, TLC

CONSTANTS e1, v, w, plain, one, both, odd, str, num, junk, own

MCText == {plain, one, both, odd}
MCRefs == (plain :> {}) @@ (one :> {v}) @@ (both :> {v, w}) @@ (odd :> {v})

MCValue == {Blank, str, num, junk}
MCTypeOf == (Blank :> "blank") @@ (str :> "string") @@ (num :> "number") @@ (junk :> "invalid")

=============================================================================
