-------------------------- MODULE MCServerLifecycle --------------------------
(***************************************************************************)
(* ServerLifecycle with two interchangeable clients.                       *)
(***************************************************************************)
EXTENDS ServerLifecycle, TLC

Symmetry == Permutations(Conns)
=============================================================================
