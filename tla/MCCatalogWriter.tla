--------------------------- MODULE MCCatalogWriter ---------------------------
(***************************************************************************)
(* CatalogWriter with a few runs and files: every run can be overtaken by  *)
(* the others between any two of its calls.                                *)
(***************************************************************************)
EXTENDS CatalogWriter

CONSTANTS f1, f2, f3

MCFiles == <<f1, f2, f3>>
=============================================================================
