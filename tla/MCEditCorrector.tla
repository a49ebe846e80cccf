--------------------------- MODULE MCEditCorrector ---------------------------
(***************************************************************************)
(* EditCorrector on the edit lists of every shortest script of every       *)
(* relation between two lists of a few constructs.                         *)
(***************************************************************************)
EXTENDS EditCorrector

MCEditListsFor(e) == EditListsOf(e, Start, End)
=============================================================================
