--------------------------- MODULE MCPublication ---------------------------
(* Two writers of one digest: same and different meanings and stamps. *)
EXTENDS Publication
=============================================================================
