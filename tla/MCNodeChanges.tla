--------------------------- MODULE MCNodeChanges ----------------------------
(* Two changes, of one kind or of both, each attempted once. *)
EXTENDS NodeChanges
=============================================================================
