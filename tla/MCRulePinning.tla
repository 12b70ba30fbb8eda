--------------------------- MODULE MCRulePinning ----------------------------
(* Two administrators at once, or one and the worker. *)
EXTENDS RulePinning
=============================================================================
