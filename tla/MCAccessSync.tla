---------------------------- MODULE MCAccessSync ----------------------------
(* A pinned administrator, another administrator, one more person; one domain. *)
EXTENDS AccessSync

CONSTANTS admin, ann, bob, corp

MCDomainOf == [e \in Emails |-> corp]
=============================================================================
