--------------------------- MODULE MCKeyLifecycle ---------------------------
(* Small instances of KeyLifecycle: every key belongs to one account. *)
EXTENDS KeyLifecycle, TLC

CONSTANTS u1

MCUsers == {u1}
MCOwner == [k \in Keys |-> u1]
Symmetry == Permutations(PeerIds)
=============================================================================
