----------------------------- MODULE MCKeyQuota ------------------------------
(* Two requests at a time, for two accounts and two nodes. *)
EXTENDS KeyQuota, TLC

AskedQuotas == {[flat |-> 2, perNode |-> [n \in Nodes |-> 1], mode |-> None]}
InitialPolicies == {[default |-> 1, mode |-> mode] : mode \in Modes}

\* Accounts, nodes, rows and sessions are alike.
Alike == Permutations(Users) \cup Permutations(Nodes) \cup Permutations(Keys) \cup Permutations(Sessions)
=============================================================================
