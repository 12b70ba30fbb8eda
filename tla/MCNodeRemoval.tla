--------------------------- MODULE MCNodeRemoval ----------------------------
(* Two requests of the API at a time over two nodes, one of them with a key. *)
EXTENDS NodeRemoval, TLC

AllRecommended ==
    {[recommended |-> l, order |-> l] : l \in {f \in NodeLists : Len(f) = Cardinality(Nodes)}}

\* Nodes, keys, requests and sessions are alike.
Alike == Permutations(Nodes) \cup Permutations(Keys) \cup Permutations(Asks) \cup Permutations(Sessions)
=============================================================================
