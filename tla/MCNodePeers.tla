---------------------------- MODULE MCNodePeers -----------------------------
(* Two names for three keys, so that a name is used again and addresses are
   given out, taken back and given out once more; two hosts besides the
   interface's own. *)
EXTENDS NodePeers

CONSTANTS p1, p2, n1, n2

Label(n, x, h) == [name |-> n, expires |-> x, ip |-> h]

\* One with two peers of one address, of which one will be past its date and the
\* other has no label; and one with a blocked peer that has no address to go back
\* to.  The rest of the node's own peers are in neither.
MCBackups ==
    { [table |-> [NoTable EXCEPT ![p1] = Label(n1, 1, 2)],
       config |-> [NoTable EXCEPT ![p1] = 2, ![p2] = 2]],
      [table |-> [NoTable EXCEPT ![p2] = Label(n1, 0, None)],
       config |-> [NoTable EXCEPT ![p2] = Blocked]] }
=============================================================================
