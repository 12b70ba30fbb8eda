---------------------------- MODULE MCXrayPeers -----------------------------
(* A creation for each of two clients, one other call, one import, one failure,
   one day.  A backup holds one client, whose day it is, or both. *)
EXTENDS XrayPeers

CONSTANTS c1, c2

MCBackups ==
    { [Empty EXCEPT ![c1] = [status |-> "active", expires |-> 1]],
      [Empty EXCEPT ![c1] = [status |-> "disabled", expires |-> 1],
                    ![c2] = [status |-> "active", expires |-> 0]] }
=============================================================================
