------------------------------ MODULE MCTraffic -------------------------------
(* One key, whose buckets are two ticks long. *)
EXTENDS Traffic
=============================================================================
