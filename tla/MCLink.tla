------------------------------- MODULE MCLink -------------------------------
(* Instances of Link for TLC: networks and tunnels as model values. *)
EXTENDS Link

CONSTANTS n1, t1, t2
=============================================================================
