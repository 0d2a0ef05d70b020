---------------------------- MODULE MCKillSwitch ----------------------------
(* Instances of KillSwitch for TLC: addresses, tasks as model values.      *)
EXTENDS KillSwitch

CONSTANTS a1, a2, q1, q2, l1, watch
=============================================================================
