----------------------------- MODULE MCRouting -----------------------------
(* Instances of Routing for TLC: links, addresses, subnets as model values. *)
EXTENDS Routing, TLC

CONSTANTS l1, l2, a1, s1, e1, e2

(* Two rules that share their second tunnel; one rule with two tunnels. *)
SharedBackup == (1 :> <<l1, l2>>) @@ (2 :> <<l2>>)
OneRule == 1 :> <<l1, l2>>
OneTunnel == 1 :> <<l1>>
OneTunnelEach == (1 :> <<l1>>) @@ (2 :> <<l2>>)

(* The subnet holds one of the servers. *)
HoldsOne == {<<s1, e1>>}

(* Without addresses nothing depends on the switch of the owner. *)
NoOwner ==
    <<links, active, lists, fakeip, placing, stopped, connecting, kernel>>
=============================================================================
