----------------------------- MODULE MCLifecycle -----------------------------
(* An instance of Lifecycle for TLC: a service with servers of its own, and *)
(* one with the resolver's address among them.                              *)
EXTENDS Lifecycle, TLC

CONSTANTS a1, a2, k1, k2, k3, wifi, usb, own

TwoServices == wifi :> {own} @@ usb :> {own, Resolver}
=============================================================================
