---------------------------- MODULE LinkPromise ----------------------------
(***************************************************************************)
(* What a link promises the resolver, whatever happens to its tunnel: the  *)
(* abstract specification of the states it publishes with set_link.        *)
(*                                                                         *)
(* The rules are moved by these states.  A new interface is told of before *)
(* it is trusted, so that the routes are there for its first probe; only   *)
(* an interface already told of is said to carry; one that was carrying is *)
(* replaced only after it was given up; and a suspicion is settled.        *)
(***************************************************************************)
CONSTANTS
    Tunnels,  \* what tells one interface from the next
    NoTunnel  \* no interface

VARIABLES
    iface,    \* the interface published
    health    \* and its health

view == <<iface, health>>

Healths == {"Down", "Suspect", "Degraded", "Up"}

Init == iface = NoTunnel /\ health = "Down"

(* A new interface takes the place of none or of one given up. *)
Raise ==
    /\ health = "Down"
    /\ iface' \in Tunnels \ {iface}
    /\ health' = "Down"

(* A probe got through. *)
Carry ==
    /\ iface # NoTunnel
    /\ health' = "Up"
    /\ UNCHANGED iface

(* The ping failed: the rules may leave while TLS tells. *)
Doubt ==
    /\ health = "Up"
    /\ health' = "Suspect"
    /\ UNCHANGED iface

(* No probe gets through, yet the peer answers. *)
Degrade ==
    /\ iface # NoTunnel
    /\ health' = "Degraded"
    /\ UNCHANGED iface

(* Given up, with its interface or without. *)
Fall ==
    /\ health' = "Down"
    /\ iface' \in {iface, NoTunnel}

Next == Raise \/ Carry \/ Doubt \/ Degrade \/ Fall

(* A suspicion does not last: TLS, or what comes in between, settles it. *)
Settle == health = "Suspect" /\ (Carry \/ Degrade \/ Fall)

Spec == Init /\ [][Next]_view /\ WF_view(Settle)
=============================================================================
