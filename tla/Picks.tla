------------------------------- MODULE Picks -------------------------------
(***************************************************************************)
(* Which tunnel a rule takes: pick of resolver.rs, over the state of the   *)
(* links as they publish it.  Pure: no state of its own.                   *)
(***************************************************************************)
EXTENDS Naturals, Sequences, FiniteSetsExt

CONSTANTS
    Links,         \* the tunnels of the settings
    NoLink,        \* no tunnel
    Servers,       \* addresses of tunnel servers
    NoServer       \* no address known yet

ASSUME LinksAssumption == NoLink \notin Links

NoIface == 0                \* interfaces are numbered from 1 as they come up
Healths == {"down", "up", "alive"}  \* "alive": suspect or degraded

(* What a link publishes; "stood" when it has been carrying for RETURN. *)
LinkStates ==
    [iface : Nat, generation : Nat, health : Healths, works : BOOLEAN,
     stood : BOOLEAN, endpoint : Servers \cup {NoServer}]

(* LinkState::good, and pick's own good and settled. *)
HasIface(l) == l.iface # NoIface
Good(l) == HasIface(l) /\ l.health = "up"
Fit(l) == Good(l) /\ ~l.works
Settled(l) == Fit(l) /\ l.stood

WithIface(links) == {t \in Links : HasIface(links[t])}
Carrying(links) == {t \in Links : Fit(links[t])}
Stood(links) == {t \in Links : Settled(links[t])}

(* The tunnels before t in the order. *)
Before(order, t) ==
    {order[i] : i \in {j \in DOMAIN order : \A k \in 1 .. j : order[k] # t}}

(* The first tunnel of the order in the set S. *)
FirstIn(order, S) == order[Min({i \in DOMAIN order : order[i] \in S})]

(* Mutant: the first that carries, whatever the rule has. *)
WishesFirst(links, order, c) ==
    <<{}, {}, {}, Carrying(links), {c} \cap WithIface(links), WithIface(links)>>

(* What a rule that has the tunnel c would take, most wanted first: a      *)
(* tunnel just after a wake is waited for; one that carries is left only   *)
(* for an earlier one that has stood; else the first that carries, the one *)
(* it has, the first with an interface.                                    *)
Wishes(links, order, c) ==
    LET fit == Carrying(links)
        iface == WithIface(links)
    IN  << {t \in {c} \cap iface : links[t].works},
           IF c \in fit THEN Stood(links) \cap Before(order, c) ELSE {},
           {c} \cap fit,
           fit,
           {c} \cap iface,
           iface >>

Granted(links, order, c) ==
    {k \in 1 .. 6 : \E i \in DOMAIN order : order[i] \in Wishes(links, order, c)[k]}

Pick(links, order, c) ==
    IF Granted(links, order, c) = {} THEN NoLink
    ELSE FirstIn(order, Wishes(links, order, c)[Min(Granted(links, order, c))])
=============================================================================
