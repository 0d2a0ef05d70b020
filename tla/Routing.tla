------------------------------ MODULE Routing ------------------------------
(***************************************************************************)
(* How the kernel's routes follow the rules and the tunnels: reconcile,    *)
(* route_host, expire and remove_all of resolver.rs over route.rs, driven  *)
(* by the queries, the watch and the link tasks (connect of link.rs).      *)
(*                                                                         *)
(* The core is locked over each of these, and none of them awaits: each is *)
(* one step.  A link step is split where connect awaits.  An interface is  *)
(* named by the number of the amneziawg-go that made it: a later one may   *)
(* get its index, but the routes went with the interface.                  *)
(*                                                                         *)
(* Left out: the tables of pf (module KillSwitch), the journal, the window *)
(* of a host.                                                              *)
(***************************************************************************)
EXTENDS Picks

CONSTANTS
    NRules,         \* rules of the settings, 1..NRules in order of priority
    Order,          \* rule -> its tunnels, in order
    Addrs,          \* addresses that answers carry
    Subnets,        \* subnets of the lists; an address listed alone is in both
    Inside,         \* <<subnet, server>> where the subnet holds the server,
                    \* which a server listed alone does
    MaxSeq,         \* bound: tunnels started
    RouteMayFail,   \* a call on the route socket may fail
    ExitsUnseen,    \* an interface may go before its link says so
    Handover        \* a tunnel is replaced while its interface still stands

Rules == 1 .. NRules
NoRule == 0
Dsts == Addrs \cup Subnets

ASSUME RulesAssumption ==
    /\ NRules \in Nat
    /\ Order \in [Rules -> Seq(Links)]
    /\ \A r \in Rules : IsInjective(Order[r])
    /\ Inside \subseteq Subnets \X Servers
    /\ \A s \in Subnets \cap Servers : <<s, s>> \in Inside
    /\ NoServer \notin Servers
ASSUME FaultsAssumption ==
    /\ RouteMayFail \in BOOLEAN
    /\ ExitsUnseen \in BOOLEAN
    /\ Handover \in BOOLEAN

VARIABLES
    links,     \* link -> what it published
    active,    \* the rules in force
    current,   \* rule -> the tunnel it has, or NoLink
    hosts,     \* address -> its rule and where it is placed
    subnets,   \* subnet -> its rule and where it is placed
    lists,     \* rule -> the subnets in its lists
    owner,     \* the owner's switch: refuse every name
    fakeip,    \* the router answers with fake addresses
    stopped,   \* every route was taken back
    tunnel,    \* link -> the interface it holds, or NoIface
    old,       \* link -> the interface it is about to take down
    generation,\* link -> the number of its last connect
    stage,     \* link -> where its connect stands
    seq,       \* the last number given
    ifaces,    \* kernel: interfaces that stand
    route      \* kernel: destination -> interface, or NoIface

rules == <<active, lists, owner, fakeip>>
placing == <<current, hosts, subnets>>
connecting == <<tunnel, old, generation, stage, seq>>
kernel == <<ifaces, route>>
vars == <<links, rules, placing, stopped, connecting, kernel>>

Nowhere == <<NoLink, 0>>
Places == (Links \cup {NoLink}) \X Nat
Held == [rule : Rules \cup {NoRule}, placed : Places]
None == [rule |-> NoRule, placed |-> Nowhere]

-----------------------------------------------------------------------------
(* What Core says of the rules.                                            *)

(* Core::target of every rule: the link, its generation, its interface. *)
NoTarget == [link |-> NoLink, generation |-> 0, iface |-> NoIface]
Targets ==
    [r \in Rules |->
        IF current[r] = NoLink \/ ~HasIface(links[current[r]]) THEN NoTarget
        ELSE [link |-> current[r],
              generation |-> links[current[r]].generation,
              iface |-> links[current[r]].iface]]

(* Mutant: a new amneziawg-go passes for the old one. *)
PlacedByLink(t) == <<t.link, 0>>

Placed(t) == <<t.link, t.generation>>

(* Core::reasons and carries. *)
TunnelReason(r) == Targets[r] = NoTarget \/ links[current[r]].health = "down"
Carries(r) ==
    /\ r \in active
    /\ ~TunnelReason(r)
    /\ ~links[current[r]].works
    /\ ~owner

Endpoints == {links[l].endpoint : l \in Links} \ {NoServer}
HoldsServer(s) == \E e \in Endpoints : <<s, e>> \in Inside

(* Core::subnet_owners: the first rule in force that has the subnet. *)
Claims(s) == {r \in active : s \in lists[r]}

(* Mutant: a subnet with a server is routed like any other. *)
WantAnyway(s) ==
    LET r == Min(Claims(s))
    IN  IF Claims(s) = {} \/ Targets[r] = NoTarget \/ (fakeip /\ TunnelReason(r)) THEN None
        ELSE [rule |-> r, placed |-> Placed(Targets[r])]

(* The want of place_subnets: the owner's tunnel, but for a subnet that    *)
(* holds a server; and with fake addresses upstream and a tunnel that does *)
(* not carry, the subnet goes to the router.                               *)
Want(s) ==
    LET r == Min(Claims(s))
    IN  IF \/ Claims(s) = {}
           \/ HoldsServer(s)
           \/ Targets[r] = NoTarget
           \/ fakeip /\ TunnelReason(r)
        THEN None
        ELSE [rule |-> r, placed |-> Placed(Targets[r])]
WantIface(s) == Targets[Want(s).rule].iface

-----------------------------------------------------------------------------
(* The route socket.                                                       *)

(* The calls of one step: a put or a delete, for a host or a subnet.  A    *)
(* put adds, and when there is a route, deletes it and adds again: one     *)
(* that fails leaves the route that was there, or none.                    *)
HostCall(a) == <<"host", a>>
SubnetCall(s) == <<"subnet", s>>
Calls == {HostCall(a) : a \in Addrs} \cup {SubnetCall(s) : s \in Subnets}

Put(call, iface, was, failed, lost) ==
    IF call \notin failed THEN iface ELSE IF call \in lost THEN NoIface ELSE was

Delete(call, was, failed) == IF call \in failed THEN was ELSE NoIface

(* Routes go with their interface. *)
Lasting == [d \in Dsts |-> IF route[d] \in ifaces' THEN route[d] ELSE NoIface]

(* A put on an interface that is gone fails at its first add. *)
MayFail(failed, lost, onGone) ==
    /\ onGone \subseteq failed
    /\ ~RouteMayFail => failed = onGone /\ lost = {}

-----------------------------------------------------------------------------
(* Resolver::reconcile, by what holds after the step.                      *)

NewCurrent ==
    [r \in Rules |-> IF r \in active' THEN Pick(links', Order[r], current[r]) ELSE NoLink]

(* place_hosts *)
Known(a) == hosts[a].rule # NoRule

(* Mutant: a host that turns out to be a server stays. *)
DroppedByRule(a) == Known(a) /\ hosts[a].rule \notin active'

Dropped(a) == Known(a) /\ (hosts[a].rule \notin active' \/ a \in Endpoints')
Moved(a) ==
    /\ Known(a)
    /\ ~Dropped(a)
    /\ Targets'[hosts[a].rule] # NoTarget
    /\ hosts[a].placed # Placed(Targets'[hosts[a].rule])

NewHost(a, failed) ==
    IF Dropped(a) THEN None
    ELSE IF Moved(a) /\ HostCall(a) \notin failed
         THEN [hosts[a] EXCEPT !.placed = Placed(Targets'[hosts[a].rule])]
         ELSE hosts[a]

HostRoute(a, failed, lost) ==
    IF Dropped(a) /\ hosts[a].placed # Nowhere
    THEN Delete(HostCall(a), Lasting[a], failed)
    ELSE IF Moved(a)
         THEN Put(HostCall(a), Targets'[hosts[a].rule].iface, Lasting[a], failed, lost)
         ELSE Lasting[a]

(* place_subnets; was is the route of the subnet once the hosts are placed *)
NewSubnet(s, failed) ==
    IF subnets[s] = Want(s)' \/ SubnetCall(s) \notin failed THEN Want(s)' ELSE None

(* Mutant: what is not wanted any more is forgotten, not deleted. *)
SubnetRouteKept(s, was, failed, lost) ==
    IF Want(s)' \in {None, subnets[s]} THEN was
    ELSE Put(SubnetCall(s), WantIface(s)', was, failed, lost)

SubnetRoute(s, was, failed, lost) ==
    IF subnets[s] = Want(s)' THEN was
    ELSE IF Want(s)' = None THEN Delete(SubnetCall(s), was, failed)
         ELSE Put(SubnetCall(s), WantIface(s)', was, failed, lost)

PutsOnGone ==
    {HostCall(a) : a \in {b \in Addrs :
        Moved(b) /\ Targets'[hosts[b].rule].iface \notin ifaces'}}
    \cup
    {SubnetCall(s) : s \in {t \in Subnets :
        Want(t)' \notin {None, subnets[t]} /\ WantIface(t)' \notin ifaces'}}

Reconcile ==
    IF stopped THEN UNCHANGED placing /\ route' = Lasting
    ELSE
    /\ current' = NewCurrent
    /\ \E failed \in SUBSET Calls : \E lost \in SUBSET failed :
        /\ MayFail(failed, lost, PutsOnGone)
        /\ hosts' = [a \in Addrs |-> NewHost(a, failed)]
        /\ subnets' = [s \in Subnets |-> NewSubnet(s, failed)]
        /\ route' = [d \in Dsts |->
              LET was == IF d \in Addrs THEN HostRoute(d, failed, lost) ELSE Lasting[d]
              IN  IF d \in Subnets THEN SubnetRoute(d, was, failed, lost) ELSE was]

-----------------------------------------------------------------------------
Init ==
    /\ links = [l \in Links |->
          [iface |-> NoIface, generation |-> 0, health |-> "down", works |-> FALSE,
           stood |-> FALSE, endpoint |-> NoServer]]
    /\ active \in SUBSET Rules
    /\ current = [r \in Rules |-> NoLink]
    /\ hosts \in [Addrs -> {[rule |-> r, placed |-> Nowhere] : r \in Rules \cup {NoRule}}]
    /\ subnets = [s \in Subnets |-> None]
    /\ lists \in [Rules -> SUBSET Subnets]
    /\ owner = FALSE
    /\ fakeip = FALSE
    /\ stopped = FALSE
    /\ tunnel = [l \in Links |-> NoIface]
    /\ old = [l \in Links |-> NoIface]
    /\ generation = [l \in Links |-> 0]
    /\ stage = [l \in Links |-> "idle"]
    /\ seq = 0
    /\ ifaces = {}
    /\ route = [d \in Dsts |-> NoIface]

-----------------------------------------------------------------------------
(* Queries.                                                                *)

(* route_host leaves an address to an earlier rule that carries. *)
Kept(a, r) == Known(a) /\ hosts[a].rule < r /\ Carries(hosts[a].rule)

(* The addresses of an answer, to a query that went by rule r, are routed  *)
(* in turn; one that fails ends it.  What rule that was, when the query    *)
(* came, says nothing of the rule now.                                     *)
Answer(r) ==
    /\ ~stopped
    /\ Targets[r] # NoTarget
    /\ \E as \in SUBSET (Addrs \ Endpoints) :
        LET rest == {a \in as : ~Kept(a, r)}
            gone == Targets[r].iface \notin ifaces
        IN  \E done \in SUBSET rest, lost \in SUBSET Addrs :
            /\ gone => done = {}
            /\ done # rest => gone \/ RouteMayFail
            /\ \/ lost = {}
               \/ RouteMayFail /\ \E a \in rest \ done : lost = {a}
            /\ hosts' = [a \in Addrs |->
                  IF a \in done THEN [rule |-> r, placed |-> Placed(Targets[r])]
                  ELSE hosts[a]]
            /\ route' = [d \in Dsts |->
                  IF d \in done THEN Targets[r].iface
                  ELSE IF d \in lost THEN NoIface ELSE route[d]]
    /\ UNCHANGED <<links, rules, current, subnets, stopped, connecting, ifaces>>

-----------------------------------------------------------------------------
(* The watch.                                                              *)

(* Watch::step: the fake range detected, the owner's switch, the country,  *)
(* then reconcile. *)
Tick ==
    /\ ~stopped
    /\ active' \in SUBSET Rules
    /\ owner' \in BOOLEAN
    /\ fakeip' \in BOOLEAN
    /\ UNCHANGED <<links, lists, stopped, connecting, ifaces>>
    /\ Reconcile

(* track_network: another network, whose router is not known yet. *)
NewNetwork ==
    /\ fakeip
    /\ fakeip' = FALSE
    /\ UNCHANGED <<links, active, lists, owner, placing, stopped, connecting, kernel>>

(* Mutant: the routes of the new lists wait for the next tick. *)
NewListsOnly ==
    /\ ~stopped
    /\ lists' \in [Rules -> SUBSET Subnets]
    /\ UNCHANGED <<links, active, owner, fakeip, placing, stopped, connecting, kernel>>

(* Watch::follow_sources. *)
NewLists ==
    /\ ~stopped
    /\ lists' \in [Rules -> SUBSET Subnets]
    /\ UNCHANGED <<links, active, owner, fakeip, stopped, connecting, ifaces>>
    /\ Reconcile

(* Mutant: the host goes, its route stays. *)
UnroutedNone(as, failed) == route

(* Resolver::expire: the routes of hosts whose window is over. *)
Unrouted(as, failed) ==
    [d \in Dsts |->
        IF d \in as /\ hosts[d].placed # Nowhere
        THEN Delete(HostCall(d), route[d], failed) ELSE route[d]]

Expire ==
    /\ ~stopped
    /\ \E gone \in SUBSET {a \in Addrs : Known(a)} : \E failed \in SUBSET Calls :
        /\ gone # {}
        /\ MayFail(failed, {}, {})
        /\ hosts' = [a \in Addrs |-> IF a \in gone THEN None ELSE hosts[a]]
        /\ route' = Unrouted(gone, failed)
    /\ UNCHANGED <<links, rules, current, subnets, stopped, connecting, ifaces>>

(* Resolver::remove_all, when the daemon stops. *)
RemoveAll ==
    /\ ~stopped
    /\ stopped' = TRUE
    /\ hosts' = [a \in Addrs |-> [hosts[a] EXCEPT !.placed = Nowhere]]
    /\ subnets' = [s \in Subnets |-> None]
    /\ \E failed \in SUBSET Calls :
        /\ MayFail(failed, {}, {})
        /\ route' = [d \in Dsts |->
              IF d \in Subnets /\ subnets[d] # None
              THEN Delete(SubnetCall(d), Unrouted(Addrs, failed)[d], failed)
              ELSE Unrouted(Addrs, failed)[d]]
    /\ UNCHANGED <<links, rules, current, connecting, ifaces>>

-----------------------------------------------------------------------------
(* The links.                                                              *)

(* Mutant: the state is set, the rules stay as they are. *)
PublishOnly(l, health, works, stood, endpoint) ==
    /\ links' = [links EXCEPT ![l] =
          [iface |-> tunnel'[l], generation |-> generation'[l], health |-> health,
           works |-> works, stood |-> stood, endpoint |-> endpoint]]
    /\ UNCHANGED placing
    /\ route' = Lasting

(* Link::sync: the state goes to the resolver, which reconciles. *)
Publish(l, health, works, stood, endpoint) ==
    /\ links' = [links EXCEPT ![l] =
          [iface |-> tunnel'[l], generation |-> generation'[l], health |-> health,
           works |-> works, stood |-> stood, endpoint |-> endpoint]]
    /\ Reconcile

(* A server named by its address is told of with the first sync. *)
Told(l) ==
    IF links[l].endpoint = NoServer THEN Servers \cup {NoServer} ELSE {links[l].endpoint}

(* A check or a confirmation says how the tunnel is.  A wake or a new      *)
(* network may also come to a link that has none.                          *)
Check(l) ==
    /\ stage[l] = "idle"
    /\ UNCHANGED <<rules, stopped, connecting, ifaces>>
    /\ \E health \in IF tunnel[l] = NoIface THEN {"down"} ELSE Healths :
       \E works \in BOOLEAN, endpoint \in Told(l) :
        Publish(l, health, works,
                links[l].stood /\ health = "up" /\ links[l].health = "up", endpoint)

(* A link that carries has done so for RETURN. *)
Stand(l) ==
    /\ links[l].health = "up"
    /\ ~links[l].stood
    /\ links' = [links EXCEPT ![l].stood = TRUE]
    /\ UNCHANGED <<rules, placing, stopped, connecting, kernel>>

(* Link::connect takes its number, and waits for the server's address.     *)
(* The tunnel it had, if it was lost and not gone, still stands.           *)
ConnectAs(l, taken) ==
    /\ stage[l] = "idle"
    /\ links[l].health = "down"
    /\ seq < MaxSeq
    /\ tunnel[l] # NoIface => Handover
    /\ seq' = seq + 1
    /\ generation' = [generation EXCEPT ![l] = taken]
    /\ stage' = [stage EXCEPT ![l] = "resolving"]
    /\ UNCHANGED <<links, rules, placing, stopped, tunnel, old, kernel>>

(* Mutant: the number as it was before the add. *)
ConnectFromZero(l) == ConnectAs(l, seq)

Connect(l) == ConnectAs(l, seq + 1)

(* A wake since the last sync goes out with the next. *)
Woke(l, works) == links[l].works => works

(* The server is let out before the first packet to it. *)
LetOut(l) ==
    /\ stage[l] = "resolving"
    /\ stage' = [stage EXCEPT ![l] = "raising"]
    /\ UNCHANGED <<rules, stopped, tunnel, old, generation, seq, ifaces>>
    /\ \E server \in Servers, works \in BOOLEAN :
        Woke(l, works) /\ Publish(l, "down", works, FALSE, server)

(* No address, or amneziawg-go does not come up. *)
ConnectFails(l) ==
    /\ stage[l] \in {"resolving", "raising"}
    /\ stage' = [stage EXCEPT ![l] = "idle"]
    /\ UNCHANGED <<rules, stopped, tunnel, old, generation, seq, ifaces>>
    /\ \E works \in BOOLEAN :
        Woke(l, works) /\ Publish(l, "down", works, FALSE, links[l].endpoint)

(* The new tunnel is up and takes the routes over, not confirmed yet. *)
Raised(l) ==
    /\ stage[l] = "raising"
    /\ tunnel' = [tunnel EXCEPT ![l] = generation[l]]
    /\ old' = [old EXCEPT ![l] = tunnel[l]]
    /\ ifaces' = ifaces \cup {generation[l]}
    /\ stage' = [stage EXCEPT ![l] = IF tunnel[l] = NoIface THEN "idle" ELSE "handing"]
    /\ UNCHANGED <<rules, stopped, generation, seq>>
    /\ Publish(l, "down", links[l].works, FALSE, links[l].endpoint)

(* Then the old one goes. *)
OldDown(l) ==
    /\ stage[l] = "handing"
    /\ ifaces' = ifaces \ {old[l]}
    /\ route' = Lasting
    /\ old' = [old EXCEPT ![l] = NoIface]
    /\ stage' = [stage EXCEPT ![l] = "idle"]
    /\ UNCHANGED <<links, rules, placing, stopped, tunnel, generation, seq>>

(* amneziawg-go exits, or is being taken down, and its link has yet to     *)
(* tell.                                                                   *)
Exit(l) ==
    /\ ExitsUnseen
    /\ tunnel[l] \in ifaces
    /\ ifaces' = ifaces \ {tunnel[l]}
    /\ route' = Lasting
    /\ UNCHANGED <<links, rules, placing, stopped, connecting>>

(* The link tells that its tunnel is gone. *)
Down(l) ==
    /\ stage[l] = "idle"
    /\ tunnel[l] # NoIface
    /\ ExitsUnseen => tunnel[l] \notin ifaces
    /\ tunnel' = [tunnel EXCEPT ![l] = NoIface]
    /\ ifaces' = ifaces \ {tunnel[l]}
    /\ UNCHANGED <<rules, stopped, old, generation, stage, seq>>
    /\ \E works \in BOOLEAN :
        Woke(l, works) /\ Publish(l, "down", works, FALSE, links[l].endpoint)

LinkStep(l) ==
    \/ Check(l)
    \/ Stand(l)
    \/ Connect(l)
    \/ LetOut(l)
    \/ ConnectFails(l)
    \/ Raised(l)
    \/ OldDown(l)
    \/ Exit(l)
    \/ Down(l)

Next ==
    \/ \E r \in Rules : Answer(r)
    \/ Tick
    \/ NewNetwork
    \/ NewLists
    \/ Expire
    \/ RemoveAll
    \/ \E l \in Links : LinkStep(l)

Spec == Init /\ [][Next]_vars

-----------------------------------------------------------------------------
TypeOK ==
    /\ links \in [Links -> LinkStates]
    /\ active \subseteq Rules
    /\ current \in [Rules -> Links \cup {NoLink}]
    /\ hosts \in [Addrs -> Held]
    /\ subnets \in [Subnets -> Held]
    /\ lists \in [Rules -> SUBSET Subnets]
    /\ owner \in BOOLEAN
    /\ fakeip \in BOOLEAN
    /\ stopped \in BOOLEAN
    /\ tunnel \in [Links -> Nat]
    /\ old \in [Links -> Nat]
    /\ generation \in [Links -> Nat]
    /\ stage \in [Links -> {"idle", "resolving", "raising", "handing"}]
    /\ seq \in Nat
    /\ ifaces \subseteq 1 .. seq
    /\ route \in [Dsts -> ifaces \cup {NoIface}]

Live(t) == t # NoTarget /\ t.iface \in ifaces

(* While the daemon runs, every host of a rule whose tunnel stands is      *)
(* routed into that tunnel and the resolver knows it: "brings the routes   *)
(* in line with the rules and tunnels as they are now" (reconcile).  A     *)
(* number in place of an interface is what makes it hard: the mark of a    *)
(* host must not match a tunnel its route does not lead to.                *)
HostsInLine ==
    \A a \in Addrs :
        LET t == Targets[hosts[a].rule]
        IN  Known(a) /\ Live(t) /\ ~stopped =>
                hosts[a].placed = Placed(t) /\ route[a] = t.iface

(* A host marked as placed is routed there: "a route this process placed   *)
(* is left as it is" (route_host), so a mark without a route is for good,  *)
(* until the name is asked again.                                          *)
HostsWherePlaced ==
    \A a \in Addrs :
        LET t == Targets[hosts[a].rule]
        IN  Known(a) /\ Live(t) /\ hosts[a].placed = Placed(t) => route[a] = t.iface

(* A rule in force is on a tunnel that carries when any of its tunnels     *)
(* does, or waits for one just after a wake (pick): whatever a link tells, *)
(* no rule stays on a dead tunnel next to one that carries.                *)
RulesCarried ==
    \A r \in active, l \in Links :
        l \in Carrying(links) /\ l \in Range(Order[r]) /\ ~stopped =>
            /\ current[r] # NoLink
            /\ \/ current[r] \in Carrying(links)
               \/ HasIface(links[current[r]]) /\ links[current[r]].works

(* A host is routed only into a tunnel of its own rule, or one such that   *)
(* is about to go, and an address nobody holds is not routed: no step of   *)
(* reconcile, of an answer or of a sweep leaves a route behind.            *)
HostsOwnTunnels ==
    \A a \in Addrs :
        route[a] # NoIface =>
            /\ Known(a)
            /\ \E l \in Range(Order[hosts[a].rule]) : route[a] \in {tunnel[l], old[l]}

(* The server of a tunnel is never reached through a tunnel: neither its   *)
(* address nor a subnet that holds it is routed, from before the first     *)
(* packet to it (routable, place_subnets, connect).                        *)
ServersDirect ==
    \A d \in Dsts :
        d \in Endpoints \/ (d \in Subnets /\ HoldsServer(d)) => route[d] = NoIface

(* Every subnet route there is, the resolver knows of: "Subnet routes in   *)
(* place: the rule that owns each, and where" (Core).  One it does not     *)
(* know is never moved, deleted or taken back.                             *)
SubnetRoutesKnown == \A s \in Subnets : route[s] # NoIface => subnets[s] # None

(* A subnet the resolver has placed is routed to the tunnel, as it is now, *)
(* of the first rule in force that has it; and while that tunnel carries,  *)
(* and no server is inside, it is placed: lists, rules, links and the      *)
(* network change in any order.                                            *)
SubnetsInLine ==
    \A s \in Subnets :
        LET r == Min(Claims(s))
        IN  ~stopped =>
            /\ subnets[s] # None =>
                /\ Claims(s) # {}
                /\ subnets[s] = [rule |-> r, placed |-> Placed(Targets[r])]
                /\ route[s] = Targets[r].iface
            /\ Claims(s) # {} /\ ~HoldsServer(s) /\ ~TunnelReason(r) => subnets[s] # None

(* A rule leaves a tunnel that carries only for an earlier one that has    *)
(* carried for RETURN: no flapping between two that carry (pick).          *)
StaysWithCarrying ==
    [][\A r \in active' :
        current[r] \in Carrying(links') /\ current'[r] # current[r] =>
            current'[r] \in Stood(links') \cap Before(Order[r], current[r])]_vars

(* "The routes go to the new interface ... before the old one goes" (Link: *)
(* connect): when the old interface is taken down, no route leads there.   *)
OldGoesEmpty ==
    \A l \in Links : stage[l] = "handing" => \A d \in Dsts : route[d] # old[l]
=============================================================================
