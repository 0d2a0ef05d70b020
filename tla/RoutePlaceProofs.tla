-------------------------- MODULE RoutePlaceProofs --------------------------
(***************************************************************************)
(* Where routes may be: the subnets follow the rules and tunnels, servers  *)
(* are reached directly, hosts lead into tunnels of their own rule.        *)
(* Continues RoutingProofs.                                                *)
(***************************************************************************)
EXTENDS RoutingProofs

(* No call fails but on an interface that is gone, and no list names an    *)
(* address.                                                                *)
Clean ==
    /\ ~RouteMayFail
    /\ Addrs \cap Subnets = {}

(* And a link tells of its interface before that goes, and replaces none   *)
(* that stands.                                                            *)
Quiet ==
    /\ Clean
    /\ ~Handover
    /\ ~ExitsUnseen

LEMMA QuietIsCalm == Quiet => Calm
BY DEF Quiet, Clean, Calm

-----------------------------------------------------------------------------
(* What a subnet should be, told apart by what the fake range may change.  *)

Its(s) == [rule |-> Min(Claims(s)), placed |-> Placed(Targets[Min(Claims(s))])]

Routable(s) ==
    /\ Claims(s) # {}
    /\ ~HoldsServer(s)
    /\ Targets[Min(Claims(s))] # NoTarget

Carried(s) ==
    /\ Claims(s) # {}
    /\ ~HoldsServer(s)
    /\ ~TunnelReason(Min(Claims(s)))

(* A place w for a subnet that fits the rules and tunnels as they are. *)
Fits(s, w) ==
    \/ w = None /\ ~Carried(s)
    \/ w # None /\ Routable(s) /\ w = Its(s)

LEMMA ClaimsLeast ==
    Decides => \A s \in Subnets : Claims(s) # {} => Min(Claims(s)) \in Rules
<1> SUFFICES ASSUME Decides, NEW s \in Subnets, Claims(s) # {}
             PROVE  Min(Claims(s)) \in Rules
  OBVIOUS
<1> DEFINE C == Claims(s)
<1>1. C \subseteq Rules
  BY DEF Claims, Decides
<1>2. C \in SUBSET Nat /\ C # {}
  BY <1>1, RulesInNat
<1> HIDE DEF C
<1>3. Min(C) \in C
  BY <1>2, LeastOf
<1> QED
  BY <1>1, <1>3 DEF C

WantFitting == \A s \in Subnets : Fits(s, Want(s))

LEMMA WantFits == Decides => WantFitting
<1> SUFFICES ASSUME Decides, NEW s \in Subnets PROVE Fits(s, Want(s))
  BY DEF WantFitting
<1> DEFINE m == Min(Claims(s))
<1>1. CASE \/ Claims(s) = {}
           \/ HoldsServer(s)
           \/ Targets[m] = NoTarget
           \/ fakeip /\ TunnelReason(m)
  <2>1. Want(s) = None
    BY <1>1 DEF Want
  <2>2. ~Carried(s)
    BY <1>1 DEF Carried, TunnelReason
  <2> QED
    BY <2>1, <2>2 DEF Fits
<1>2. CASE ~(\/ Claims(s) = {}
             \/ HoldsServer(s)
             \/ Targets[m] = NoTarget
             \/ fakeip /\ TunnelReason(m))
  <2>1. Want(s) = Its(s)
    BY <1>2 DEF Want, Its
  <2>2. Routable(s)
    BY <1>2 DEF Routable
  <2>3. m \in Rules
    BY <1>2, ClaimsLeast
  <2>4. m # NoRule
    BY <2>3 DEF Rules, NoRule
  <2>5. Its(s) # None
    <3>1. Its(s).rule = m /\ None.rule = NoRule
      BY DEF Its, None
    <3> QED
      BY <2>4, <3>1
  <2> QED
    BY <2>1, <2>2, <2>5 DEF Fits
<1> QED
  BY <1>1, <1>2

LEMMA WantFitsNext == Decides' => WantFitting'
<1>1. (Decides => WantFitting)'
  BY WantFits, PTL
<1> QED
  BY <1>1

-----------------------------------------------------------------------------
(* Subnets.                                                                *)

(* Interfaces that links hold stand. *)
HeldStand == \A l \in Links : tunnel[l] # NoIface => tunnel[l] \in ifaces

(* The place of each subnet fits, and its route leads there; once the      *)
(* daemon has stopped there is none.                                       *)
RouteOf(w) == IF w = None THEN NoIface ELSE Targets[w.rule].iface
InPlace(s) == Fits(s, subnets[s]) /\ route[s] = RouteOf(subnets[s])
SubnetsPlaced ==
    \A s \in Subnets :
        IF stopped THEN subnets[s] = None /\ route[s] = NoIface ELSE InPlace(s)

SubnetInv == LinksTell /\ Distinct /\ HeldStand /\ SubnetsPlaced

LEMMA HeldStandStep ==
    ASSUME Quiet, Inv, LinksTell, Distinct, HeldStand, [Next]_vars
    PROVE  HeldStand'
<1> USE DEF Quiet
<1>1. CASE UNCHANGED vars
  BY <1>1 DEF vars, connecting, kernel, HeldStand
<1>2. CASE \/ \E r \in Rules : Answer(r)
           \/ Tick
           \/ NewNetwork
           \/ NewLists
           \/ Expire
           \/ RemoveAll
  BY <1>2 DEF Answer, Tick, NewNetwork, NewLists, Expire, RemoveAll, connecting,
              kernel, HeldStand
<1>3. ASSUME NEW l \in Links, LinkStep(l)
      PROVE  HeldStand'
  <2>1. CASE Check(l) \/ Stand(l)
    BY <2>1 DEF Check, Stand, connecting, kernel, HeldStand
  <2>2. CASE Connect(l) \/ LetOut(l) \/ ConnectFails(l)
    BY <2>2 DEF Connect, ConnectAs, LetOut, ConnectFails, kernel, HeldStand
  <2>3. CASE Raised(l)
    <3>1. /\ tunnel' = [tunnel EXCEPT ![l] = generation[l]]
          /\ ifaces' = ifaces \cup {generation[l]}
      BY <2>3 DEF Raised
    <3> QED
      BY <3>1 DEF HeldStand, Inv, TypeOK
  <2>4. CASE OldDown(l)
    BY <2>4 DEF OldDown, LinksTell
  <2>5. CASE Exit(l)
    BY <2>5 DEF Exit
  <2>6. CASE Down(l)
    <3>1. /\ tunnel[l] # NoIface
          /\ tunnel' = [tunnel EXCEPT ![l] = NoIface]
          /\ ifaces' = ifaces \ {tunnel[l]}
      BY <2>6 DEF Down
    <3>2. \A k \in Links : k # l /\ tunnel[k] # NoIface => tunnel[k] # tunnel[l]
      BY <3>1 DEF LinksTell, Distinct, NoIface
    <3> QED
      BY <3>1, <3>2 DEF HeldStand, Inv, TypeOK
  <2> QED
    BY <1>3, <2>1, <2>2, <2>3, <2>4, <2>5, <2>6 DEF LinkStep
<1> QED
  BY <1>1, <1>2, <1>3 DEF Next

(* A target is an interface that stands, and its mark tells which.         *)
TargetsStand ==
    \A r \in Rules : Targets[r] # NoTarget =>
        /\ Targets[r].iface \in ifaces
        /\ Placed(Targets[r])[2] = Targets[r].iface

LEMMA TargetsOfHeld == Inv /\ LinksTell /\ HeldStand => TargetsStand
<1> SUFFICES ASSUME Inv, LinksTell, HeldStand, NEW r \in Rules, Targets[r] # NoTarget
             PROVE  /\ Targets[r].iface \in ifaces
                    /\ Placed(Targets[r])[2] = Targets[r].iface
  BY DEF TargetsStand
<1>1. /\ current[r] \in Links
      /\ Targets[r].iface = links[current[r]].iface
      /\ Targets[r].iface # NoIface
  BY TargetsTyped DEF TargetsSound, Decides, Inv, TypeOK
<1>2. Targets[r].iface \in ifaces
  BY <1>1 DEF LinksTell, HeldStand
<1> QED
  BY <1>2, TargetNumber

LEMMA TargetsOfHeldNext == Inv' /\ LinksTell' /\ HeldStand' => TargetsStand'
<1>1. (Inv /\ LinksTell /\ HeldStand => TargetsStand)'
  BY TargetsOfHeld, PTL
<1> QED
  BY <1>1

(* A reconcile puts each subnet where it should be. *)
LEMMA ReconcileSubnets ==
    ASSUME Quiet, Inv, SubnetInv, Reconcile, stopped' = stopped,
           Decides', TargetsStand', TargetsStand, NEW s \in Subnets
    PROVE  IF stopped' THEN subnets'[s] = None /\ route'[s] = NoIface ELSE InPlace(s)'
<1>1. CASE stopped
  <2>1. subnets' = subnets /\ route' = Lasting
    BY <1>1 DEF Reconcile, placing
  <2>2. subnets[s] = None /\ route[s] = NoIface
    BY <1>1 DEF SubnetInv, SubnetsPlaced
  <2> QED
    BY <1>1, <2>1, <2>2 DEF Lasting, Dsts
<1>2. CASE ~stopped
  <2>1. PICK failed \in SUBSET Calls : \E lost \in SUBSET failed :
           /\ MayFail(failed, lost, PutsOnGone)
           /\ hosts' = [a \in Addrs |-> NewHost(a, failed)]
           /\ subnets' = [t \in Subnets |-> NewSubnet(t, failed)]
           /\ route' = [d \in Dsts |->
                 LET was == IF d \in Addrs THEN HostRoute(d, failed, lost) ELSE Lasting[d]
                 IN  IF d \in Subnets THEN SubnetRoute(d, was, failed, lost) ELSE was]
    BY <1>2 DEF Reconcile
  <2>2. failed = PutsOnGone
    BY <2>1 DEF MayFail, Quiet, Clean
  <2>3. s \notin Addrs /\ s \in Dsts
    BY DEF Quiet, Clean, Dsts
  <2>4. /\ subnets'[s] = NewSubnet(s, failed)
        /\ route'[s] = SubnetRoute(s, Lasting[s], failed, {})
    BY <2>1, <2>3 DEF MayFail, Quiet, Clean
  <2>5. WantFitting' /\ WantSound'
    BY WantFitsNext, WantTypedNext
  <2>6. Fits(s, Want(s))'
    BY <2>5 DEF WantFitting
  <2>7. Want(s)' # None => WantIface(s)' \in ifaces'
                           /\ Want(s)'.placed[2] = WantIface(s)'
                           /\ WantIface(s)' = Targets'[Want(s)'.rule].iface
    BY <2>5 DEF WantSound, TargetsStand, WantIface, Placed
  <2>8. SubnetCall(s) \notin failed
    BY <2>2, <2>7 DEF PutsOnGone, HostCall, SubnetCall
  <2>9. subnets'[s] = Want(s)'
    BY <2>4, <2>8 DEF NewSubnet
  <2>10. Fits(s, subnets[s]) /\ route[s] = RouteOf(subnets[s])
    BY <1>2 DEF SubnetInv, SubnetsPlaced, InPlace
  <2>11. CASE Want(s)' = None
    <3>1. subnets[s] = None => Lasting[s] = NoIface
      BY <2>3, <2>10 DEF RouteOf, Lasting
    <3>2. route'[s] = NoIface
      BY <2>4, <2>8, <2>11, <3>1 DEF SubnetRoute, Delete
    <3> QED
      BY <1>2, <2>6, <2>9, <2>11, <3>2 DEF InPlace, RouteOf
  <2>12. CASE Want(s)' # None /\ subnets[s] = Want(s)'
    <3>1. subnets[s] # None /\ Routable(s) /\ subnets[s] = Its(s)
      BY <2>10, <2>12 DEF Fits
    <3>2. Min(Claims(s)) \in Rules
      BY <3>1, ClaimsLeast DEF Routable, Decides, Inv, TypeOK
    <3>3. subnets[s].placed[2] = Targets[Min(Claims(s))].iface
      BY <3>1, <3>2 DEF TargetsStand, Routable, Its
    <3>4. route[s] = Targets[Min(Claims(s))].iface
      BY <2>10, <3>1 DEF RouteOf, Its
    <3>5. route'[s] = Lasting[s]
      BY <2>4, <2>12 DEF SubnetRoute
    <3>6. route'[s] = WantIface(s)'
      BY <2>3, <2>7, <2>12, <3>3, <3>4, <3>5 DEF Lasting
    <3> QED
      BY <1>2, <2>6, <2>7, <2>9, <2>12, <3>6 DEF InPlace, RouteOf
  <2>13. CASE Want(s)' # None /\ subnets[s] # Want(s)'
    <3>1. route'[s] = WantIface(s)'
      BY <2>4, <2>8, <2>13 DEF SubnetRoute, Put
    <3> QED
      BY <1>2, <2>6, <2>7, <2>9, <2>13, <3>1 DEF InPlace, RouteOf
  <2> QED
    BY <2>11, <2>12, <2>13
<1> QED
  BY <1>1, <1>2

(* A step that leaves what a subnet's place depends on, but for the fake   *)
(* range.                                                                  *)
LeftAsIs(s) ==
    /\ UNCHANGED <<active, lists, current, subnets, stopped>>
    /\ route'[s] = route[s]
    /\ \A l \in Links :
          /\ links'[l].iface = links[l].iface
          /\ links'[l].generation = links[l].generation
          /\ links'[l].health = links[l].health
          /\ links'[l].endpoint = links[l].endpoint

LEMMA LeftInPlace ==
    ASSUME Inv, SubnetInv, NEW s \in Subnets, LeftAsIs(s)
    PROVE  IF stopped' THEN subnets'[s] = None /\ route'[s] = NoIface ELSE InPlace(s)'
<1>1. Targets' = Targets
  BY SameTargets DEF LeftAsIs, Inv, TypeOK
<1>2. Claims(s)' = Claims(s)
  BY DEF LeftAsIs, Claims
<1>3. Endpoints' = Endpoints
  BY DEF LeftAsIs, Endpoints
<1>4. HoldsServer(s)' = HoldsServer(s)
  BY <1>3 DEF HoldsServer
<1>5. Its(s)' = Its(s)
  BY <1>1, <1>2 DEF Its, Placed
<1>6. Routable(s)' = Routable(s)
  BY <1>1, <1>2, <1>4 DEF Routable
<1>7. Carried(s)' => Carried(s)
  <2> SUFFICES ASSUME Carried(s)' PROVE Carried(s)
    OBVIOUS
  <2> DEFINE m == Min(Claims(s))
  <2>1. Claims(s) # {} /\ ~HoldsServer(s)
    BY <1>2, <1>4 DEF Carried
  <2>2. m \in Rules
    BY <2>1, ClaimsLeast DEF Decides, Inv, TypeOK
  <2>3. ~(Targets'[m] = NoTarget \/ links'[current'[m]].health = "down")
    BY <1>2 DEF Carried, TunnelReason
  <2>4. Targets[m] # NoTarget /\ current'[m] = current[m]
    BY <1>1, <2>3 DEF LeftAsIs
  <2>5. current[m] \in Links
    BY <2>2, <2>4, TargetsTyped DEF TargetsSound, Decides, Inv, TypeOK
  <2>6. links[current[m]].health # "down"
    BY <2>3, <2>4, <2>5 DEF LeftAsIs
  <2> QED
    BY <2>1, <2>4, <2>6 DEF Carried, TunnelReason
<1>8. CASE stopped
  BY <1>8 DEF LeftAsIs, SubnetInv, SubnetsPlaced
<1>9. CASE ~stopped
  <2>1. Fits(s, subnets[s]) /\ route[s] = RouteOf(subnets[s])
    BY <1>9 DEF SubnetInv, SubnetsPlaced, InPlace
  <2>2. Fits(s, subnets[s])'
    BY <1>5, <1>6, <1>7, <2>1 DEF Fits, LeftAsIs
  <2>3. route'[s] = RouteOf(subnets[s])'
    BY <1>1, <2>1 DEF RouteOf, LeftAsIs
  <2> QED
    BY <1>9, <2>2, <2>3 DEF InPlace, LeftAsIs
<1> QED
  BY <1>8, <1>9

LEMMA SubnetSteps ==
    ASSUME Quiet, Inv, Inv', SubnetInv, LinksTell', HeldStand', [Next]_vars,
           NEW s \in Subnets
    PROVE  IF stopped' THEN subnets'[s] = None /\ route'[s] = NoIface ELSE InPlace(s)'
<1>1. TargetsStand /\ TargetsStand' /\ Decides'
  BY TargetsOfHeld, TargetsOfHeldNext DEF SubnetInv, Inv, TypeOK, Decides
<1>2. s \notin Addrs /\ s \in Dsts
  BY DEF Quiet, Clean, Dsts
<1>3. CASE UNCHANGED vars
  BY <1>3, LeftInPlace DEF vars, rules, placing, kernel, LeftAsIs
<1>4. ASSUME NEW r \in Rules, Answer(r)
      PROVE  LeftAsIs(s)
  <2>1. PICK done \in SUBSET Addrs, lost \in SUBSET Addrs :
           /\ Targets[r].iface \notin ifaces => done = {}
           /\ hosts' = [a \in Addrs |->
                  IF a \in done THEN [rule |-> r, placed |-> Placed(Targets[r])]
                  ELSE hosts[a]]
           /\ route' = [d \in Dsts |->
                  IF d \in done THEN Targets[r].iface
                  ELSE IF d \in lost THEN NoIface ELSE route[d]]
           /\ lost # {} => RouteMayFail
    BY <1>4, AnswerRoutes
  <2>2. route'[s] = route[s]
    BY <1>2, <2>1
  <2> QED
    BY <1>4, <2>2 DEF Answer, rules, LeftAsIs
<1>5. NewNetwork => LeftAsIs(s)
  BY DEF NewNetwork, placing, kernel, LeftAsIs
<1>6. ASSUME Expire
      PROVE  LeftAsIs(s)
  <2>1. PICK gone \in SUBSET Addrs, failed \in SUBSET Calls :
           route' = Unrouted(gone, failed)
    BY <1>6 DEF Expire
  <2>2. route'[s] = route[s]
    BY <1>2, <2>1 DEF Unrouted
  <2> QED
    BY <1>6, <2>2 DEF Expire, rules, LeftAsIs
<1>7. CASE Tick \/ NewLists
  BY <1>1, <1>7, ReconcileSubnets DEF Tick, NewLists
<1>8. CASE RemoveAll
  <2>1. PICK failed \in SUBSET Calls :
           /\ MayFail(failed, {}, {})
           /\ route' = [d \in Dsts |->
                 IF d \in Subnets /\ subnets[d] # None
                 THEN Delete(SubnetCall(d), Unrouted(Addrs, failed)[d], failed)
                 ELSE Unrouted(Addrs, failed)[d]]
    BY <1>8 DEF RemoveAll
  <2>2. failed = {}
    BY <2>1 DEF MayFail, Quiet, Clean
  <2>3. Unrouted(Addrs, failed)[s] = route[s]
    BY <1>2 DEF Unrouted
  <2>4. subnets[s] = None => route[s] = NoIface
    BY <1>8 DEF RemoveAll, SubnetInv, SubnetsPlaced, InPlace, RouteOf
  <2>5. route'[s] = NoIface
    BY <1>2, <2>1, <2>2, <2>3, <2>4 DEF Delete
  <2> QED
    BY <1>8, <2>5 DEF RemoveAll
<1>9. ASSUME NEW l \in Links, LinkStep(l)
      PROVE  LeftAsIs(s) \/ (Reconcile /\ stopped' = stopped)
  <2>1. CASE Check(l) \/ LetOut(l) \/ ConnectFails(l) \/ Raised(l) \/ Down(l)
    BY <2>1 DEF Check, LetOut, ConnectFails, Raised, Down, Publish
  <2>2. CASE Connect(l)
    BY <2>2 DEF Connect, ConnectAs, rules, placing, kernel, LeftAsIs
  <2>3. CASE Stand(l)
    <3>1. links' = [links EXCEPT ![l].stood = TRUE]
      BY <2>3 DEF Stand
    <3>2. \A k \in Links :
            /\ links'[k].iface = links[k].iface
            /\ links'[k].generation = links[k].generation
            /\ links'[k].health = links[k].health
            /\ links'[k].endpoint = links[k].endpoint
      BY <3>1 DEF Inv, TypeOK, LinkStates
    <3> QED
      BY <2>3, <3>2 DEF Stand, rules, placing, kernel, LeftAsIs
  <2>4. CASE OldDown(l)
    BY <2>4 DEF OldDown, LinksTell, SubnetInv
  <2>5. CASE Exit(l)
    BY <2>5 DEF Exit, Quiet
  <2> QED
    BY <1>9, <2>1, <2>2, <2>3, <2>4, <2>5 DEF LinkStep
<1> QED
  BY <1>1, <1>3, <1>4, <1>5, <1>6, <1>7, <1>8, <1>9, LeftInPlace, ReconcileSubnets
     DEF Next

LEMMA SubnetInvInit == Init => SubnetInv
<1> SUFFICES ASSUME Init PROVE SubnetInv
  OBVIOUS
<1>1. LinksTell /\ Distinct /\ HeldStand
  BY DEF Init, LinksTell, Distinct, HeldStand, NoIface
<1>2. \A r \in Rules : Targets[r] = NoTarget
  BY DEF Init, Targets
<1>3. ASSUME NEW s \in Subnets
      PROVE  InPlace(s)
  <2>1. subnets[s] = None /\ route[s] = NoIface
    BY DEF Init, Dsts
  <2>2. ~Carried(s)
    BY <1>2, ClaimsLeast, InvInit DEF Carried, TunnelReason, Inv, TypeOK, Decides
  <2> QED
    BY <2>1, <2>2 DEF InPlace, Fits, RouteOf
<1> QED
  BY <1>1, <1>3 DEF Init, SubnetInv, SubnetsPlaced

LEMMA SubnetInvStep == Quiet /\ Inv /\ Inv' /\ SubnetInv /\ [Next]_vars => SubnetInv'
<1> SUFFICES ASSUME Quiet, Inv, Inv', SubnetInv, [Next]_vars PROVE SubnetInv'
  OBVIOUS
<1>1. LinksTell' /\ Distinct'
  BY QuietIsCalm, LinksTellStep DEF SubnetInv
<1>2. HeldStand'
  BY HeldStandStep DEF SubnetInv
<1>3. SubnetsPlaced'
  BY <1>1, <1>2, SubnetSteps DEF SubnetsPlaced
<1> QED
  BY <1>1, <1>2, <1>3 DEF SubnetInv

LEMMA SubnetsHold ==
    ASSUME Quiet
    PROVE  Spec => []SubnetInv
<1>1. Init => SubnetInv
  BY SubnetInvInit
<1>2. Inv /\ Inv' /\ SubnetInv /\ [Next]_vars => SubnetInv'
  BY SubnetInvStep
<1> QED
  BY <1>1, <1>2, InvHolds, PTL DEF Spec

(* As long as each link tells of its interface before that goes, a subnet  *)
(* the resolver has placed is routed to the tunnel of the first rule in    *)
(* force that has it, and one whose tunnel carries is placed, whatever     *)
(* lists, rules, links and networks do (place_subnets).                    *)
THEOREM SubnetsAlwaysInLine ==
    ASSUME Quiet
    PROVE  Spec => []SubnetsInLine
<1>1. SubnetInv => SubnetsInLine
  <2> SUFFICES ASSUME SubnetInv, NEW s \in Subnets, ~stopped
               PROVE  LET r == Min(Claims(s))
                      IN  /\ subnets[s] # None =>
                              /\ Claims(s) # {}
                              /\ subnets[s] = [rule |-> r, placed |-> Placed(Targets[r])]
                              /\ route[s] = Targets[r].iface
                          /\ Claims(s) # {} /\ ~HoldsServer(s) /\ ~TunnelReason(r)
                                => subnets[s] # None
    BY DEF SubnetsInLine
  <2>1. Fits(s, subnets[s]) /\ route[s] = RouteOf(subnets[s])
    BY DEF SubnetInv, SubnetsPlaced, InPlace
  <2>2. CASE subnets[s] = None
    BY <2>1, <2>2 DEF Fits, Carried
  <2>3. CASE subnets[s] # None
    <3>1. Routable(s) /\ subnets[s] = Its(s)
      BY <2>1, <2>3 DEF Fits
    <3>2. route[s] = Targets[Min(Claims(s))].iface
      BY <2>1, <3>1, <2>3 DEF RouteOf, Its
    <3> QED
      BY <2>3, <3>1, <3>2 DEF Routable, Its
  <2> QED
    BY <2>2, <2>3
<1> QED
  BY <1>1, SubnetsHold, PTL

-----------------------------------------------------------------------------
(* Hosts: servers are reached directly, and a host leads into a tunnel of  *)
(* its own rule.                                                           *)

(* A link tells of the interface it holds, and has an old one only while   *)
(* it hands over.                                                          *)
LinksHold ==
    \A l \in Links :
        /\ links[l].iface = tunnel[l]
        /\ old[l] # NoIface => stage[l] = "handing"

(* An address that is routed is a known host, of a tunnel of its rule; no  *)
(* host is a server.                                                       *)
Owned(a) == \E l \in Range(Order[hosts[a].rule]) : route[a] \in {tunnel[l], old[l]}
HostsRouted ==
    \A a \in Addrs :
        /\ route[a] # NoIface =>
              /\ ~stopped
              /\ Known(a)
              /\ Marked(a)
              /\ Owned(a)
        /\ Known(a) /\ ~stopped => a \notin Endpoints

OwnInv == LinksHold /\ HostsRouted

LEMMA LinksHoldStep ==
    ASSUME Inv, LinksHold, [Next]_vars
    PROVE  LinksHold'
<1>1. CASE UNCHANGED vars
  BY <1>1 DEF vars, connecting, LinksHold
<1>2. CASE \/ \E r \in Rules : Answer(r)
           \/ Tick
           \/ NewNetwork
           \/ NewLists
           \/ Expire
           \/ RemoveAll
  BY <1>2 DEF Answer, Tick, NewNetwork, NewLists, Expire, RemoveAll, connecting,
              LinksHold
<1>3. ASSUME NEW l \in Links, LinkStep(l)
      PROVE  LinksHold'
  <2> USE DEF Inv, TypeOK
  <2>1. ASSUME NEW health, NEW works, NEW stood, NEW endpoint,
               Publish(l, health, works, stood, endpoint)
        PROVE  /\ links'[l].iface = tunnel'[l]
               /\ \A k \in Links \ {l} : links'[k] = links[k]
    BY <2>1 DEF Publish
  <2>2. CASE Check(l)
    <3>1. tunnel' = tunnel /\ old' = old /\ stage' = stage
      BY <2>2 DEF Check, connecting
    <3>2. /\ links'[l].iface = tunnel'[l]
          /\ \A k \in Links \ {l} : links'[k] = links[k]
      BY <2>1, <2>2 DEF Check
    <3> QED
      BY <3>1, <3>2 DEF LinksHold
  <2>3. CASE Stand(l)
    <3>1. tunnel' = tunnel /\ old' = old /\ stage' = stage
      BY <2>3 DEF Stand, connecting
    <3>2. \A k \in Links : links'[k].iface = links[k].iface
      BY <2>3 DEF Stand, LinkStates
    <3> QED
      BY <3>1, <3>2 DEF LinksHold
  <2>4. CASE Connect(l)
    <3>1. /\ links' = links /\ tunnel' = tunnel /\ old' = old
          /\ stage[l] = "idle"
          /\ stage' = [stage EXCEPT ![l] = "resolving"]
      BY <2>4 DEF Connect, ConnectAs
    <3> QED
      BY <3>1 DEF LinksHold
  <2>5. CASE LetOut(l)
    <3>1. /\ tunnel' = tunnel /\ old' = old
          /\ stage[l] = "resolving"
          /\ stage' = [stage EXCEPT ![l] = "raising"]
      BY <2>5 DEF LetOut
    <3>2. /\ links'[l].iface = tunnel'[l]
          /\ \A k \in Links \ {l} : links'[k] = links[k]
      BY <2>1, <2>5 DEF LetOut
    <3> QED
      BY <3>1, <3>2 DEF LinksHold
  <2>6. CASE ConnectFails(l)
    <3>1. /\ tunnel' = tunnel /\ old' = old
          /\ stage[l] \in {"resolving", "raising"}
          /\ stage' = [stage EXCEPT ![l] = "idle"]
      BY <2>6 DEF ConnectFails
    <3>2. /\ links'[l].iface = tunnel'[l]
          /\ \A k \in Links \ {l} : links'[k] = links[k]
      BY <2>1, <2>6 DEF ConnectFails
    <3> QED
      BY <3>1, <3>2 DEF LinksHold
  <2>7. CASE Raised(l)
    <3>1. /\ tunnel' = [tunnel EXCEPT ![l] = generation[l]]
          /\ old' = [old EXCEPT ![l] = tunnel[l]]
          /\ stage' = [stage EXCEPT ![l] = IF tunnel[l] = NoIface THEN "idle" ELSE "handing"]
      BY <2>7 DEF Raised
    <3>2. /\ links'[l].iface = tunnel'[l]
          /\ \A k \in Links \ {l} : links'[k] = links[k]
      BY <2>1, <2>7 DEF Raised
    <3> QED
      BY <3>1, <3>2 DEF LinksHold
  <2>8. CASE OldDown(l)
    <3>1. /\ links' = links /\ tunnel' = tunnel
          /\ old' = [old EXCEPT ![l] = NoIface]
          /\ stage' = [stage EXCEPT ![l] = "idle"]
      BY <2>8 DEF OldDown
    <3> QED
      BY <3>1 DEF LinksHold
  <2>9. CASE Exit(l)
    BY <2>9 DEF Exit, connecting, LinksHold
  <2>10. CASE Down(l)
    <3>1. /\ tunnel' = [tunnel EXCEPT ![l] = NoIface]
          /\ old' = old /\ stage' = stage
      BY <2>10 DEF Down
    <3>2. /\ links'[l].iface = tunnel'[l]
          /\ \A k \in Links \ {l} : links'[k] = links[k]
      BY <2>1, <2>10 DEF Down
    <3> QED
      BY <3>1, <3>2 DEF LinksHold
  <2> QED
    BY <1>3, <2>2, <2>3, <2>4, <2>5, <2>6, <2>7, <2>8, <2>9, <2>10 DEF LinkStep
<1> QED
  BY <1>1, <1>2, <1>3 DEF Next

(* An interface that stands stays with the link that held it. *)
LEMMA HolderKept ==
    ASSUME Inv, LinksHold, [Next]_vars, NEW l \in Links, NEW g \in ifaces',
           g # NoIface, g \in {tunnel[l], old[l]}
    PROVE  g \in {tunnel'[l], old'[l]}
<1>1. CASE UNCHANGED vars
  BY <1>1 DEF vars, connecting
<1>2. CASE \/ \E r \in Rules : Answer(r)
           \/ Tick
           \/ NewNetwork
           \/ NewLists
           \/ Expire
           \/ RemoveAll
  BY <1>2 DEF Answer, Tick, NewNetwork, NewLists, Expire, RemoveAll, connecting
<1>3. ASSUME NEW k \in Links, LinkStep(k)
      PROVE  g \in {tunnel'[l], old'[l]}
  <2> USE DEF Inv, TypeOK
  <2>1. CASE Check(k) \/ Stand(k) \/ Exit(k)
    BY <2>1 DEF Check, Stand, Exit, connecting
  <2>2. CASE Connect(k) \/ LetOut(k) \/ ConnectFails(k)
    BY <2>2 DEF Connect, ConnectAs, LetOut, ConnectFails
  <2>3. CASE Raised(k)
    <3>1. /\ tunnel' = [tunnel EXCEPT ![k] = generation[k]]
          /\ old' = [old EXCEPT ![k] = tunnel[k]]
          /\ old[k] = NoIface
      BY <2>3 DEF Raised, LinksHold
    <3> QED
      BY <3>1
  <2>4. CASE OldDown(k)
    <3>1. /\ tunnel' = tunnel
          /\ old' = [old EXCEPT ![k] = NoIface]
          /\ g # old[k]
      BY <2>4 DEF OldDown
    <3> QED
      BY <3>1
  <2>5. CASE Down(k)
    <3>1. /\ old' = old
          /\ tunnel' = [tunnel EXCEPT ![k] = NoIface]
          /\ g # tunnel[k]
      BY <2>5 DEF Down
    <3> QED
      BY <3>1
  <2> QED
    BY <1>3, <2>1, <2>2, <2>3, <2>4, <2>5 DEF LinkStep
<1> QED
  BY <1>1, <1>2, <1>3 DEF Next

(* What a step may do to one host: take it off, place it, or leave it.     *)
HostNow(a) ==
    \/ route'[a] = NoIface /\ (stopped' \/ hosts'[a] = None)
    \/ \E r \in Rules : PlacedNow(a, r, Targets'[r]) /\ a \notin Endpoints' /\ ~stopped'
    \/ Stays(a) /\ stopped' = stopped /\ (Known(a) /\ ~stopped' => a \notin Endpoints')

LEMMA ReconcileHostNow ==
    ASSUME Clean, Inv, OwnInv, Reconcile, stopped' = stopped, NEW a \in Addrs
    PROVE  HostNow(a)
<1>1. CASE stopped
  BY <1>1 DEF Reconcile, placing, HostNow, Stays
<1>2. CASE ~stopped
  <2>1. PICK failed \in SUBSET Calls : \E lost \in SUBSET failed :
           /\ MayFail(failed, lost, PutsOnGone)
           /\ hosts' = [b \in Addrs |-> NewHost(b, failed)]
           /\ subnets' = [s \in Subnets |-> NewSubnet(s, failed)]
           /\ route' = [d \in Dsts |->
                 LET was == IF d \in Addrs THEN HostRoute(d, failed, lost) ELSE Lasting[d]
                 IN  IF d \in Subnets THEN SubnetRoute(d, was, failed, lost) ELSE was]
    BY <1>2 DEF Reconcile
  <2>2. failed = PutsOnGone
    BY <2>1 DEF MayFail, Clean
  <2>3. /\ hosts'[a] = NewHost(a, failed)
        /\ route'[a] = HostRoute(a, failed, {})
    BY <2>1 DEF MayFail, Clean, Dsts
  <2>4. HostCall(a) \in failed <=> (Moved(a) /\ Targets'[hosts[a].rule].iface \notin ifaces')
    BY <2>2 DEF PutsOnGone, HostCall, SubnetCall
  <2>5. hosts[a] \in Held
    BY DEF Inv, TypeOK
  <2>6. CASE Dropped(a)
    <3>1. hosts'[a] = None
      BY <2>3, <2>6 DEF NewHost
    <3>2. HostCall(a) \notin failed
      BY <2>4, <2>6 DEF Moved
    <3>3. hosts[a].placed = Nowhere => route[a] = NoIface
      BY DEF OwnInv, HostsRouted, Marked
    <3>4. route'[a] = NoIface
      BY <2>3, <2>6, <3>2, <3>3 DEF HostRoute, Delete, Lasting, Dsts, Moved
    <3> QED
      BY <3>1, <3>4 DEF HostNow
  <2>7. CASE ~Dropped(a) /\ Moved(a) /\ HostCall(a) \notin failed
    <3>1. hosts'[a] = [hosts[a] EXCEPT !.placed = Placed(Targets'[hosts[a].rule])]
      BY <2>3, <2>7 DEF NewHost
    <3>2. route'[a] = Targets'[hosts[a].rule].iface
      BY <2>3, <2>7 DEF HostRoute, Put
    <3>3. PlacedNow(a, hosts[a].rule, Targets'[hosts[a].rule])
      BY <2>4, <2>5, <2>7, <3>1, <3>2 DEF PlacedNow, Moved, Held
    <3>4. hosts[a].rule \in Rules /\ a \notin Endpoints'
      BY <2>5, <2>7 DEF Moved, Known, Dropped, Held
    <3> QED
      BY <1>2, <3>3, <3>4 DEF HostNow
  <2>8. CASE ~Dropped(a) /\ ~(Moved(a) /\ HostCall(a) \notin failed)
    <3>1. hosts'[a] = hosts[a]
      BY <2>3, <2>8 DEF NewHost
    <3>2. route'[a] = Lasting[a]
      BY <2>3, <2>8 DEF HostRoute, Put
    <3>3. Known(a) => a \notin Endpoints'
      BY <2>8 DEF Dropped
    <3> QED
      BY <3>1, <3>2, <3>3 DEF HostNow, Stays
  <2> QED
    BY <2>6, <2>7, <2>8
<1> QED
  BY <1>1, <1>2

(* A step that leaves a host, and the servers, as they are. *)
HostLeft(a) ==
    /\ hosts'[a] = hosts[a]
    /\ route'[a] = Lasting[a]
    /\ stopped' = stopped
    /\ \A l \in Links : links'[l].endpoint = links[l].endpoint

LEMMA HostsNow ==
    ASSUME Clean, Inv, OwnInv, [Next]_vars, NEW a \in Addrs
    PROVE  HostNow(a)
<1>0. ASSUME HostLeft(a)
      PROVE  HostNow(a)
  <2>1. Endpoints' = Endpoints
    BY <1>0 DEF HostLeft, Endpoints
  <2> QED
    BY <1>0, <2>1 DEF HostLeft, HostNow, Stays, OwnInv, HostsRouted
<1>1. UNCHANGED vars => HostLeft(a)
  BY SameIfaces DEF vars, placing, kernel, HostLeft
<1>2. ASSUME NEW r \in Rules, Answer(r)
      PROVE  HostNow(a)
  <2>1. Targets' = Targets /\ ifaces' = ifaces /\ links' = links
        /\ stopped' = stopped /\ ~stopped
    BY <1>2, SameTargets DEF Answer
  <2>2. PICK as \in SUBSET (Addrs \ Endpoints) :
        LET rest == {b \in as : ~Kept(b, r)}
            gone == Targets[r].iface \notin ifaces
        IN  \E done \in SUBSET rest, lost \in SUBSET Addrs :
            /\ gone => done = {}
            /\ done # rest => gone \/ RouteMayFail
            /\ \/ lost = {}
               \/ RouteMayFail /\ \E b \in rest \ done : lost = {b}
            /\ hosts' = [b \in Addrs |->
                  IF b \in done THEN [rule |-> r, placed |-> Placed(Targets[r])]
                  ELSE hosts[b]]
            /\ route' = [d \in Dsts |->
                  IF d \in done THEN Targets[r].iface
                  ELSE IF d \in lost THEN NoIface ELSE route[d]]
    BY <1>2 DEF Answer
  <2>3. PICK done \in SUBSET (Addrs \ Endpoints) :
            /\ Targets[r].iface \notin ifaces => done = {}
            /\ hosts' = [b \in Addrs |->
                  IF b \in done THEN [rule |-> r, placed |-> Placed(Targets[r])]
                  ELSE hosts[b]]
            /\ route' = [d \in Dsts |->
                  IF d \in done THEN Targets[r].iface ELSE route[d]]
    <3> DEFINE rest == {b \in as : ~Kept(b, r)}
    <3>1. rest \in SUBSET (Addrs \ Endpoints)
      OBVIOUS
    <3>2. PICK done \in SUBSET rest, lost \in SUBSET Addrs :
            /\ Targets[r].iface \notin ifaces => done = {}
            /\ \/ lost = {}
               \/ RouteMayFail /\ \E b \in rest \ done : lost = {b}
            /\ hosts' = [b \in Addrs |->
                  IF b \in done THEN [rule |-> r, placed |-> Placed(Targets[r])]
                  ELSE hosts[b]]
            /\ route' = [d \in Dsts |->
                  IF d \in done THEN Targets[r].iface
                  ELSE IF d \in lost THEN NoIface ELSE route[d]]
      BY <2>2
    <3> HIDE DEF rest
    <3>3. lost = {}
      BY <3>2 DEF Clean
    <3>4. done \in SUBSET (Addrs \ Endpoints)
      BY <3>1, <3>2
    <3> QED
      BY <3>2, <3>3, <3>4
  <2>4. CASE a \in done
    <3>1. /\ Targets[r].iface \in ifaces
          /\ hosts'[a] = [rule |-> r, placed |-> Placed(Targets[r])]
          /\ route'[a] = Targets[r].iface
      BY <2>3, <2>4 DEF Dsts
    <3>2. Targets[r] # NoTarget
      BY <1>2 DEF Answer
    <3>3. a \notin Endpoints'
      BY <2>1, <2>4 DEF Endpoints
    <3> QED
      BY <2>1, <3>1, <3>2, <3>3 DEF HostNow, PlacedNow
  <2>5. CASE a \notin done
    <3>1. hosts'[a] = hosts[a] /\ route'[a] = route[a]
      BY <2>3, <2>5 DEF Dsts
    <3> QED
      BY <1>0, <2>1, <3>1, SameIfaces DEF HostLeft
  <2> QED
    BY <2>4, <2>5
<1>3. CASE Tick \/ NewLists
  BY <1>3, ReconcileHostNow DEF Tick, NewLists
<1>4. NewNetwork => HostLeft(a)
  BY SameIfaces DEF NewNetwork, placing, kernel, HostLeft
<1>5. ASSUME NEW as \in SUBSET Addrs
      PROVE  a \in as => Unrouted(as, {})[a] = NoIface
  <2>1. hosts[a].placed = Nowhere => route[a] = NoIface
    BY DEF OwnInv, HostsRouted, Marked
  <2> QED
    BY <2>1 DEF Unrouted, Delete, Dsts
<1>6. CASE Expire
  <2>1. PICK gone \in SUBSET Addrs, failed \in SUBSET Calls :
           /\ MayFail(failed, {}, {})
           /\ hosts' = [b \in Addrs |-> IF b \in gone THEN None ELSE hosts[b]]
           /\ route' = Unrouted(gone, failed)
    BY <1>6 DEF Expire
  <2>2. failed = {}
    BY <2>1 DEF MayFail, Clean
  <2>3. links' = links /\ ifaces' = ifaces /\ stopped' = stopped
    BY <1>6 DEF Expire
  <2>4. CASE a \in gone
    BY <1>5, <2>1, <2>2, <2>4 DEF HostNow
  <2>5. CASE a \notin gone
    <3>1. hosts'[a] = hosts[a] /\ route'[a] = route[a]
      BY <2>1, <2>5 DEF Unrouted, Dsts
    <3> QED
      BY <1>0, <2>3, <3>1, SameIfaces DEF HostLeft
  <2> QED
    BY <2>4, <2>5
<1>7. CASE RemoveAll
  <2>1. PICK failed \in SUBSET Calls :
           /\ MayFail(failed, {}, {})
           /\ route' = [d \in Dsts |->
                 IF d \in Subnets /\ subnets[d] # None
                 THEN Delete(SubnetCall(d), Unrouted(Addrs, failed)[d], failed)
                 ELSE Unrouted(Addrs, failed)[d]]
    BY <1>7 DEF RemoveAll
  <2>2. failed = {}
    BY <2>1 DEF MayFail, Clean
  <2>3. a \notin Subnets /\ a \in Dsts
    BY DEF Clean, Dsts
  <2>4. route'[a] = NoIface
    BY <1>5, <2>1, <2>2, <2>3
  <2> QED
    BY <1>7, <2>4 DEF RemoveAll, HostNow
<1>8. ASSUME NEW l \in Links, LinkStep(l)
      PROVE  HostLeft(a) \/ (Reconcile /\ stopped' = stopped)
  <2>1. CASE Check(l) \/ LetOut(l) \/ ConnectFails(l) \/ Raised(l) \/ Down(l)
    BY <2>1 DEF Check, LetOut, ConnectFails, Raised, Down, Publish
  <2>2. CASE Connect(l)
    BY <2>2, SameIfaces DEF Connect, ConnectAs, placing, kernel, HostLeft
  <2>3. CASE Stand(l)
    <3>1. links' = [links EXCEPT ![l].stood = TRUE]
      BY <2>3 DEF Stand
    <3>2. \A k \in Links : links'[k].endpoint = links[k].endpoint
      BY <3>1 DEF Inv, TypeOK, LinkStates
    <3> QED
      BY <2>3, <3>2, SameIfaces DEF Stand, placing, kernel, HostLeft
  <2>4. CASE OldDown(l)
    BY <2>4 DEF OldDown, placing, HostLeft, Dsts
  <2>5. CASE Exit(l)
    BY <2>5 DEF Exit, placing, HostLeft, Dsts
  <2> QED
    BY <1>8, <2>1, <2>2, <2>3, <2>4, <2>5 DEF LinkStep
<1> QED
  BY <1>0, <1>1, <1>2, <1>3, <1>4, <1>6, <1>7, <1>8, ReconcileHostNow DEF Next

LEMMA OwnInvStep == Clean /\ Inv /\ Inv' /\ OwnTunnels' /\ OwnInv /\ [Next]_vars => OwnInv'
<1> SUFFICES ASSUME Clean, Inv, Inv', OwnTunnels', OwnInv, [Next]_vars
             PROVE  OwnInv'
  OBVIOUS
<1>1. LinksHold'
  BY LinksHoldStep DEF OwnInv
<1>2. ASSUME NEW a \in Addrs
      PROVE  /\ route'[a] # NoIface =>
                   /\ ~stopped'
                   /\ Known(a)'
                   /\ Marked(a)'
                   /\ Owned(a)'
             /\ Known(a)' /\ ~stopped' => a \notin Endpoints'
  <2>1. CASE route'[a] = NoIface /\ (stopped' \/ hosts'[a] = None)
    BY <2>1 DEF Known, None
  <2>2. CASE \E r \in Rules : PlacedNow(a, r, Targets'[r]) /\ a \notin Endpoints' /\ ~stopped'
    <3>1. PICK r \in Rules : PlacedNow(a, r, Targets'[r]) /\ a \notin Endpoints' /\ ~stopped'
      BY <2>2
    <3>2. /\ Targets'[r] # NoTarget
          /\ hosts'[a] = [rule |-> r, placed |-> Placed(Targets'[r])]
          /\ route'[a] = Targets'[r].iface
      BY <3>1 DEF PlacedNow
    <3>3. /\ current'[r] \in Links
          /\ Targets'[r].link = current'[r]
          /\ Targets'[r].iface = links'[current'[r]].iface
      BY <3>2, TargetsTypedNext DEF TargetsSound, Decides, Inv, TypeOK
    <3>4. current'[r] \in Range(Order[r])
      BY <3>3, LinksAssumption DEF OwnTunnels
    <3>5. route'[a] = tunnel'[current'[r]]
      BY <1>1, <3>2, <3>3 DEF LinksHold
    <3>6. hosts'[a].rule = r /\ hosts'[a].placed = Placed(Targets'[r])
      BY <3>2
    <3>7. Owned(a)'
      BY <3>4, <3>5, <3>6 DEF Owned
    <3>8. r # NoRule
      BY DEF Rules, NoRule
    <3>9. hosts'[a].placed # Nowhere
      BY <3>3, <3>6, LinksAssumption DEF Placed, Nowhere
    <3> QED
      BY <3>1, <3>6, <3>7, <3>8, <3>9 DEF Known, Marked
  <2>3. CASE Stays(a) /\ stopped' = stopped /\ (Known(a) /\ ~stopped' => a \notin Endpoints')
    <3>1. hosts'[a] = hosts[a] /\ route'[a] = Lasting[a]
      BY <2>3 DEF Stays
    <3>2. Known(a)' = Known(a) /\ Marked(a)' = Marked(a)
      BY <3>1 DEF Known, Marked
    <3>3. ASSUME route'[a] # NoIface
          PROVE  ~stopped' /\ Known(a)' /\ Marked(a)' /\ Owned(a)'
      <4>1. route'[a] = route[a] /\ route[a] \in ifaces'
        BY <3>1, <3>3 DEF Lasting, Dsts
      <4>2. ~stopped /\ Known(a) /\ Marked(a) /\ Owned(a)
        BY <3>3, <4>1 DEF OwnInv, HostsRouted
      <4>3. PICK l \in Range(Order[hosts[a].rule]) : route[a] \in {tunnel[l], old[l]}
        BY <4>2 DEF Owned
      <4>4. hosts[a].rule \in Rules
        BY <4>2 DEF Known, Inv, TypeOK, Held
      <4>5. Order[hosts[a].rule] \in Seq(Links)
        BY <4>4, RulesAssumption
      <4>6. l \in Links
        BY <4>3, <4>5 DEF Range
      <4>7. route[a] \in {tunnel'[l], old'[l]}
        BY <3>3, <4>1, <4>3, <4>6, HolderKept DEF OwnInv
      <4>8. Owned(a)'
        BY <3>1, <4>1, <4>3, <4>7 DEF Owned
      <4> QED
        BY <2>3, <3>2, <4>2, <4>8
    <3> QED
      BY <2>3, <3>2, <3>3
  <2> QED
    BY <2>1, <2>2, <2>3, HostsNow DEF HostNow
<1> QED
  BY <1>1, <1>2 DEF OwnInv, HostsRouted

LEMMA OwnHolds ==
    ASSUME Clean
    PROVE  Spec => []OwnInv
<1>1. Init => OwnInv
  <2> SUFFICES ASSUME Init PROVE OwnInv
    OBVIOUS
  <2>1. LinksHold
    BY DEF Init, LinksHold, NoIface
  <2>2. Endpoints = {}
    BY DEF Init, Endpoints
  <2>3. \A a \in Addrs : route[a] = NoIface
    BY DEF Init, Dsts
  <2> QED
    BY <2>1, <2>2, <2>3 DEF OwnInv, HostsRouted
<1>2. Inv /\ Inv' /\ OwnTunnels' /\ OwnInv /\ [Next]_vars => OwnInv'
  BY OwnInvStep
<1>3. CarryInv => OwnTunnels
  BY DEF CarryInv
<1> QED
  BY <1>1, <1>2, <1>3, InvHolds, CarryHolds, PTL DEF Spec

(* A host is routed only into a tunnel of its own rule, and an address     *)
(* nobody holds is not routed: also while tunnels are replaced and         *)
(* interfaces go unseen.                                                   *)
THEOREM HostsAlwaysOwnTunnels ==
    ASSUME Clean
    PROVE  Spec => []HostsOwnTunnels
<1>1. OwnInv => HostsOwnTunnels
  BY DEF OwnInv, HostsRouted, Owned, HostsOwnTunnels
<1> QED
  BY <1>1, OwnHolds, PTL

-----------------------------------------------------------------------------
(* Subnet routes and the servers inside, also while tunnels are replaced.  *)

(* No call fails, no list names an address, and a link tells of its        *)
(* interface before that goes.                                             *)
Steady ==
    /\ Clean
    /\ ~ExitsUnseen

(* The numbers that a link has in hand. *)
Mine(l) == {tunnel[l], old[l], generation[l]} \ {NoIface}

(* No two links have the same one, no link raises what it holds, and what  *)
(* is about to go is not what came for it.                                 *)
Apart ==
    \A l \in Links :
        /\ Mine(l) \subseteq 1 .. seq
        /\ \A k \in Links \ {l} : Mine(l) \cap Mine(k) = {}
        /\ tunnel[l] # NoIface => tunnel[l] # old[l]
        /\ stage[l] \in {"resolving", "raising"} => generation[l] # tunnel[l]

HandInv == LinksHold /\ Apart /\ HeldStand

LEMMA ApartStep ==
    ASSUME Inv, LinksHold, Apart, [Next]_vars
    PROVE  Apart'
<1> USE DEF Inv, TypeOK, NoIface
<1>1. CASE UNCHANGED vars
  BY <1>1 DEF vars, connecting, Apart, Mine
<1>2. CASE \/ \E r \in Rules : Answer(r)
           \/ Tick
           \/ NewNetwork
           \/ NewLists
           \/ Expire
           \/ RemoveAll
  BY <1>2 DEF Answer, Tick, NewNetwork, NewLists, Expire, RemoveAll, connecting,
              Apart, Mine
<1>3. ASSUME NEW l \in Links, LinkStep(l)
      PROVE  Apart'
  <2>1. CASE Check(l) \/ Stand(l) \/ Exit(l)
    BY <2>1 DEF Check, Stand, Exit, connecting, Apart, Mine
  <2>2. CASE Connect(l)
    <3>1. /\ seq' = seq + 1
          /\ generation' = [generation EXCEPT ![l] = seq + 1]
          /\ stage' = [stage EXCEPT ![l] = "resolving"]
          /\ tunnel' = tunnel /\ old' = old
      BY <2>2 DEF Connect, ConnectAs
    <3>2. /\ Mine(l)' \subseteq Mine(l) \cup {seq + 1}
          /\ \A k \in Links \ {l} : Mine(k)' = Mine(k)
      BY <3>1 DEF Mine
    <3>3. \A k \in Links : seq + 1 \notin Mine(k) /\ tunnel[k] # seq + 1
      BY DEF Apart, Mine
    <3>4. ASSUME NEW k \in Links
          PROVE  Mine(k)' \subseteq 1 .. seq'
      <4>1. Mine(k) \subseteq 1 .. seq
        BY DEF Apart
      <4> QED
        BY <3>1, <3>2, <4>1
    <3>5. ASSUME NEW k \in Links, NEW j \in Links \ {k}
          PROVE  Mine(k)' \cap Mine(j)' = {}
      <4>1. Mine(k) \cap Mine(j) = {}
        BY DEF Apart
      <4> QED
        BY <3>2, <3>3, <4>1
    <3> QED
      BY <3>1, <3>3, <3>4, <3>5 DEF Apart
  <2>3. CASE LetOut(l) \/ ConnectFails(l)
    <3>1. UNCHANGED <<tunnel, old, generation, seq>>
      BY <2>3 DEF LetOut, ConnectFails
    <3>2. \A k \in Links : stage'[k] \in {"resolving", "raising"} =>
             stage[k] \in {"resolving", "raising"}
      BY <2>3 DEF LetOut, ConnectFails
    <3> QED
      BY <3>1, <3>2 DEF Apart, Mine
  <2>4. CASE Raised(l)
    <3>1. /\ tunnel' = [tunnel EXCEPT ![l] = generation[l]]
          /\ old' = [old EXCEPT ![l] = tunnel[l]]
          /\ generation' = generation /\ seq' = seq
          /\ stage' = [stage EXCEPT ![l] = IF tunnel[l] = NoIface THEN "idle" ELSE "handing"]
          /\ stage[l] = "raising"
      BY <2>4 DEF Raised
    <3>2. \A k \in Links : Mine(k)' \subseteq Mine(k)
      BY <3>1 DEF Mine
    <3>3. generation[l] # tunnel[l]
      BY <3>1 DEF Apart
    <3>4. \A k \in Links :
             /\ tunnel'[k] # NoIface => tunnel'[k] # old'[k]
             /\ stage'[k] \in {"resolving", "raising"} => generation'[k] # tunnel'[k]
      BY <3>1, <3>3 DEF Apart
    <3> QED
      BY <3>1, <3>2, <3>4 DEF Apart
  <2>5. CASE OldDown(l)
    <3>1. /\ old' = [old EXCEPT ![l] = NoIface]
          /\ stage' = [stage EXCEPT ![l] = "idle"]
          /\ UNCHANGED <<tunnel, generation, seq>>
      BY <2>5 DEF OldDown
    <3>2. \A k \in Links : Mine(k)' \subseteq Mine(k)
      BY <3>1 DEF Mine
    <3>3. \A k \in Links :
             /\ tunnel'[k] # NoIface => tunnel'[k] # old'[k]
             /\ stage'[k] \in {"resolving", "raising"} => generation'[k] # tunnel'[k]
      BY <3>1 DEF Apart
    <3> QED
      BY <3>1, <3>2, <3>3 DEF Apart
  <2>6. CASE Down(l)
    <3>1. /\ tunnel' = [tunnel EXCEPT ![l] = NoIface]
          /\ UNCHANGED <<old, generation, stage, seq>>
          /\ stage[l] = "idle"
      BY <2>6 DEF Down
    <3>2. \A k \in Links : Mine(k)' \subseteq Mine(k)
      BY <3>1 DEF Mine
    <3>3. \A k \in Links :
             /\ tunnel'[k] # NoIface => tunnel'[k] # old'[k]
             /\ stage'[k] \in {"resolving", "raising"} => generation'[k] # tunnel'[k]
      BY <3>1 DEF Apart
    <3> QED
      BY <3>1, <3>2, <3>3 DEF Apart
  <2> QED
    BY <1>3, <2>1, <2>2, <2>3, <2>4, <2>5, <2>6 DEF LinkStep
<1> QED
  BY <1>1, <1>2, <1>3 DEF Next

LEMMA HeldStandKept ==
    ASSUME Steady, Inv, HandInv, [Next]_vars
    PROVE  HeldStand'
<1> USE DEF Steady, HandInv, Inv, TypeOK
<1>1. CASE UNCHANGED vars
  BY <1>1 DEF vars, connecting, kernel, HeldStand
<1>2. CASE \/ \E r \in Rules : Answer(r)
           \/ Tick
           \/ NewNetwork
           \/ NewLists
           \/ Expire
           \/ RemoveAll
  BY <1>2 DEF Answer, Tick, NewNetwork, NewLists, Expire, RemoveAll, connecting,
              kernel, HeldStand
<1>3. ASSUME NEW l \in Links, LinkStep(l)
      PROVE  HeldStand'
  <2>1. CASE Check(l) \/ Stand(l)
    BY <2>1 DEF Check, Stand, connecting, kernel, HeldStand
  <2>2. CASE Connect(l) \/ LetOut(l) \/ ConnectFails(l)
    BY <2>2 DEF Connect, ConnectAs, LetOut, ConnectFails, kernel, HeldStand
  <2>3. CASE Raised(l)
    BY <2>3 DEF Raised, HeldStand
  <2>4. CASE OldDown(l)
    <3>1. ifaces' = ifaces \ {old[l]} /\ tunnel' = tunnel
      BY <2>4 DEF OldDown
    <3>2. \A k \in Links : tunnel[k] # NoIface => tunnel[k] # old[l]
      BY DEF Apart, Mine
    <3> QED
      BY <3>1, <3>2 DEF HeldStand
  <2>5. CASE Exit(l)
    BY <2>5 DEF Exit
  <2>6. CASE Down(l)
    <3>1. /\ ifaces' = ifaces \ {tunnel[l]}
          /\ tunnel' = [tunnel EXCEPT ![l] = NoIface]
      BY <2>6 DEF Down
    <3>2. \A k \in Links \ {l} : tunnel[k] # NoIface => tunnel[k] # tunnel[l]
      BY DEF Apart, Mine
    <3> QED
      BY <3>1, <3>2 DEF HeldStand
  <2> QED
    BY <1>3, <2>1, <2>2, <2>3, <2>4, <2>5, <2>6 DEF LinkStep
<1> QED
  BY <1>1, <1>2, <1>3 DEF Next

(* What a rule aims at stands. *)
AimsStand == \A r \in Rules : Targets[r] # NoTarget => Targets[r].iface \in ifaces

LEMMA HeldAims == Inv /\ LinksHold /\ HeldStand => AimsStand
<1> SUFFICES ASSUME Inv, LinksHold, HeldStand, NEW r \in Rules, Targets[r] # NoTarget
             PROVE  Targets[r].iface \in ifaces
  BY DEF AimsStand
<1>1. /\ current[r] \in Links
      /\ Targets[r].iface = links[current[r]].iface
      /\ Targets[r].iface # NoIface
  BY TargetsTyped DEF TargetsSound, Decides, Inv, TypeOK
<1> QED
  BY <1>1 DEF LinksHold, HeldStand

LEMMA HeldAimsNext == Inv' /\ LinksHold' /\ HeldStand' => AimsStand'
<1>1. (Inv /\ LinksHold /\ HeldStand => AimsStand)'
  BY HeldAims, PTL
<1> QED
  BY <1>1

(* The resolver knows of each subnet route, has placed none that holds a   *)
(* server, and none once the daemon has stopped.                           *)
SubnetKnown(s) ==
    /\ route[s] # NoIface => subnets[s] # None
    /\ HoldsServer(s) \/ stopped => subnets[s] = None
SubnetsKnown == \A s \in Subnets : SubnetKnown(s)

(* A reconcile keeps it. *)
LEMMA ReconcileKnown ==
    ASSUME Steady, Inv, Reconcile, stopped' = stopped, Decides', AimsStand',
           NEW s \in Subnets, SubnetKnown(s)
    PROVE  SubnetKnown(s)'
<1>1. s \notin Addrs /\ s \in Dsts
  BY DEF Steady, Clean, Dsts
<1>2. CASE stopped
  <2>1. subnets' = subnets /\ route' = Lasting
    BY <1>2 DEF Reconcile, placing
  <2>2. subnets[s] = None /\ route[s] = NoIface
    BY <1>2 DEF SubnetKnown
  <2>3. subnets'[s] = None /\ route'[s] = NoIface
    BY <1>1, <2>1, <2>2 DEF Lasting
  <2> QED
    BY <2>3 DEF SubnetKnown
<1>3. CASE ~stopped
  <2>1. PICK failed \in SUBSET Calls : \E lost \in SUBSET failed :
           /\ MayFail(failed, lost, PutsOnGone)
           /\ hosts' = [a \in Addrs |-> NewHost(a, failed)]
           /\ subnets' = [t \in Subnets |-> NewSubnet(t, failed)]
           /\ route' = [d \in Dsts |->
                 LET was == IF d \in Addrs THEN HostRoute(d, failed, lost) ELSE Lasting[d]
                 IN  IF d \in Subnets THEN SubnetRoute(d, was, failed, lost) ELSE was]
    BY <1>3 DEF Reconcile
  <2>2. failed = PutsOnGone
    BY <2>1 DEF MayFail, Steady, Clean
  <2>3. /\ subnets'[s] = NewSubnet(s, failed)
        /\ route'[s] = SubnetRoute(s, Lasting[s], failed, {})
    BY <1>1, <2>1 DEF MayFail, Steady, Clean
  <2>4. WantSound'
    BY WantTypedNext
  <2>5. Want(s)' # None => WantIface(s)' \in ifaces'
    BY <2>4 DEF WantSound, AimsStand, WantIface
  <2>6. SubnetCall(s) \notin failed
    BY <2>2, <2>5 DEF PutsOnGone, HostCall, SubnetCall
  <2>7. subnets'[s] = Want(s)'
    BY <2>3, <2>6 DEF NewSubnet
  <2>8. HoldsServer(s)' => Want(s)' = None
    BY DEF Want
  <2>9. ASSUME Want(s)' = None
        PROVE  route'[s] = NoIface
    <3>1. subnets[s] = None => Lasting[s] = NoIface
      BY <1>1 DEF SubnetKnown, Lasting
    <3> QED
      BY <2>3, <2>6, <2>9, <3>1 DEF SubnetRoute, Delete
  <2> QED
    BY <1>3, <2>7, <2>8, <2>9 DEF SubnetKnown
<1> QED
  BY <1>2, <1>3

(* A step that tells of no server and places no subnet. *)
SubnetLeft(s) ==
    /\ UNCHANGED <<subnets, stopped, Endpoints>>
    /\ route'[s] \in {route[s], NoIface}

LEMMA SubnetLeftKnown ==
    ASSUME NEW s \in Subnets, SubnetKnown(s), SubnetLeft(s)
    PROVE  SubnetKnown(s)'
BY DEF SubnetLeft, SubnetKnown, HoldsServer

LEMMA KnownSteps ==
    ASSUME Steady, Inv, Inv', AimsStand', SubnetsKnown, [Next]_vars, NEW s \in Subnets
    PROVE  SubnetKnown(s)'
<1>0. SubnetKnown(s) /\ Decides'
  BY DEF SubnetsKnown, Inv, TypeOK, Decides
<1>1. s \notin Addrs /\ s \in Dsts
  BY DEF Steady, Clean, Dsts
<1>2. links' = links => Endpoints' = Endpoints
  BY DEF Endpoints
<1>3. UNCHANGED vars => SubnetLeft(s)
  BY <1>2 DEF vars, placing, kernel, SubnetLeft
<1>4. ASSUME NEW r \in Rules, Answer(r)
      PROVE  SubnetLeft(s)
  <2>1. PICK done \in SUBSET Addrs, lost \in SUBSET Addrs :
           /\ Targets[r].iface \notin ifaces => done = {}
           /\ hosts' = [a \in Addrs |->
                  IF a \in done THEN [rule |-> r, placed |-> Placed(Targets[r])]
                  ELSE hosts[a]]
           /\ route' = [d \in Dsts |->
                  IF d \in done THEN Targets[r].iface
                  ELSE IF d \in lost THEN NoIface ELSE route[d]]
           /\ lost # {} => RouteMayFail
    BY <1>4, AnswerRoutes
  <2>2. route'[s] = route[s]
    BY <1>1, <2>1
  <2> QED
    BY <1>2, <1>4, <2>2 DEF Answer, SubnetLeft
<1>5. NewNetwork => SubnetLeft(s)
  BY <1>2 DEF NewNetwork, placing, kernel, SubnetLeft
<1>6. ASSUME Expire
      PROVE  SubnetLeft(s)
  <2>1. PICK gone \in SUBSET Addrs, failed \in SUBSET Calls :
           route' = Unrouted(gone, failed)
    BY <1>6 DEF Expire
  <2>2. route'[s] = route[s]
    BY <1>1, <2>1 DEF Unrouted
  <2> QED
    BY <1>2, <1>6, <2>2 DEF Expire, SubnetLeft
<1>7. CASE RemoveAll
  <2>1. PICK failed \in SUBSET Calls :
           /\ MayFail(failed, {}, {})
           /\ route' = [d \in Dsts |->
                 IF d \in Subnets /\ subnets[d] # None
                 THEN Delete(SubnetCall(d), Unrouted(Addrs, failed)[d], failed)
                 ELSE Unrouted(Addrs, failed)[d]]
    BY <1>7 DEF RemoveAll
  <2>2. failed = {}
    BY <2>1 DEF MayFail, Steady, Clean
  <2>3. Unrouted(Addrs, failed)[s] = route[s]
    BY <1>1 DEF Unrouted
  <2>4. route'[s] = NoIface
    BY <1>0, <1>1, <2>1, <2>2, <2>3 DEF Delete, SubnetKnown
  <2>5. subnets'[s] = None
    BY <1>7 DEF RemoveAll
  <2> QED
    BY <2>4, <2>5 DEF SubnetKnown
<1>8. CASE Tick \/ NewLists
  BY <1>0, <1>8, ReconcileKnown DEF Tick, NewLists
<1>9. ASSUME NEW l \in Links, LinkStep(l)
      PROVE  SubnetLeft(s) \/ (Reconcile /\ stopped' = stopped)
  <2>1. CASE Check(l) \/ LetOut(l) \/ ConnectFails(l) \/ Raised(l) \/ Down(l)
    BY <2>1 DEF Check, LetOut, ConnectFails, Raised, Down, Publish
  <2>2. CASE Connect(l)
    BY <1>2, <2>2 DEF Connect, ConnectAs, placing, kernel, SubnetLeft
  <2>3. CASE Stand(l)
    <3>1. \A k \in Links : links'[k].endpoint = links[k].endpoint
      BY <2>3 DEF Stand, Inv, TypeOK, LinkStates
    <3>2. Endpoints' = Endpoints
      BY <3>1 DEF Endpoints
    <3> QED
      BY <2>3, <3>2 DEF Stand, placing, kernel, SubnetLeft
  <2>4. CASE OldDown(l) \/ Exit(l)
    BY <1>1, <1>2, <2>4 DEF OldDown, Exit, placing, Lasting, SubnetLeft
  <2> QED
    BY <1>9, <2>1, <2>2, <2>3, <2>4 DEF LinkStep
<1> QED
  BY <1>0, <1>3, <1>4, <1>5, <1>6, <1>7, <1>8, <1>9, SubnetLeftKnown, ReconcileKnown
     DEF Next

KnownInv == HandInv /\ SubnetsKnown

LEMMA KnownHolds ==
    ASSUME Steady
    PROVE  Spec => []KnownInv
<1>1. Init => KnownInv
  <2> SUFFICES ASSUME Init PROVE KnownInv
    OBVIOUS
  <2>1. LinksHold /\ Apart /\ HeldStand
    BY DEF Init, LinksHold, Apart, Mine, HeldStand, NoIface
  <2>2. SubnetsKnown
    BY DEF Init, SubnetsKnown, SubnetKnown, Dsts
  <2> QED
    BY <2>1, <2>2 DEF KnownInv, HandInv
<1>2. Inv /\ Inv' /\ KnownInv /\ [Next]_vars => KnownInv'
  <2> SUFFICES ASSUME Inv, Inv', KnownInv, [Next]_vars PROVE KnownInv'
    OBVIOUS
  <2>1. HandInv'
    BY LinksHoldStep, ApartStep, HeldStandKept DEF KnownInv, HandInv
  <2>2. SubnetsKnown'
    BY <2>1, HeldAimsNext, KnownSteps DEF KnownInv, HandInv, SubnetsKnown
  <2> QED
    BY <2>1, <2>2 DEF KnownInv
<1> QED
  BY <1>1, <1>2, InvHolds, PTL DEF Spec

(* As long as each link tells of its interface before that goes, there is  *)
(* no subnet route that the resolver does not know of, also while tunnels  *)
(* are replaced.                                                           *)
THEOREM SubnetRoutesAlwaysKnown ==
    ASSUME Steady
    PROVE  Spec => []SubnetRoutesKnown
<1>1. KnownInv => SubnetRoutesKnown
  BY DEF KnownInv, SubnetsKnown, SubnetKnown, SubnetRoutesKnown
<1> QED
  BY <1>1, KnownHolds, PTL

(* The server of a tunnel, and a subnet that holds one, is never routed    *)
(* into a tunnel; for subnets, as long as each link tells of its interface *)
(* before that goes (routable, place_hosts, place_subnets).                *)
THEOREM ServersAlwaysDirect ==
    ASSUME Clean, Subnets = {} \/ ~ExitsUnseen
    PROVE  Spec => []ServersDirect
<1>1. ASSUME OwnInv, NEW a \in Addrs, a \in Endpoints
      PROVE  route[a] = NoIface
  BY <1>1 DEF OwnInv, HostsRouted
<1>2. ASSUME KnownInv, NEW s \in Subnets, HoldsServer(s)
      PROVE  route[s] = NoIface
  BY <1>2 DEF KnownInv, SubnetsKnown, SubnetKnown
<1>3. CASE Subnets = {}
  <2>1. OwnInv => ServersDirect
    BY <1>1, <1>3 DEF ServersDirect, Dsts
  <2> QED
    BY <2>1, OwnHolds, PTL
<1>4. CASE ~ExitsUnseen
  <2>1. ASSUME NEW s \in Subnets, s \in Endpoints, Inv
        PROVE  HoldsServer(s)
    <3>1. s \in Servers
      BY <2>1 DEF Endpoints, Inv, TypeOK, LinkStates
    <3> QED
      BY <2>1, <3>1, RulesAssumption DEF HoldsServer
  <2>2. Inv /\ OwnInv /\ KnownInv => ServersDirect
    <3> SUFFICES ASSUME Inv, OwnInv, KnownInv, NEW d \in Dsts,
                        d \in Endpoints \/ (d \in Subnets /\ HoldsServer(d))
                 PROVE  route[d] = NoIface
      BY DEF ServersDirect
    <3>1. CASE d \in Addrs /\ d \in Endpoints
      BY <1>1, <3>1
    <3>2. CASE d \in Subnets /\ HoldsServer(d)
      BY <1>2, <3>2
    <3> QED
      BY <2>1, <3>1, <3>2 DEF Dsts
  <2>3. Steady
    BY <1>4 DEF Steady
  <2> QED
    BY <2>2, <2>3, InvHolds, OwnHolds, KnownHolds, PTL
<1> QED
  BY <1>3, <1>4
=============================================================================
