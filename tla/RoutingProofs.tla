--------------------------- MODULE RoutingProofs ---------------------------
(***************************************************************************)
(* What holds of Routing for any rules, tunnels, hosts and subnets.        *)
(***************************************************************************)
EXTENDS Routing, PicksProofs, TLAPS

-----------------------------------------------------------------------------
(* The state the core decides by, typed.                                   *)
Decides ==
    /\ links \in [Links -> LinkStates]
    /\ active \subseteq Rules
    /\ current \in [Rules -> Links \cup {NoLink}]

ATarget == [link : Links \cup {NoLink}, generation : Nat, iface : Nat]

LEMMA RulesInNat == Rules \subseteq Nat
BY RulesAssumption DEF Rules

LEMMA PickTyped ==
    ASSUME NEW ls \in [Links -> LinkStates], NEW r \in Rules, NEW c
    PROVE  \/ Pick(ls, Order[r], c) = NoLink
           \/ /\ Pick(ls, Order[r], c) \in Links
              /\ Pick(ls, Order[r], c) \in Range(Order[r])
              /\ HasIface(ls[Pick(ls, Order[r], c)])
<1>1. Order[r] \in Seq(Links)
  BY RulesAssumption
<1> QED
  BY <1>1, PickHasIface DEF Range

(* A rule's target is that of its tunnel, when it has an interface.        *)
TargetsSound ==
    /\ Targets \in [Rules -> ATarget]
    /\ \A r \in Rules : Targets[r] # NoTarget =>
          /\ current[r] \in Links
          /\ Targets[r].link = current[r]
          /\ Targets[r].generation = links[current[r]].generation
          /\ Targets[r].iface = links[current[r]].iface
          /\ Targets[r].iface # NoIface

LEMMA TargetsTyped == Decides => TargetsSound
<1> SUFFICES ASSUME Decides PROVE TargetsSound
  OBVIOUS
<1>1. ASSUME NEW r \in Rules
      PROVE  /\ Targets[r] \in ATarget
             /\ Targets[r] # NoTarget =>
                 /\ current[r] \in Links
                 /\ Targets[r].link = current[r]
                 /\ Targets[r].generation = links[current[r]].generation
                 /\ Targets[r].iface = links[current[r]].iface
                 /\ Targets[r].iface # NoIface
  <2>1. CASE current[r] = NoLink \/ ~HasIface(links[current[r]])
    <3>1. Targets[r] = NoTarget
      BY <2>1 DEF Targets
    <3> QED
      BY <3>1 DEF NoTarget, ATarget, NoIface
  <2>2. CASE ~(current[r] = NoLink \/ ~HasIface(links[current[r]]))
    <3>1. current[r] \in Links /\ links[current[r]] \in LinkStates
      BY <2>2 DEF Decides
    <3>2. Targets[r] = [link |-> current[r],
                        generation |-> links[current[r]].generation,
                        iface |-> links[current[r]].iface]
      BY <2>2 DEF Targets
    <3> QED
      BY <3>1, <3>2, <2>2 DEF ATarget, LinkStates, HasIface
  <2> QED
    BY <2>1, <2>2
<1>2. Targets \in [Rules -> ATarget]
  BY <1>1 DEF Targets
<1> QED
  BY <1>1, <1>2 DEF TargetsSound

LEMMA TargetsTypedNext == Decides' => TargetsSound'
<1>1. (Decides => TargetsSound)'
  BY TargetsTyped, PTL
<1> QED
  BY <1>1

(* What place_subnets wants is nothing, or the tunnel of a rule.           *)
WantSound ==
    \A s \in Subnets :
        /\ Want(s) \in Held
        /\ Want(s) # None =>
              /\ Want(s).rule \in Rules
              /\ Targets[Want(s).rule] # NoTarget
              /\ Want(s).placed = Placed(Targets[Want(s).rule])

LEMMA WantTyped == Decides => WantSound
<1> SUFFICES ASSUME Decides, NEW s \in Subnets
             PROVE  /\ Want(s) \in Held
                    /\ Want(s) # None =>
                          /\ Want(s).rule \in Rules
                          /\ Targets[Want(s).rule] # NoTarget
                          /\ Want(s).placed = Placed(Targets[Want(s).rule])
  BY DEF WantSound
<1> DEFINE C == Claims(s)
<1>1. None \in Held
  BY DEF None, Held, Nowhere, Places
<1>2. CASE Want(s) = None
  BY <1>1, <1>2
<1>3. CASE Want(s) # None
  <2>1. C # {} /\ Targets[Min(C)] # NoTarget
        /\ Want(s) = [rule |-> Min(C), placed |-> Placed(Targets[Min(C)])]
    BY <1>3 DEF Want
  <2>2. C \subseteq Rules
    BY DEF Claims, Decides
  <2>3. C \in SUBSET Nat
    BY <2>2, RulesInNat
  <2> HIDE DEF C
  <2>4. Min(C) \in Rules
    BY <2>1, <2>2, <2>3, LeastOf
  <2>5. Targets[Min(C)] \in ATarget
    BY <2>4, TargetsTyped DEF TargetsSound
  <2>6. Placed(Targets[Min(C)]) \in Places
    BY <2>5 DEF Placed, Places, ATarget
  <2> QED
    BY <2>1, <2>4, <2>6 DEF Held
<1> QED
  BY <1>2, <1>3

LEMMA WantTypedNext == Decides' => WantSound'
<1>1. (Decides => WantSound)'
  BY WantTyped, PTL
<1> QED
  BY <1>1

-----------------------------------------------------------------------------
(* What a reconcile leaves, given a typed state and a typed step.          *)
Given ==
    /\ TypeOK
    /\ links' \in [Links -> LinkStates]
    /\ active' \subseteq Rules
    /\ stopped' = stopped

CurrentTyped == current \in [Rules -> Links \cup {NoLink}]

LEMMA ReconcileCurrent ==
    ASSUME Given, Reconcile
    PROVE  CurrentTyped'
<1>1. CASE stopped
  BY <1>1 DEF Reconcile, Given, TypeOK, CurrentTyped, placing
<1>2. CASE ~stopped
  <2>1. current' = NewCurrent
    BY <1>2 DEF Reconcile
  <2>2. ASSUME NEW r \in Rules
        PROVE  Pick(links', Order[r], current[r]) \in Links \cup {NoLink}
    BY PickTyped DEF Given
  <2> QED
    BY <2>1, <2>2 DEF NewCurrent, CurrentTyped
<1> QED
  BY <1>1, <1>2

LEMMA ReconcileDecides ==
    ASSUME Given, Reconcile
    PROVE  Decides' /\ TargetsSound' /\ WantSound'
<1>1. Decides'
  BY ReconcileCurrent DEF Given, Decides, CurrentTyped
<1> QED
  BY <1>1, TargetsTypedNext, WantTypedNext

LEMMA PlacedTyped ==
    ASSUME NEW t \in ATarget
    PROVE  Placed(t) \in Places
BY DEF Placed, Places, ATarget

LEMMA ReconcilePlaces ==
    ASSUME Given, Reconcile
    PROVE  hosts' \in [Addrs -> Held] /\ subnets' \in [Subnets -> Held]
<1> USE DEF Given
<1>1. CASE stopped
  BY <1>1 DEF Reconcile, TypeOK, placing
<1>2. CASE ~stopped
  <2>1. PICK failed \in SUBSET Calls :
           /\ hosts' = [a \in Addrs |-> NewHost(a, failed)]
           /\ subnets' = [s \in Subnets |-> NewSubnet(s, failed)]
    BY <1>2 DEF Reconcile
  <2>2. TargetsSound' /\ WantSound'
    BY ReconcileDecides
  <2>3. None \in Held
    BY DEF None, Held, Nowhere, Places
  <2>4. ASSUME NEW a \in Addrs
        PROVE  NewHost(a, failed) \in Held
    <3>1. hosts[a] \in Held
      BY DEF TypeOK
    <3>2. CASE Dropped(a)
      BY <2>3, <3>2 DEF NewHost
    <3>3. CASE ~Dropped(a) /\ Moved(a) /\ HostCall(a) \notin failed
      <4>1. hosts[a].rule \in Rules
        BY <3>1, <3>3 DEF Moved, Known, Held
      <4>2. Targets'[hosts[a].rule] \in ATarget
        BY <2>2, <4>1 DEF TargetsSound
      <4>3. Placed(Targets'[hosts[a].rule]) \in Places
        BY <4>2, PlacedTyped
      <4> QED
        BY <3>1, <3>3, <4>3 DEF NewHost, Held
    <3> QED
      BY <3>1, <3>2, <3>3 DEF NewHost
  <2>5. ASSUME NEW s \in Subnets
        PROVE  NewSubnet(s, failed) \in Held
    BY <2>2, <2>3 DEF NewSubnet, WantSound
  <2> QED
    BY <2>1, <2>4, <2>5
<1> QED
  BY <1>1, <1>2

LEMMA ReconcileRoutes ==
    ASSUME Given, Reconcile
    PROVE  route' \in [Dsts -> ifaces' \cup {NoIface}]
<1> USE DEF Given
<1>1. ASSUME NEW d \in Dsts
      PROVE  Lasting[d] \in ifaces' \cup {NoIface}
  BY DEF Lasting
<1>2. CASE stopped
  BY <1>1, <1>2 DEF Reconcile, Lasting
<1>3. CASE ~stopped
  <2>1. PICK failed \in SUBSET Calls : \E lost \in SUBSET failed :
           /\ MayFail(failed, lost, PutsOnGone)
           /\ route' = [d \in Dsts |->
                 LET was == IF d \in Addrs THEN HostRoute(d, failed, lost) ELSE Lasting[d]
                 IN  IF d \in Subnets THEN SubnetRoute(d, was, failed, lost) ELSE was]
    BY <1>3 DEF Reconcile
  <2>2. PICK lost \in SUBSET failed :
           /\ MayFail(failed, lost, PutsOnGone)
           /\ route' = [d \in Dsts |->
                 LET was == IF d \in Addrs THEN HostRoute(d, failed, lost) ELSE Lasting[d]
                 IN  IF d \in Subnets THEN SubnetRoute(d, was, failed, lost) ELSE was]
    BY <2>1
  <2>3. PutsOnGone \subseteq failed
    BY <2>2 DEF MayFail
  <2>4. ASSUME NEW a \in Addrs
        PROVE  HostRoute(a, failed, lost) \in ifaces' \cup {NoIface}
    <3>1. Lasting[a] \in ifaces' \cup {NoIface}
      BY <1>1 DEF Dsts
    <3>2. CASE Moved(a) /\ HostCall(a) \notin failed
      <4>1. Targets'[hosts[a].rule].iface \in ifaces'
        BY <2>3, <3>2 DEF PutsOnGone
      <4> QED
        BY <3>1, <3>2, <4>1 DEF HostRoute, Put, Delete
    <3> QED
      BY <3>1, <3>2 DEF HostRoute, Put, Delete
  <2>5. ASSUME NEW s \in Subnets, NEW was \in ifaces' \cup {NoIface}
        PROVE  SubnetRoute(s, was, failed, lost) \in ifaces' \cup {NoIface}
    <3>1. CASE Want(s)' \notin {None, subnets[s]} /\ SubnetCall(s) \notin failed
      <4>1. WantIface(s)' \in ifaces'
        BY <2>3, <3>1 DEF PutsOnGone
      <4> QED
        BY <3>1, <4>1 DEF SubnetRoute, Put
    <3> QED
      BY <3>1 DEF SubnetRoute, Put, Delete
  <2> QED
    BY <1>1, <2>2, <2>4, <2>5
<1> QED
  BY <1>2, <1>3

-----------------------------------------------------------------------------
(* Every variable keeps its type.                                          *)

(* The numbers of connects: a tunnel that comes up has one.                *)
Numbers ==
    \A l \in Links :
        /\ generation[l] <= seq
        /\ stage[l] \in {"resolving", "raising"} => generation[l] # 0

Inv == TypeOK /\ Numbers

LEMMA InvInit == Init => Inv
<1> SUFFICES ASSUME Init PROVE Inv
  OBVIOUS
<1>1. links \in [Links -> LinkStates]
  BY DEF Init, LinkStates, Healths, NoIface
<1>2. /\ hosts \in [Addrs -> Held]
      /\ subnets \in [Subnets -> Held]
  BY DEF Init, Held, None, Nowhere, Places
<1>3. /\ route \in [Dsts -> ifaces \cup {NoIface}]
      /\ ifaces \subseteq 1 .. seq
  BY DEF Init
<1>4. Numbers
  BY DEF Init, Numbers
<1>5. /\ tunnel \in [Links -> Nat]
      /\ old \in [Links -> Nat]
      /\ generation \in [Links -> Nat]
      /\ stage \in [Links -> {"idle", "resolving", "raising", "handing"}]
      /\ seq \in Nat
  BY DEF Init, NoIface
<1>6. /\ active \subseteq Rules
      /\ current \in [Rules -> Links \cup {NoLink}]
      /\ lists \in [Rules -> SUBSET Subnets]
      /\ owner \in BOOLEAN /\ fakeip \in BOOLEAN /\ stopped \in BOOLEAN
  BY DEF Init
<1> QED
  BY <1>1, <1>2, <1>3, <1>4, <1>5, <1>6 DEF Inv, TypeOK

(* The part of the type that a reconcile keeps. *)
PlacingTyped ==
    /\ current \in [Rules -> Links \cup {NoLink}]
    /\ hosts \in [Addrs -> Held]
    /\ subnets \in [Subnets -> Held]
    /\ route \in [Dsts -> ifaces \cup {NoIface}]

LEMMA ReconcileTyped ==
    ASSUME Given, Reconcile
    PROVE  PlacingTyped'
BY ReconcileCurrent, ReconcilePlaces, ReconcileRoutes DEF PlacingTyped, CurrentTyped

LEMMA PublishTyped ==
    ASSUME TypeOK, NEW l \in Links, NEW health \in Healths, NEW works \in BOOLEAN,
           NEW stood \in BOOLEAN, NEW endpoint \in Servers \cup {NoServer},
           tunnel' \in [Links -> Nat], generation' \in [Links -> Nat],
           active' = active, stopped' = stopped,
           Publish(l, health, works, stood, endpoint)
    PROVE  links' \in [Links -> LinkStates] /\ PlacingTyped'
<1>1. links' \in [Links -> LinkStates]
  BY DEF Publish, LinkStates, TypeOK
<1>2. Given
  BY <1>1 DEF Given, TypeOK
<1> QED
  BY <1>1, <1>2, ReconcileTyped DEF Publish

LEMMA LinksTyped ==
    ASSUME TypeOK, NEW l \in Links
    PROVE  /\ links[l].health \in Healths
           /\ links[l].works \in BOOLEAN
           /\ links[l].stood \in BOOLEAN
           /\ links[l].endpoint \in Servers \cup {NoServer}
BY DEF TypeOK, LinkStates

LEMMA Numbered ==
    ASSUME TypeOK, Numbers, NEW l \in Links, stage[l] \in {"resolving", "raising"}
    PROVE  generation[l] \in 1 .. seq
BY DEF TypeOK, Numbers

(* Some addresses are routed, and some may have lost their route.          *)
LEMMA AnswerRoutes ==
    ASSUME NEW r \in Rules, Answer(r)
    PROVE  \E done \in SUBSET Addrs, lost \in SUBSET Addrs :
           /\ Targets[r].iface \notin ifaces => done = {}
           /\ hosts' = [a \in Addrs |->
                  IF a \in done THEN [rule |-> r, placed |-> Placed(Targets[r])]
                  ELSE hosts[a]]
           /\ route' = [d \in Dsts |->
                  IF d \in done THEN Targets[r].iface
                  ELSE IF d \in lost THEN NoIface ELSE route[d]]
           /\ lost # {} => RouteMayFail
<1>1. PICK as \in SUBSET (Addrs \ Endpoints) :
        LET rest == {a \in as : ~Kept(a, r)}
            gone == Targets[r].iface \notin ifaces
        IN  \E done \in SUBSET rest, lost \in SUBSET Addrs :
            /\ gone => done = {}
            /\ done # rest => gone \/ RouteMayFail
            /\ \/ lost = {}
               \/ RouteMayFail /\ \E a \in rest \ done : lost = {a}
            /\ hosts' = [a \in Addrs |->
                  IF a \in done THEN [rule |-> r, placed |-> Placed(Targets[r])]
                  ELSE hosts[a]]
            /\ route' = [d \in Dsts |->
                  IF d \in done THEN Targets[r].iface
                  ELSE IF d \in lost THEN NoIface ELSE route[d]]
  BY DEF Answer
<1> DEFINE rest == {a \in as : ~Kept(a, r)}
<1>2. rest \in SUBSET Addrs
  OBVIOUS
<1> QED
  BY <1>1, <1>2

LEMMA CoreInv ==
    ASSUME Inv,
           \/ \E r \in Rules : Answer(r)
           \/ Tick
           \/ NewNetwork
           \/ NewLists
           \/ Expire
           \/ RemoveAll
    PROVE  Inv'
<1> USE DEF Inv
<1>1. ASSUME NEW r \in Rules, Answer(r)
      PROVE  Inv'
  <2> USE <1>1
  <2>1. TargetsSound
    BY TargetsTyped DEF TypeOK, Decides
  <2>2. Placed(Targets[r]) \in Places
    BY <2>1, PlacedTyped DEF TargetsSound
  <2>3. PICK done \in SUBSET Addrs, lost \in SUBSET Addrs :
           /\ Targets[r].iface \notin ifaces => done = {}
           /\ hosts' = [a \in Addrs |->
                  IF a \in done THEN [rule |-> r, placed |-> Placed(Targets[r])]
                  ELSE hosts[a]]
           /\ route' = [d \in Dsts |->
                  IF d \in done THEN Targets[r].iface
                  ELSE IF d \in lost THEN NoIface ELSE route[d]]
           /\ lost # {} => RouteMayFail
    BY AnswerRoutes
  <2>4. hosts' \in [Addrs -> Held]
    BY <2>2, <2>3 DEF TypeOK, Held
  <2>5. route' \in [Dsts -> ifaces \cup {NoIface}]
    BY <2>3 DEF TypeOK
  <2> QED
    BY <2>4, <2>5 DEF Answer, TypeOK, Numbers, rules, connecting
<1>2. CASE Tick
  <2>1. Given
    BY <1>2 DEF Tick, Given, TypeOK
  <2>2. PlacingTyped'
    BY <1>2, <2>1, ReconcileTyped DEF Tick
  <2> QED
    BY <1>2, <2>2 DEF Tick, TypeOK, Numbers, PlacingTyped, connecting
<1>3. CASE NewNetwork
  BY <1>3 DEF NewNetwork, TypeOK, Numbers, placing, connecting, kernel
<1>4. CASE NewLists
  <2>1. Given
    BY <1>4 DEF NewLists, Given, TypeOK
  <2>2. PlacingTyped'
    BY <1>4, <2>1, ReconcileTyped DEF NewLists
  <2> QED
    BY <1>4, <2>2 DEF NewLists, TypeOK, Numbers, PlacingTyped, connecting
<1>5. ASSUME NEW as \in SUBSET Addrs, NEW failed
      PROVE  Unrouted(as, failed) \in [Dsts -> ifaces \cup {NoIface}]
  BY DEF Unrouted, Delete, TypeOK
<1>6. CASE Expire
  <2>1. PICK gone \in SUBSET Addrs, failed \in SUBSET Calls :
           /\ hosts' = [a \in Addrs |-> IF a \in gone THEN None ELSE hosts[a]]
           /\ route' = Unrouted(gone, failed)
    BY <1>6 DEF Expire
  <2>2. None \in Held
    BY DEF None, Held, Nowhere, Places
  <2>3. hosts' \in [Addrs -> Held]
    BY <2>1, <2>2 DEF TypeOK
  <2>4. route' \in [Dsts -> ifaces \cup {NoIface}]
    BY <1>5, <2>1
  <2> QED
    BY <1>6, <2>3, <2>4 DEF Expire, TypeOK, Numbers, rules, connecting
<1>7. CASE RemoveAll
  <2>1. PICK failed \in SUBSET Calls :
           route' = [d \in Dsts |->
              IF d \in Subnets /\ subnets[d] # None
              THEN Delete(SubnetCall(d), Unrouted(Addrs, failed)[d], failed)
              ELSE Unrouted(Addrs, failed)[d]]
    BY <1>7 DEF RemoveAll
  <2>2. route' \in [Dsts -> ifaces \cup {NoIface}]
    <3> DEFINE U == Unrouted(Addrs, failed)
    <3>1. U \in [Dsts -> ifaces \cup {NoIface}]
      BY <1>5
    <3> HIDE DEF U
    <3>2. route' = [d \in Dsts |->
              IF d \in Subnets /\ subnets[d] # None
              THEN Delete(SubnetCall(d), U[d], failed) ELSE U[d]]
      BY <2>1 DEF U
    <3> QED
      BY <3>1, <3>2 DEF Delete
  <2>3. hosts' \in [Addrs -> Held] /\ subnets' \in [Subnets -> Held]
    <3>1. Nowhere \in Places /\ None \in Held
      BY DEF Held, None, Nowhere, Places
    <3>2. \A a \in Addrs : [hosts[a] EXCEPT !.placed = Nowhere] \in Held
      BY <3>1 DEF TypeOK, Held
    <3> QED
      BY <1>7, <3>1, <3>2 DEF RemoveAll
  <2> QED
    BY <1>7, <2>2, <2>3 DEF RemoveAll, TypeOK, Numbers, rules, connecting
<1> QED
  BY <1>1, <1>2, <1>3, <1>4, <1>6, <1>7

LEMMA LinkInv ==
    ASSUME Inv, NEW l \in Links, LinkStep(l)
    PROVE  Inv'
<1> USE DEF Inv
<1>1. "down" \in Healths
  BY DEF Healths
<1>2. CASE Check(l)
  <2>1. PICK health \in Healths, works \in BOOLEAN, endpoint \in Servers \cup {NoServer} :
           Publish(l, health, works,
                   links[l].stood /\ health = "up" /\ links[l].health = "up", endpoint)
    <3>1. Told(l) \subseteq Servers \cup {NoServer}
      BY LinksTyped DEF Told
    <3> QED
      BY <1>1, <1>2, <3>1 DEF Check
  <2>2. links' \in [Links -> LinkStates] /\ PlacingTyped'
    <3> DEFINE stood == links[l].stood /\ health = "up" /\ links[l].health = "up"
    <3>1. stood \in BOOLEAN
      BY LinksTyped
    <3>2. /\ tunnel' \in [Links -> Nat] /\ generation' \in [Links -> Nat]
          /\ active' = active /\ stopped' = stopped
      BY <1>2 DEF Check, TypeOK, rules, connecting
    <3>3. Publish(l, health, works, stood, endpoint)
      BY <2>1
    <3> HIDE DEF stood
    <3> QED
      BY <3>1, <3>2, <3>3, PublishTyped
  <2> QED
    BY <1>2, <2>2 DEF Check, TypeOK, Numbers, PlacingTyped, rules, connecting
<1>3. CASE Stand(l)
  <2> DEFINE stood == [links[l] EXCEPT !.stood = TRUE]
  <2>0. stood \in LinkStates
    <3>1. links[l] \in LinkStates
      BY DEF TypeOK
    <3> QED
      BY <3>1 DEF LinkStates
  <2> HIDE DEF stood
  <2>1. links' \in [Links -> LinkStates]
    <3>1. links' = [links EXCEPT ![l] = stood]
      BY <1>3 DEF Stand, stood
    <3> QED
      BY <2>0, <3>1 DEF TypeOK
  <2> QED
    BY <1>3, <2>1 DEF Stand, TypeOK, Numbers, rules, placing, connecting, kernel
<1>4. CASE Connect(l)
  BY <1>4 DEF Connect, ConnectAs, TypeOK, Numbers, rules, placing, kernel
<1>5. CASE LetOut(l)
  <2>1. links' \in [Links -> LinkStates] /\ PlacingTyped'
    BY <1>1, <1>5, PublishTyped DEF LetOut, TypeOK, rules
  <2> QED
    BY <1>5, <2>1 DEF LetOut, TypeOK, Numbers, PlacingTyped, rules
<1>6. CASE ConnectFails(l)
  <2>1. links' \in [Links -> LinkStates] /\ PlacingTyped'
    BY <1>1, <1>6, LinksTyped, PublishTyped DEF ConnectFails, TypeOK, rules
  <2> QED
    BY <1>6, <2>1 DEF ConnectFails, TypeOK, Numbers, PlacingTyped, rules
<1>7. CASE Raised(l)
  <2>1. generation[l] \in 1 .. seq
    BY <1>7, Numbered DEF Raised
  <2>2. /\ tunnel' \in [Links -> Nat]
        /\ old' \in [Links -> Nat]
        /\ ifaces' \subseteq 1 .. seq'
        /\ stage' \in [Links -> {"idle", "resolving", "raising", "handing"}]
    BY <1>7, <2>1 DEF Raised, TypeOK
  <2>3. links' \in [Links -> LinkStates] /\ PlacingTyped'
    <3>1. Publish(l, "down", links[l].works, FALSE, links[l].endpoint)
      BY <1>7 DEF Raised
    <3>2. generation' \in [Links -> Nat] /\ active' = active /\ stopped' = stopped
      BY <1>7 DEF Raised, TypeOK, rules
    <3>3. links[l].works \in BOOLEAN /\ links[l].endpoint \in Servers \cup {NoServer}
      BY LinksTyped
    <3> QED
      BY <1>1, <2>2, <3>1, <3>2, <3>3, PublishTyped
  <2> QED
    BY <1>7, <2>2, <2>3 DEF Raised, TypeOK, Numbers, PlacingTyped, rules
<1>8. CASE OldDown(l)
  <2>1. route' \in [Dsts -> ifaces' \cup {NoIface}]
    BY <1>8 DEF OldDown, Lasting
  <2> QED
    BY <1>8, <2>1 DEF OldDown, TypeOK, Numbers, rules, placing, NoIface
<1>9. CASE Exit(l)
  <2>1. route' \in [Dsts -> ifaces' \cup {NoIface}]
    BY <1>9 DEF Exit, Lasting
  <2> QED
    BY <1>9, <2>1 DEF Exit, TypeOK, Numbers, rules, placing, connecting
<1>10. CASE Down(l)
  <2>1. tunnel' \in [Links -> Nat] /\ ifaces' \subseteq 1 .. seq'
    BY <1>10 DEF Down, TypeOK, NoIface
  <2>2. links' \in [Links -> LinkStates] /\ PlacingTyped'
    <3>1. PICK works \in BOOLEAN :
             Publish(l, "down", works, FALSE, links[l].endpoint)
      BY <1>10 DEF Down
    <3>2. generation' \in [Links -> Nat] /\ active' = active /\ stopped' = stopped
      BY <1>10 DEF Down, TypeOK, rules
    <3>3. links[l].endpoint \in Servers \cup {NoServer}
      BY LinksTyped
    <3> QED
      BY <1>1, <2>1, <3>1, <3>2, <3>3, PublishTyped
  <2> QED
    BY <1>10, <2>1, <2>2 DEF Down, TypeOK, Numbers, PlacingTyped, rules
<1> QED
  BY <1>2, <1>3, <1>4, <1>5, <1>6, <1>7, <1>8, <1>9, <1>10 DEF LinkStep

LEMMA InvStep == Inv /\ [Next]_vars => Inv'
<1> SUFFICES ASSUME Inv, [Next]_vars PROVE Inv'
  OBVIOUS
<1>1. CASE Next
  BY <1>1, CoreInv, LinkInv DEF Next
<1>2. CASE UNCHANGED vars
  BY <1>2 DEF vars, Inv, TypeOK, Numbers, rules, placing, connecting, kernel
<1> QED
  BY <1>1, <1>2

LEMMA InvHolds == Spec => []Inv
BY InvInit, InvStep, PTL DEF Spec

(* Every variable keeps its type, for any rules, tunnels, hosts, subnets.  *)
THEOREM TypeCorrect == Spec => []TypeOK
BY InvHolds, PTL DEF Inv

-----------------------------------------------------------------------------
(* Rules and the tunnels that carry.                                       *)

LEMMA PickWaits ==
    ASSUME NEW ls \in [Links -> LinkStates], NEW order \in Seq(Links),
           NEW i \in DOMAIN order, HasIface(ls[order[i]]), ls[order[i]].works
    PROVE  Pick(ls, order, order[i]) = order[i]
<1> DEFINE c == order[i]
           W == Wishes(ls, order, c)
<1>1. W[1] = {c}
  BY DEF Wishes, WithIface
<1>2. 1 \in Granted(ls, order, c)
  BY <1>1 DEF Granted
<1>3. PICK k \in Granted(ls, order, c), j \in DOMAIN order :
           /\ Pick(ls, order, c) = order[j]
           /\ order[j] \in W[k]
           /\ \A m \in Granted(ls, order, c) : k <= m
  BY <1>2, PickGrants
<1>4. k = 1
  BY <1>2, <1>3 DEF Granted
<1> QED
  BY <1>1, <1>3, <1>4

(* A rule has one of its own tunnels, or none.                             *)
OwnTunnels ==
    \A r \in Rules : current[r] # NoLink => current[r] \in Links \cap Range(Order[r])

(* The step of a reconcile, as far as the rules and their tunnels go.      *)
Repicked ==
    IF stopped THEN current' = current ELSE current' = NewCurrent

LEMMA Repicks ==
    ASSUME Reconcile
    PROVE  Repicked
BY DEF Reconcile, Repicked, placing

LEMMA RepickedOwn ==
    ASSUME OwnTunnels, Repicked, links' \in [Links -> LinkStates]
    PROVE  OwnTunnels'
BY PickTyped DEF OwnTunnels, Repicked, NewCurrent

LEMMA RepickedCarried ==
    ASSUME OwnTunnels, Repicked, links' \in [Links -> LinkStates],
           active' \subseteq Rules, stopped' = stopped
    PROVE  RulesCarried'
<1> SUFFICES ASSUME NEW r \in active', NEW l \in Links,
                    l \in Carrying(links'), l \in Range(Order[r]), ~stopped
             PROVE  /\ current'[r] # NoLink
                    /\ \/ current'[r] \in Carrying(links')
                       \/ HasIface(links'[current'[r]]) /\ links'[current'[r]].works
  BY DEF RulesCarried
<1> DEFINE c == current[r]
           p == Pick(links', Order[r], c)
<1>1. r \in Rules /\ Order[r] \in Seq(Links)
  BY RulesAssumption
<1>2. current'[r] = p
  BY <1>1 DEF Repicked, NewCurrent
<1>3. PICK i \in DOMAIN Order[r] : Order[r][i] = l
  BY DEF Range
<1>4. CASE c \in Links /\ HasIface(links'[c]) /\ links'[c].works
  <2>1. c # NoLink /\ c \in Range(Order[r])
    BY <1>1, <1>4, LinksAssumption DEF OwnTunnels
  <2>2. PICK k \in DOMAIN Order[r] : Order[r][k] = c
    BY <2>1 DEF Range
  <2>3. p = c
    BY <1>1, <1>4, <2>2, PickWaits
  <2> QED
    BY <1>2, <1>4, <2>1, <2>3
<1>5. CASE ~(c \in Links /\ HasIface(links'[c]) /\ links'[c].works)
  <2>1. Fit(links'[l])
    BY DEF Carrying
  <2>2. Fit(links'[p])
    BY <1>1, <1>3, <1>5, <2>1, PickTakesFit
  <2>3. p = NoLink => \A k \in DOMAIN Order[r] : ~HasIface(links'[Order[r][k]])
    BY <1>1, PickHasIface, PickTyped, LinksAssumption
  <2>4. p # NoLink
    BY <1>3, <2>1, <2>3 DEF Fit, Good
  <2>5. p \in Links
    BY <1>1, <2>4, PickTyped
  <2> QED
    BY <1>2, <2>2, <2>4, <2>5 DEF Carrying
<1> QED
  BY <1>4, <1>5

(* Without a reconcile the rules keep their tunnels, and what carries.     *)
Untouched ==
    /\ UNCHANGED <<active, current>>
    /\ stopped' = stopped \/ stopped'
    /\ \A k \in Links :
          /\ links'[k].iface = links[k].iface
          /\ links'[k].health = links[k].health
          /\ links'[k].works = links[k].works

LEMMA Steps ==
    ASSUME Inv, [Next]_vars
    PROVE  Untouched \/ (Repicked /\ stopped' = stopped)
<1>1. CASE UNCHANGED vars
  BY <1>1 DEF vars, rules, placing, Untouched
<1>2. CASE \/ \E r \in Rules : Answer(r)
           \/ NewNetwork
           \/ Expire
           \/ RemoveAll
  BY <1>2 DEF Answer, NewNetwork, Expire, RemoveAll, rules, placing, Untouched
<1>3. CASE Tick \/ NewLists
  BY <1>3, Repicks DEF Tick, NewLists
<1>4. ASSUME NEW l \in Links, LinkStep(l)
      PROVE  Untouched \/ (Repicked /\ stopped' = stopped)
  <2>1. CASE Connect(l) \/ OldDown(l) \/ Exit(l)
    BY <2>1 DEF Connect, ConnectAs, OldDown, Exit, rules, placing, Untouched
  <2>2. CASE Stand(l)
    <3>1. links' = [links EXCEPT ![l].stood = TRUE]
      BY <2>2 DEF Stand
    <3>2. \A k \in Links :
          /\ links'[k].iface = links[k].iface
          /\ links'[k].health = links[k].health
          /\ links'[k].works = links[k].works
      BY <3>1 DEF Inv, TypeOK, LinkStates
    <3> QED
      BY <2>2, <3>2 DEF Stand, rules, placing, Untouched
  <2>3. CASE \/ Check(l)
             \/ LetOut(l)
             \/ ConnectFails(l)
             \/ Raised(l)
             \/ Down(l)
    BY <2>3, Repicks DEF Check, LetOut, ConnectFails, Raised, Down, Publish
  <2> QED
    BY <1>4, <2>1, <2>2, <2>3 DEF LinkStep
<1> QED
  BY <1>1, <1>2, <1>3, <1>4 DEF Next

CarryInv == OwnTunnels /\ RulesCarried

LEMMA CarryStep == Inv /\ Inv' /\ CarryInv /\ [Next]_vars => CarryInv'
<1> SUFFICES ASSUME Inv, Inv', CarryInv, [Next]_vars PROVE CarryInv'
  OBVIOUS
<1>1. CASE Repicked /\ stopped' = stopped
  BY <1>1, RepickedOwn, RepickedCarried DEF CarryInv, Inv, TypeOK
<1>2. CASE Untouched
  <2>1. OwnTunnels'
    BY <1>2 DEF OwnTunnels, Untouched, CarryInv
  <2>2. Carrying(links') = Carrying(links)
    BY <1>2 DEF Untouched, Carrying, Fit, Good, HasIface
  <2>3. RulesCarried'
    <3> SUFFICES ASSUME NEW r \in active', NEW l \in Links,
                        l \in Carrying(links'), l \in Range(Order[r]), ~stopped'
                 PROVE  /\ current'[r] # NoLink
                        /\ \/ current'[r] \in Carrying(links')
                           \/ HasIface(links'[current'[r]]) /\ links'[current'[r]].works
      BY DEF RulesCarried
    <3>1. /\ current[r] # NoLink
          /\ \/ current[r] \in Carrying(links)
             \/ HasIface(links[current[r]]) /\ links[current[r]].works
      BY <1>2, <2>2 DEF RulesCarried, Untouched, CarryInv
    <3>2. current[r] \in Links
      BY <1>2, <3>1 DEF Inv, TypeOK, Untouched
    <3> QED
      BY <1>2, <2>2, <3>1, <3>2 DEF Untouched, HasIface
  <2> QED
    BY <2>1, <2>3 DEF CarryInv
<1> QED
  BY <1>1, <1>2, Steps

LEMMA CarryHolds == Spec => []CarryInv
<1>1. Init => CarryInv
  <2> SUFFICES ASSUME Init PROVE CarryInv
    OBVIOUS
  <2>1. OwnTunnels
    BY DEF Init, OwnTunnels
  <2>2. Carrying(links) = {}
    BY DEF Init, Carrying, Fit, Good, HasIface
  <2> QED
    BY <2>1, <2>2 DEF RulesCarried, CarryInv
<1> QED
  BY <1>1, CarryStep, InvHolds, PTL DEF Spec

(* No rule in force stays on a dead tunnel next to one of its own that     *)
(* carries, whatever the links tell and in whatever order.                 *)
THEOREM RulesAlwaysCarried == Spec => []RulesCarried
BY CarryHolds, PTL DEF CarryInv

LEMMA StaysStep ==
    ASSUME Inv, Inv', OwnTunnels, [Next]_vars, NEW r \in active',
           current[r] \in Carrying(links'), current'[r] # current[r]
    PROVE  current'[r] \in Stood(links') \cap Before(Order[r], current[r])
<1>1. Repicked
  BY Steps DEF Untouched
<1>2. r \in Rules /\ Order[r] \in Seq(Links) /\ links' \in [Links -> LinkStates]
  BY RulesAssumption DEF Inv, TypeOK
<1>3. current'[r] = Pick(links', Order[r], current[r])
  BY <1>1, <1>2 DEF Repicked, NewCurrent
<1>4. current[r] \in Links /\ Fit(links'[current[r]])
  BY DEF Carrying
<1>5. current[r] \in Range(Order[r])
  BY <1>2, <1>4, LinksAssumption DEF OwnTunnels
<1>6. PICK i \in DOMAIN Order[r] : Order[r][i] = current[r]
  BY <1>5 DEF Range
<1>7. current'[r] \in Before(Order[r], current[r]) /\ Settled(links'[current'[r]])
  BY <1>2, <1>3, <1>4, <1>6, PickKeepsFit
<1>8. current'[r] \in Links
  BY <1>2, <1>7 DEF Before
<1> QED
  BY <1>7, <1>8 DEF Stood

(* A rule leaves a tunnel that carries only for an earlier one of its      *)
(* order that has carried for RETURN.                                      *)
THEOREM StaysCorrect == Spec => StaysWithCarrying
<1>1. Inv /\ Inv' /\ OwnTunnels /\ [Next]_vars =>
        [\A r \in active' :
            current[r] \in Carrying(links') /\ current'[r] # current[r] =>
                current'[r] \in Stood(links') \cap Before(Order[r], current[r])]_vars
  BY StaysStep
<1> QED
  BY <1>1, InvHolds, CarryHolds, PTL DEF Spec, StaysWithCarrying, CarryInv

-----------------------------------------------------------------------------
(* Hosts and their routes.                                                 *)

(* Where it holds: no tunnel is replaced while its interface stands, no    *)
(* call fails but on an interface that is gone, no list names an address.  *)
Calm ==
    /\ ~Handover
    /\ ~RouteMayFail
    /\ Addrs \cap Subnets = {}

(* A link tells of the interface it holds, by its number.                  *)
LinksTell ==
    \A l \in Links :
        /\ links[l].iface = tunnel[l]
        /\ stage[l] # "handing"
        /\ tunnel[l] # NoIface =>
              /\ stage[l] = "idle"
              /\ generation[l] = tunnel[l]
              /\ links[l].generation = tunnel[l]

(* No number is given twice.                                               *)
Distinct ==
    \A l, k \in Links :
        generation[l] = generation[k] /\ generation[l] # 0 => l = k

(* A mark is the number of the interface its route leads to, while that    *)
(* stands; and of none that is still to come.                              *)
Mark(a) == hosts[a].placed[2]
Marked(a) == hosts[a].placed # Nowhere
Marks ==
    \A a \in Addrs : Marked(a) =>
        /\ Mark(a) \in 1 .. seq
        /\ \A l \in Links : stage[l] \in {"resolving", "raising"} => Mark(a) # generation[l]
        /\ route[a] = IF Mark(a) \in ifaces THEN Mark(a) ELSE NoIface

(* Each host has the mark of the tunnel it should be in. *)
MarkedRight ==
    \A a \in Addrs :
        Known(a) /\ Live(Targets[hosts[a].rule]) /\ ~stopped =>
            hosts[a].placed = Placed(Targets[hosts[a].rule])

LEMMA LinksTellStep ==
    ASSUME Calm, Inv, LinksTell, Distinct, [Next]_vars
    PROVE  LinksTell' /\ Distinct'
<1> USE DEF Calm
<1>1. CASE UNCHANGED vars
  BY <1>1 DEF vars, connecting, LinksTell, Distinct
<1>2. CASE \/ \E r \in Rules : Answer(r)
           \/ Tick
           \/ NewNetwork
           \/ NewLists
           \/ Expire
           \/ RemoveAll
  BY <1>2 DEF Answer, Tick, NewNetwork, NewLists, Expire, RemoveAll, connecting,
              LinksTell, Distinct
<1>3. ASSUME NEW l \in Links, LinkStep(l)
      PROVE  LinksTell' /\ Distinct'
  <2> USE DEF Inv, TypeOK
  <2>1. ASSUME NEW health, NEW works, NEW stood, NEW endpoint,
               Publish(l, health, works, stood, endpoint)
        PROVE  /\ links'[l].iface = tunnel'[l]
               /\ links'[l].generation = generation'[l]
               /\ \A k \in Links \ {l} : links'[k] = links[k]
    BY <2>1 DEF Publish
  <2>2. CASE Check(l)
    <3>1. generation' = generation /\ tunnel' = tunnel /\ stage' = stage
      BY <2>2 DEF Check, connecting
    <3>2. /\ links'[l].iface = tunnel'[l]
          /\ links'[l].generation = generation'[l]
          /\ \A k \in Links \ {l} : links'[k] = links[k]
      BY <2>1, <2>2 DEF Check
    <3> QED
      BY <3>1, <3>2 DEF LinksTell, Distinct
  <2>3. CASE Stand(l)
    <3>1. generation' = generation /\ tunnel' = tunnel /\ stage' = stage
      BY <2>3 DEF Stand, connecting
    <3>2. \A k \in Links :
            links'[k].iface = links[k].iface /\ links'[k].generation = links[k].generation
      BY <2>3 DEF Stand, LinkStates
    <3> QED
      BY <3>1, <3>2 DEF LinksTell, Distinct
  <2>4. CASE Connect(l)
    <3>1. /\ links' = links /\ tunnel' = tunnel
          /\ tunnel[l] = NoIface
          /\ generation' = [generation EXCEPT ![l] = seq + 1]
          /\ stage' = [stage EXCEPT ![l] = "resolving"]
      BY <2>4 DEF Connect, ConnectAs
    <3>2. \A k \in Links : generation[k] # seq + 1
      BY DEF Numbers
    <3> QED
      BY <3>1, <3>2 DEF LinksTell, Distinct
  <2>5. CASE LetOut(l) \/ ConnectFails(l)
    <3>1. /\ generation' = generation /\ tunnel' = tunnel
          /\ stage[l] \in {"resolving", "raising"}
          /\ \/ stage' = [stage EXCEPT ![l] = "raising"]
             \/ stage' = [stage EXCEPT ![l] = "idle"]
      BY <2>5 DEF LetOut, ConnectFails
    <3>2. /\ links'[l].iface = tunnel'[l]
          /\ \A k \in Links \ {l} : links'[k] = links[k]
      BY <2>1, <2>5 DEF LetOut, ConnectFails
    <3>3. tunnel[l] = NoIface
      BY <3>1 DEF LinksTell
    <3> QED
      BY <3>1, <3>2, <3>3 DEF LinksTell, Distinct
  <2>6. CASE Raised(l)
    <3>1. tunnel[l] = NoIface
      BY <2>6 DEF LinksTell, Raised
    <3>2. /\ generation' = generation
          /\ tunnel' = [tunnel EXCEPT ![l] = generation[l]]
          /\ stage' = [stage EXCEPT ![l] = "idle"]
      BY <2>6, <3>1 DEF Raised
    <3>3. /\ links'[l].iface = tunnel'[l]
          /\ links'[l].generation = generation'[l]
          /\ \A k \in Links \ {l} : links'[k] = links[k]
      BY <2>1, <2>6 DEF Raised
    <3> QED
      BY <3>2, <3>3 DEF LinksTell, Distinct
  <2>7. CASE OldDown(l)
    BY <2>7 DEF OldDown, LinksTell
  <2>8. CASE Exit(l)
    BY <2>8 DEF Exit, connecting, LinksTell, Distinct
  <2>9. CASE Down(l)
    <3>1. /\ generation' = generation /\ stage' = stage
          /\ tunnel' = [tunnel EXCEPT ![l] = NoIface]
      BY <2>9 DEF Down
    <3>2. /\ links'[l].iface = tunnel'[l]
          /\ \A k \in Links \ {l} : links'[k] = links[k]
      BY <2>1, <2>9 DEF Down
    <3> QED
      BY <3>1, <3>2 DEF LinksTell, Distinct
  <2> QED
    BY <1>3, <2>2, <2>3, <2>4, <2>5, <2>6, <2>7, <2>8, <2>9 DEF LinkStep
<1> QED
  BY <1>1, <1>2, <1>3 DEF Next

(* The target of a rule, told soundly, is the interface of its number.     *)
LEMMA TargetNumber ==
    Inv /\ LinksTell =>
        \A r \in Rules : Targets[r] # NoTarget =>
            /\ current[r] \in Links
            /\ Targets[r].iface = Targets[r].generation
            /\ Targets[r].iface = generation[current[r]]
            /\ stage[current[r]] = "idle"
            /\ Targets[r].iface # NoIface
            /\ Placed(Targets[r])[2] = Targets[r].iface
            /\ Placed(Targets[r]) # Nowhere
<1> SUFFICES ASSUME Inv, LinksTell, NEW r \in Rules, Targets[r] # NoTarget
             PROVE  /\ current[r] \in Links
                    /\ Targets[r].iface = Targets[r].generation
                    /\ Targets[r].iface = generation[current[r]]
                    /\ stage[current[r]] = "idle"
                    /\ Targets[r].iface # NoIface
                    /\ Placed(Targets[r])[2] = Targets[r].iface
                    /\ Placed(Targets[r]) # Nowhere
  OBVIOUS
<1>1. /\ current[r] \in Links
      /\ Targets[r].link = current[r]
      /\ Targets[r].generation = links[current[r]].generation
      /\ Targets[r].iface = links[current[r]].iface
      /\ Targets[r].iface # NoIface
  BY TargetsTyped DEF TargetsSound, Decides, Inv, TypeOK
<1>2. /\ Targets[r].iface = Targets[r].generation
      /\ Targets[r].iface = generation[current[r]]
      /\ stage[current[r]] = "idle"
  BY <1>1 DEF LinksTell
<1>3. Placed(Targets[r])[2] = Targets[r].iface
  BY <1>2 DEF Placed
<1>4. Placed(Targets[r]) # Nowhere
  BY <1>1, LinksAssumption DEF Placed, Nowhere
<1> QED
  BY <1>1, <1>2, <1>3, <1>4

LEMMA TargetNumberNext ==
    Inv' /\ LinksTell' =>
        \A r \in Rules : Targets'[r] # NoTarget =>
            /\ current'[r] \in Links
            /\ Targets'[r].iface = Targets'[r].generation
            /\ Targets'[r].iface = generation'[current'[r]]
            /\ stage'[current'[r]] = "idle"
            /\ Targets'[r].iface # NoIface
            /\ Placed(Targets'[r])[2] = Targets'[r].iface
            /\ Placed(Targets'[r]) # Nowhere
<1>1. (Inv /\ LinksTell =>
        \A r \in Rules : Targets[r] # NoTarget =>
            /\ current[r] \in Links
            /\ Targets[r].iface = Targets[r].generation
            /\ Targets[r].iface = generation[current[r]]
            /\ stage[current[r]] = "idle"
            /\ Targets[r].iface # NoIface
            /\ Placed(Targets[r])[2] = Targets[r].iface
            /\ Placed(Targets[r]) # Nowhere)'
  BY TargetNumber, PTL
<1> QED
  BY <1>1 DEF Placed

(* What a step may do to one host.                                         *)
Stays(a) ==
    /\ hosts'[a] = hosts[a]
    /\ route'[a] = Lasting[a]
PlacedNow(a, rule, target) ==
    /\ target # NoTarget
    /\ target.iface \in ifaces'
    /\ hosts'[a] = [rule |-> rule, placed |-> Placed(target)]
    /\ route'[a] = target.iface

LEMMA ReconcileHosts ==
    ASSUME Calm, Inv, Reconcile, ~stopped, NEW a \in Addrs
    PROVE  \/ hosts'[a] = None
           \/ Known(a) /\ PlacedNow(a, hosts[a].rule, Targets'[hosts[a].rule])
           \/ Stays(a) /\ (Moved(a) => Targets'[hosts[a].rule].iface \notin ifaces')
                       /\ ~Dropped(a)
<1>1. PICK failed \in SUBSET Calls : \E lost \in SUBSET failed :
           /\ MayFail(failed, lost, PutsOnGone)
           /\ hosts' = [b \in Addrs |-> NewHost(b, failed)]
           /\ subnets' = [s \in Subnets |-> NewSubnet(s, failed)]
           /\ route' = [d \in Dsts |->
                 LET was == IF d \in Addrs THEN HostRoute(d, failed, lost) ELSE Lasting[d]
                 IN  IF d \in Subnets THEN SubnetRoute(d, was, failed, lost) ELSE was]
  BY DEF Reconcile
<1>2. failed = PutsOnGone
  BY <1>1 DEF MayFail, Calm
<1>3. /\ hosts'[a] = NewHost(a, failed)
      /\ route'[a] = HostRoute(a, failed, {})
  BY <1>1 DEF MayFail, Calm, Dsts
<1>4. HostCall(a) \in failed <=> (Moved(a) /\ Targets'[hosts[a].rule].iface \notin ifaces')
  BY <1>2 DEF PutsOnGone, HostCall, SubnetCall
<1>5. hosts[a] \in Held
  BY DEF Inv, TypeOK
<1>6. CASE Dropped(a)
  BY <1>3, <1>6 DEF NewHost
<1>7. CASE ~Dropped(a) /\ Moved(a) /\ HostCall(a) \notin failed
  <2>1. hosts'[a] = [hosts[a] EXCEPT !.placed = Placed(Targets'[hosts[a].rule])]
    BY <1>3, <1>7 DEF NewHost
  <2>2. route'[a] = Targets'[hosts[a].rule].iface
    BY <1>3, <1>7 DEF HostRoute, Put
  <2> QED
    BY <1>4, <1>5, <1>7, <2>1, <2>2 DEF PlacedNow, Moved, Held
<1>8. CASE ~Dropped(a) /\ ~(Moved(a) /\ HostCall(a) \notin failed)
  <2>1. hosts'[a] = hosts[a]
    BY <1>3, <1>8 DEF NewHost
  <2>2. route'[a] = Lasting[a]
    BY <1>3, <1>8 DEF HostRoute, Put
  <2> QED
    BY <1>4, <1>8, <2>1, <2>2 DEF Stays
<1> QED
  BY <1>6, <1>7, <1>8

(* A host that stays where it is: nothing says it should be elsewhere.     *)
RightStill(a) ==
    \/ Targets' = Targets /\ stopped' = stopped
    \/ stopped'
    \/ Known(a) /\ Targets'[hosts[a].rule] # NoTarget
                /\ Targets'[hosts[a].rule].iface \in ifaces' =>
          hosts[a].placed = Placed(Targets'[hosts[a].rule])

HostStep(a) ==
    \/ hosts'[a].placed = Nowhere /\ (hosts'[a].rule = NoRule \/ stopped')
    \/ \E r \in Rules : PlacedNow(a, r, Targets'[r])
    \/ Stays(a) /\ RightStill(a)

LEMMA ReconcileStep ==
    ASSUME Calm, Inv, Reconcile, stopped' = stopped, NEW a \in Addrs
    PROVE  HostStep(a)
<1>1. CASE stopped
  BY <1>1 DEF Reconcile, placing, HostStep, Stays, RightStill
<1>2. CASE ~stopped
  <2>1. hosts[a] \in Held
    BY DEF Inv, TypeOK
  <2>2. CASE hosts'[a] = None
    BY <2>2 DEF HostStep, None
  <2>3. CASE Known(a) /\ PlacedNow(a, hosts[a].rule, Targets'[hosts[a].rule])
    BY <2>1, <2>3 DEF HostStep, Known, Held
  <2>4. CASE Stays(a) /\ (Moved(a) => Targets'[hosts[a].rule].iface \notin ifaces')
                      /\ ~Dropped(a)
    <3>1. Known(a) /\ Targets'[hosts[a].rule] # NoTarget
                   /\ Targets'[hosts[a].rule].iface \in ifaces'
             => hosts[a].placed = Placed(Targets'[hosts[a].rule])
      BY <2>4 DEF Moved
    <3> QED
      BY <2>4, <3>1 DEF HostStep, RightStill
  <2> QED
    BY <1>2, <2>2, <2>3, <2>4, ReconcileHosts
<1> QED
  BY <1>1, <1>2

LEMMA SameIfaces ==
    ASSUME Inv, NEW a \in Addrs, ifaces' = ifaces
    PROVE  Lasting[a] = route[a]
BY DEF Inv, TypeOK, Lasting, Dsts

LEMMA SameTargets ==
    ASSUME UNCHANGED current,
           \A r \in Rules : current[r] = NoLink \/
              /\ links'[current[r]].iface = links[current[r]].iface
              /\ links'[current[r]].generation = links[current[r]].generation
    PROVE  Targets' = Targets
BY DEF Targets, HasIface

LEMMA HostSteps ==
    ASSUME Calm, Inv, LinksTell, [Next]_vars, NEW a \in Addrs
    PROVE  HostStep(a)
<1> USE DEF Calm
<1>1. CASE UNCHANGED vars
  <2>1. Targets' = Targets
    BY <1>1, SameTargets DEF vars, placing
  <2> QED
    BY <1>1, <2>1, SameIfaces DEF vars, placing, kernel, HostStep, Stays, RightStill
<1>2. ASSUME NEW r \in Rules, Answer(r)
      PROVE  HostStep(a)
  <2>1. Targets' = Targets /\ ifaces' = ifaces /\ stopped' = stopped
    BY <1>2, SameTargets DEF Answer
  <2>2. PICK done \in SUBSET Addrs, lost \in SUBSET Addrs :
           /\ Targets[r].iface \notin ifaces => done = {}
           /\ hosts' = [b \in Addrs |->
                  IF b \in done THEN [rule |-> r, placed |-> Placed(Targets[r])]
                  ELSE hosts[b]]
           /\ route' = [d \in Dsts |->
                  IF d \in done THEN Targets[r].iface
                  ELSE IF d \in lost THEN NoIface ELSE route[d]]
           /\ lost # {} => RouteMayFail
    BY <1>2, AnswerRoutes
  <2>3. CASE a \in done
    <3>1. /\ Targets[r].iface \in ifaces
          /\ hosts'[a] = [rule |-> r, placed |-> Placed(Targets[r])]
          /\ route'[a] = Targets[r].iface
      BY <2>2, <2>3 DEF Dsts
    <3>2. Targets[r] # NoTarget
      BY <1>2 DEF Answer
    <3> QED
      BY <2>1, <3>1, <3>2 DEF HostStep, PlacedNow
  <2>4. CASE a \notin done
    <3>1. hosts'[a] = hosts[a] /\ route'[a] = route[a]
      BY <2>2, <2>4 DEF Dsts
    <3> QED
      BY <2>1, <3>1, SameIfaces DEF HostStep, Stays, RightStill
  <2> QED
    BY <2>3, <2>4
<1>3. CASE Tick \/ NewLists
  BY <1>3, ReconcileStep DEF Tick, NewLists
<1>4. CASE NewNetwork
  <2>1. Targets' = Targets
    BY <1>4, SameTargets DEF NewNetwork, placing
  <2> QED
    BY <1>4, <2>1, SameIfaces DEF NewNetwork, placing, kernel, HostStep, Stays, RightStill
<1>5. CASE Expire
  <2>1. PICK gone \in SUBSET Addrs, failed \in SUBSET Calls :
           /\ hosts' = [b \in Addrs |-> IF b \in gone THEN None ELSE hosts[b]]
           /\ route' = Unrouted(gone, failed)
    BY <1>5 DEF Expire
  <2>2. Targets' = Targets /\ ifaces' = ifaces /\ stopped' = stopped
    BY <1>5, SameTargets DEF Expire
  <2>3. CASE a \in gone
    BY <2>1, <2>3 DEF HostStep, None
  <2>4. CASE a \notin gone
    <3>1. hosts'[a] = hosts[a] /\ route'[a] = route[a]
      BY <2>1, <2>4 DEF Unrouted, Dsts
    <3> QED
      BY <2>2, <3>1, SameIfaces DEF HostStep, Stays, RightStill
  <2> QED
    BY <2>3, <2>4
<1>6. CASE RemoveAll
  <2>1. hosts[a] \in Held
    BY DEF Inv, TypeOK
  <2> QED
    BY <1>6, <2>1 DEF RemoveAll, HostStep, Held
<1>7. ASSUME NEW l \in Links, LinkStep(l)
      PROVE  HostStep(a)
  <2>1. CASE Check(l) \/ LetOut(l) \/ ConnectFails(l) \/ Raised(l) \/ Down(l)
    BY <2>1, ReconcileStep DEF Check, LetOut, ConnectFails, Raised, Down, Publish
  <2>2. CASE Connect(l)
    <3>1. Targets' = Targets
      BY <2>2, SameTargets DEF Connect, ConnectAs, placing
    <3> QED
      BY <2>2, <3>1, SameIfaces DEF Connect, ConnectAs, placing, kernel, HostStep, Stays,
         RightStill
  <2>3. CASE Stand(l)
    <3>1. \A k \in Links :
            links'[k].iface = links[k].iface /\ links'[k].generation = links[k].generation
      BY <2>3 DEF Stand, Inv, TypeOK, LinkStates
    <3>2. Targets' = Targets
      BY <2>3, <3>1, SameTargets DEF Stand, placing, Inv, TypeOK
    <3> QED
      BY <2>3, <3>2, SameIfaces DEF Stand, placing, kernel, HostStep, Stays, RightStill
  <2>4. CASE OldDown(l)
    BY <2>4 DEF OldDown, LinksTell
  <2>5. CASE Exit(l)
    <3>1. Targets' = Targets
      BY <2>5, SameTargets DEF Exit, placing
    <3> QED
      BY <2>5, <3>1 DEF Exit, placing, HostStep, Stays, RightStill, Dsts
  <2> QED
    BY <1>7, <2>1, <2>2, <2>3, <2>4, <2>5 DEF LinkStep
<1> QED
  BY <1>1, <1>2, <1>3, <1>4, <1>5, <1>6, <1>7 DEF Next

(* Only a tunnel that comes up brings an interface, and only a connect     *)
(* takes a number.                                                         *)
LEMMA NumbersStep ==
    ASSUME Inv, [Next]_vars
    PROVE  /\ seq <= seq'
           /\ \A g \in ifaces' \ ifaces :
                 \E l \in Links : stage[l] = "raising" /\ g = generation[l]
           /\ \A l \in Links : stage'[l] \in {"resolving", "raising"} =>
                 \/ generation'[l] = seq + 1
                 \/ /\ stage[l] \in {"resolving", "raising"}
                    /\ generation'[l] = generation[l]
<1> USE DEF Inv, TypeOK
<1>1. CASE UNCHANGED vars
  BY <1>1 DEF vars, connecting, kernel
<1>2. CASE \/ \E r \in Rules : Answer(r)
           \/ Tick
           \/ NewNetwork
           \/ NewLists
           \/ Expire
           \/ RemoveAll
  BY <1>2 DEF Answer, Tick, NewNetwork, NewLists, Expire, RemoveAll, connecting, kernel
<1>3. ASSUME NEW l \in Links, LinkStep(l)
      PROVE  /\ seq <= seq'
             /\ \A g \in ifaces' \ ifaces :
                   \E k \in Links : stage[k] = "raising" /\ g = generation[k]
             /\ \A k \in Links : stage'[k] \in {"resolving", "raising"} =>
                   \/ generation'[k] = seq + 1
                   \/ /\ stage[k] \in {"resolving", "raising"}
                      /\ generation'[k] = generation[k]
  <2>1. CASE Check(l) \/ Stand(l) \/ Exit(l)
    BY <2>1 DEF Check, Stand, Exit, connecting, kernel
  <2>2. CASE Connect(l)
    BY <2>2 DEF Connect, ConnectAs, kernel
  <2>3. CASE LetOut(l)
    BY <2>3 DEF LetOut
  <2>4. CASE ConnectFails(l)
    BY <2>4 DEF ConnectFails
  <2>5. CASE Raised(l)
    BY <2>5 DEF Raised
  <2>6. CASE OldDown(l)
    BY <2>6 DEF OldDown
  <2>7. CASE Down(l)
    BY <2>7 DEF Down
  <2> QED
    BY <1>3, <2>1, <2>2, <2>3, <2>4, <2>5, <2>6, <2>7 DEF LinkStep
<1> QED
  BY <1>1, <1>2, <1>3 DEF Next

HostInv == LinksTell /\ Distinct /\ Marks /\ MarkedRight

LEMMA MarksStep ==
    ASSUME Calm, Inv, Inv', HostInv, LinksTell', Distinct', [Next]_vars
    PROVE  Marks'
<1> SUFFICES ASSUME NEW a \in Addrs, hosts'[a].placed # Nowhere
             PROVE  LET g == hosts'[a].placed[2]
                    IN  /\ g \in 1 .. seq'
                        /\ \A l \in Links :
                              stage'[l] \in {"resolving", "raising"} => g # generation'[l]
                        /\ route'[a] = IF g \in ifaces' THEN g ELSE NoIface
  BY DEF Marks, Marked, Mark
<1> DEFINE g == hosts'[a].placed[2]
<1>1. seq \in Nat /\ seq' \in Nat /\ ifaces' \subseteq 1 .. seq'
  BY DEF Inv, TypeOK
<1>2. CASE \E r \in Rules : PlacedNow(a, r, Targets'[r])
  <2>1. PICK r \in Rules : PlacedNow(a, r, Targets'[r])
    BY <1>2
  <2> DEFINE t == Targets'[r]
  <2>2. t # NoTarget /\ t.iface \in ifaces' /\ route'[a] = t.iface
        /\ hosts'[a].placed = Placed(t)
    BY <2>1 DEF PlacedNow
  <2>3. /\ current'[r] \in Links
        /\ t.iface = generation'[current'[r]]
        /\ stage'[current'[r]] = "idle"
        /\ t.iface # NoIface
        /\ g = t.iface
    BY <2>2, TargetNumberNext
  <2>4. \A l \in Links : stage'[l] \in {"resolving", "raising"} => g # generation'[l]
    BY <2>3 DEF Distinct, NoIface
  <2> QED
    BY <1>1, <2>2, <2>3, <2>4
<1>3. CASE Stays(a)
  <2>1. g = Mark(a) /\ Marked(a) /\ route'[a] = Lasting[a]
    BY <1>3 DEF Stays, Mark, Marked
  <2>2. /\ g \in 1 .. seq
        /\ \A l \in Links : stage[l] \in {"resolving", "raising"} => g # generation[l]
        /\ route[a] = IF g \in ifaces THEN g ELSE NoIface
    BY <2>1 DEF HostInv, Marks
  <2>3. g \in 1 .. seq' /\ g # seq + 1
    BY <1>1, <2>2, NumbersStep
  <2>4. \A l \in Links : stage'[l] \in {"resolving", "raising"} => g # generation'[l]
    BY <2>2, <2>3, NumbersStep
  <2>5. g \in ifaces' => g \in ifaces
    BY <2>2, NumbersStep
  <2>6. NoIface \notin ifaces'
    BY <1>1 DEF NoIface
  <2>7. route'[a] = IF g \in ifaces' THEN g ELSE NoIface
    BY <2>1, <2>2, <2>5, <2>6 DEF Lasting, Dsts
  <2> QED
    BY <2>3, <2>4, <2>7
<1> QED
  BY <1>2, <1>3, HostSteps DEF HostStep, HostInv

LEMMA MarkedRightStep ==
    ASSUME Calm, Inv, Inv', HostInv, LinksTell', [Next]_vars
    PROVE  MarkedRight'
<1> SUFFICES ASSUME NEW a \in Addrs,
                    hosts'[a].rule # NoRule,
                    Targets'[hosts'[a].rule] # NoTarget,
                    Targets'[hosts'[a].rule].iface \in ifaces',
                    ~stopped'
             PROVE  hosts'[a].placed = Placed(Targets'[hosts'[a].rule])
  BY DEF MarkedRight, Known, Live, Placed
<1>1. hosts'[a].rule \in Rules
  BY DEF Inv, TypeOK, Held
<1>2. CASE \E r \in Rules : PlacedNow(a, r, Targets'[r])
  BY <1>2 DEF PlacedNow
<1>3. CASE Stays(a) /\ RightStill(a)
  <2> DEFINE r == hosts[a].rule
  <2>1. hosts'[a] = hosts[a] /\ r \in Rules /\ Known(a)
    BY <1>1, <1>3 DEF Stays, Known
  <2>2. CASE Targets' = Targets /\ stopped' = stopped
    <3>1. Targets[r] # NoTarget /\ Targets[r].iface \in ifaces'
      BY <2>1, <2>2
    <3>2. /\ current[r] \in Links
          /\ Targets[r].iface = generation[current[r]]
          /\ stage[current[r]] = "idle"
          /\ Targets[r].iface # NoIface
      BY <2>1, <3>1, TargetNumber DEF HostInv
    <3>3. ASSUME Targets[r].iface \notin ifaces
          PROVE  FALSE
      <4>1. PICK l \in Links : stage[l] = "raising" /\ Targets[r].iface = generation[l]
        BY <3>1, <3>3, NumbersStep
      <4>2. l = current[r]
        BY <3>2, <4>1 DEF HostInv, Distinct, NoIface
      <4> QED
        BY <3>2, <4>1, <4>2
    <3>4. hosts[a].placed = Placed(Targets[r])
      BY <2>1, <2>2, <3>1, <3>3 DEF HostInv, MarkedRight, Live
    <3> QED
      BY <2>1, <2>2, <3>4
  <2>3. CASE ~(Targets' = Targets /\ stopped' = stopped)
    BY <1>3, <2>1, <2>3 DEF RightStill
  <2> QED
    BY <2>2, <2>3
<1> QED
  BY <1>2, <1>3, HostSteps DEF HostStep, HostInv

LEMMA HostInvInit == Calm /\ Init => HostInv
<1> SUFFICES ASSUME Init PROVE HostInv
  OBVIOUS
<1>1. LinksTell /\ Distinct
  BY DEF Init, LinksTell, Distinct, NoIface
<1>2. \A a \in Addrs : hosts[a].placed = Nowhere
  BY DEF Init
<1>3. Marks
  BY <1>2 DEF Marks, Marked
<1>4. \A r \in Rules : Targets[r] = NoTarget
  BY DEF Init, Targets
<1>5. \A a \in Addrs : Known(a) => hosts[a].rule \in Rules
  BY DEF Init, Known
<1>6. MarkedRight
  BY <1>4, <1>5 DEF MarkedRight, Live
<1> QED
  BY <1>1, <1>3, <1>6 DEF HostInv

LEMMA HostInvStep == Calm /\ Inv /\ Inv' /\ HostInv /\ [Next]_vars => HostInv'
<1> SUFFICES ASSUME Calm, Inv, Inv', HostInv, [Next]_vars PROVE HostInv'
  OBVIOUS
<1>1. LinksTell' /\ Distinct'
  BY LinksTellStep DEF HostInv
<1>2. Marks'
  BY <1>1, MarksStep
<1>3. MarkedRight'
  BY <1>1, MarkedRightStep
<1> QED
  BY <1>1, <1>2, <1>3 DEF HostInv

LEMMA MarkedInLine == Inv /\ HostInv => HostsInLine
<1> SUFFICES ASSUME Inv, HostInv, NEW a \in Addrs,
                    Known(a), Live(Targets[hosts[a].rule]), ~stopped
             PROVE  /\ hosts[a].placed = Placed(Targets[hosts[a].rule])
                    /\ route[a] = Targets[hosts[a].rule].iface
  BY DEF HostsInLine
<1> DEFINE t == Targets[hosts[a].rule]
<1>1. hosts[a].rule \in Rules
  BY DEF Inv, TypeOK, Held, Known
<1>2. hosts[a].placed = Placed(t)
  BY DEF HostInv, MarkedRight
<1>3. Mark(a) = t.iface /\ Marked(a)
  BY <1>1, <1>2, TargetNumber DEF HostInv, Live, Mark, Marked
<1>4. route[a] = t.iface
  BY <1>3 DEF HostInv, Marks, Live
<1> QED
  BY <1>2, <1>4

(* With calls that fail only on an interface that is gone and no tunnel    *)
(* replaced while its interface stands, every host of a rule whose tunnel  *)
(* stands is routed into it: the mark the resolver compares (route_host,   *)
(* place_hosts) never outlives the route it stands for.                    *)
THEOREM HostsAlwaysInLine ==
    ASSUME Calm
    PROVE  Spec => []HostsInLine
<1>1. Init => HostInv
  BY HostInvInit
<1>2. Inv /\ Inv' /\ HostInv /\ [Next]_vars => HostInv'
  BY HostInvStep
<1> QED
  BY <1>1, <1>2, InvHolds, MarkedInLine, PTL DEF Spec
=============================================================================
