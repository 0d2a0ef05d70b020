-------------------------------- MODULE Link --------------------------------
(***************************************************************************)
(* The task of one tunnel: link.rs, with the patience of degraded.rs.  It  *)
(* raises the tunnel, confirms it, checks it, gives it up or leaves it     *)
(* alone, and tells the resolver what it found.                            *)
(*                                                                         *)
(* A step below is what the task does from one await that matters to the   *)
(* next: Tunnel::up, the probes, and the wait of run for the next tick.    *)
(* What the watch tells of wakes and the tracker of networks, the process  *)
(* of the tunnel and the clock move at any time in between.  Whether a     *)
(* rule takes the tunnel, and whether the daemon stops, the task reads at  *)
(* the start of a step and nowhere else: each step may be either.          *)
(*                                                                         *)
(* Times are what the code does with them: connect_at is never, now or     *)
(* after a pause, check_at is now or later, and time turns the later ones  *)
(* into now.  The journal, `offline` and `pending`, which only it reads,   *)
(* the lengths of the timeouts, and `since`, which is set exactly while    *)
(* the health is Up, are left out.  Which number a tunnel gets, and what   *)
(* the resolver does with it, is in Routing.                               *)
(***************************************************************************)
EXTENDS Naturals

CONSTANTS
    Networks,    \* networks the Mac may be on
    NoNetwork,
    Tunnels,     \* what tells a tunnel from the one it replaces
    NoTunnel,
    Graces,      \* settings of the patience
    GROWTH,      \* degraded::GROWTH
    FAST_TRIES   \* connects in a row without a pause

ASSUME LinkAssumption ==
    /\ NoNetwork \notin Networks
    /\ NoTunnel \notin Tunnels
    /\ Graces \subseteq Nat
    /\ GROWTH \in Nat \ {0}
    /\ FAST_TRIES \in Nat \ {0}

D == INSTANCE Degradation

VARIABLES
    me,         \* the fields of the task
    published,  \* what the resolver was told last
    pc,         \* what the task waits for
    after,      \* connect: its reconnect was made because of degradation
    asked,      \* check: what it knew beforehand (Next)
    wake,       \* the watch has told of a wake (Ctl::wakes)
    net,        \* what the network tracker last sent
    moved,      \* and the task has not seen
    exited,     \* the process of the tunnel has exited
    calm,       \* from here on nothing goes wrong any more
    tried       \* failed connects in a row without a reason to start over

vars == <<me, published, pc, after, asked, wake, net, moved, exited,
          calm, tried>>
input == <<wake, net, moved, calm>>

-----------------------------------------------------------------------------
(* The fields of the task and what its small methods make of them. *)

Healths == {"Down", "Suspect", "Degraded", "Up"}
Probing == {"confirm", "ping", "tls", "direct"}
Beforehand == {"Usual", "Cut", "Woke"}

Fields ==
    [tunnel : Tunnels \cup {NoTunnel},
     young : BOOLEAN,       \* up, or disturbed, less than YOUNG ago
     failures : 0 .. FAST_TRIES,
     connectAt : {"never", "now", "pause"},
     confirmed : BOOLEAN,
     checkAt : {"now", "later", "past young"},
     next : Beforehand,
     network : Networks \cup {NoNetwork},
     works : BOOLEAN,
     health : Healths,
     degradation : D!Degradations,
     afterDegraded : BOOLEAN,
     pinged : BOOLEAN]

(* Mutant: a change of `works` alone is not told. *)
StateWithoutWorks(m) ==
    [tunnel |-> m.tunnel, health |-> m.health, works |-> FALSE]

(* Link::state *)
State(m) == [tunnel |-> m.tunnel, health |-> m.health, works |-> m.works]

New(n, grace) ==
    [tunnel |-> NoTunnel, young |-> TRUE, failures |-> 0,
     connectAt |-> "now", confirmed |-> FALSE, checkAt |-> "now",
     next |-> "Usual", network |-> n, works |-> FALSE, health |-> "Down",
     degradation |-> D!New(grace), afterDegraded |-> FALSE,
     pinged |-> FALSE]

RetryNow(m) ==
    IF m.connectAt = "never" THEN m
    ELSE [m EXCEPT !.failures = 0, !.connectAt = "now"]

(* disturbed_at, fresh and works, which a wake and a new network share. *)
Disturbed(m) ==
    [m EXCEPT !.young = TRUE, !.checkAt = "now", !.works = TRUE]

Woke(m) == RetryNow([Disturbed(m) EXCEPT !.next = "Woke"])

FollowNetwork(m, n) ==
    LET d == [Disturbed(m) EXCEPT !.network = n]
    IN  IF n = NoNetwork THEN d ELSE RetryNow(d)

(* Mutant: a check that passes starts the attempts over. *)
HealthyAnew(m) ==
    [m EXCEPT !.degradation = D!Passed(@), !.failures = 0,
              !.checkAt = IF m.health = "Up" THEN @ ELSE "later",
              !.health = "Up"]

Healthy(m) ==
    [m EXCEPT !.degradation = D!Passed(@),
              !.checkAt = IF m.health = "Up" THEN @ ELSE "later",
              !.health = "Up"]

Unhealthy(m) == [m EXCEPT !.health = "Down"]

(* Mutant: a tunnel given up keeps its health. *)
LostQuietly(m) == [m EXCEPT !.confirmed = FALSE, !.connectAt = "now"]

Lost(m) ==
    [Unhealthy(m) EXCEPT !.confirmed = FALSE, !.connectAt = "now"]

NoLonger(m) == [m EXCEPT !.tunnel = NoTunnel, !.young = TRUE]

DownNow(m) == [Unhealthy(NoLonger(m)) EXCEPT !.confirmed = FALSE]

(* Mutant: one fast attempt more. *)
FailedUncapped(m) ==
    [Unhealthy(m) EXCEPT
        !.failures = @ + 1,
        !.connectAt = IF m.failures <= FAST_TRIES THEN "now" ELSE "pause"]

(* Link::failed: fast attempts first, then a pause before each.  The count *)
(* is kept up to FAST_TRIES, past which only the pause gets longer.        *)
Failed(m) ==
    LET failures == IF m.failures < FAST_TRIES THEN m.failures + 1
                    ELSE m.failures
    IN  [Unhealthy(m) EXCEPT
            !.failures = failures,
            !.connectAt = IF failures < FAST_TRIES THEN "now" ELSE "pause"]

(* Link::aborted *)
Aborted(m, next, n) ==
    FollowNetwork([m EXCEPT !.next = next, !.checkAt = "now"], n)

(* Not this tunnel's failure: the next one goes out on the new network. *)
ConfirmAborted(m, n) == FollowNetwork([m EXCEPT !.connectAt = "now"], n)

(* Up to the check for an exit: a wake, then a new network. *)
Followed ==
    LET w == IF wake THEN Woke(me) ELSE me
    IN  IF net # w.network THEN FollowNetwork(w, net) ELSE w

(* Mutant: the exit schedules the connect and does not give the tunnel up. *)
ExitedUnlost(m) == [NoLonger(m) EXCEPT !.connectAt = "now"]

(* The process has exited: its routes went with the interface. *)
Exited(m) ==
    IF m.connectAt = "never" THEN Lost(NoLonger(m)) ELSE NoLonger(m)

Present(m) == IF m.tunnel # NoTunnel /\ exited THEN Exited(m) ELSE m

(* Link::cut_seen: by its counters a tunnel may look cut at any time. *)
MayLookCut(m) == m.tunnel # NoTunnel /\ ~calm

(* It is looked at only while the checks are due, and the next of them     *)
(* knows nothing yet.                                                      *)
MaySuspect(m) ==
    /\ m.connectAt = "never"
    /\ m.next = "Usual"
    /\ m.health # "Degraded"
    /\ MayLookCut(m)

Suspected(m) == [m EXCEPT !.next = "Cut", !.checkAt = "now"]

(* Link::carrying: a tunnel past its young window may have a handshake and *)
(* bytes from its peer to show.                                            *)
MayCarry(m) == ~m.young

(* Link::direct may get through: there is a network. *)
MayReach(m) == m.network # NoNetwork

Connecting(m) == m.connectAt = "now"
Checking(m) == m.connectAt = "never" /\ m.checkAt = "now"

-----------------------------------------------------------------------------
Init ==
    /\ net \in Networks \cup {NoNetwork}
    /\ \E grace \in Graces : me = New(net, grace)
    /\ published = State(me)
    /\ pc = "idle"
    /\ after = FALSE
    /\ asked = "Usual"
    /\ wake = FALSE
    /\ moved = FALSE
    /\ exited = FALSE
    /\ calm = FALSE
    /\ tried = 0

(* The task's fields become m and the resolver is told (Link::sync). *)
Sync(m) ==
    /\ me' = m
    /\ published' = State(m)
    /\ exited' = (exited /\ m.tunnel = me.tunnel)

(* On to the next await, with what connect and check know beforehand. *)
Waits(where) == pc' = where /\ UNCHANGED <<after, asked>>

(* The step ends. *)
Ends(m) ==
    /\ Sync(m)
    /\ pc' = "idle"
    /\ after' = FALSE
    /\ asked' = "Usual"

(* What the history keeps of the things that start the attempts over. *)
Anew == wake \/ (net # me.network /\ net # NoNetwork)
TriedBefore == IF Anew THEN 0 ELSE tried
TriedMore(before) == IF me'.connectAt = "pause" THEN 0 ELSE before + 1

(* A step begins: what was sent is seen. *)
Begins ==
    /\ pc = "idle"
    /\ wake' = FALSE
    /\ moved' = FALSE
    /\ UNCHANGED <<net, calm>>

(* The daemon stops. *)
Stop ==
    /\ pc = "idle"
    /\ ~calm
    /\ Sync(DownNow(me))
    /\ Waits("done")
    /\ UNCHANGED <<input, tried>>

(* No rule in force takes the tunnel. *)
Unwanted ==
    /\ ~calm
    /\ Begins
    /\ LET m == IF me.tunnel # NoTunnel THEN DownNow(Followed) ELSE Followed
       IN  Ends([m EXCEPT !.connectAt = "now", !.failures = 0,
                          !.works = FALSE])
    /\ tried' = 0

(* Link::connect up to Tunnel::up: the server's address, and the resolver  *)
(* told of it, so that pf lets it out before the first packet.             *)
Connect(m) ==
    /\ Connecting(m)
    /\ LET c == [m EXCEPT !.afterDegraded = FALSE] IN
       \/ /\ ~calm
          /\ Ends(Failed(c))
          /\ tried' = TriedMore(TriedBefore)
       \/ /\ Sync(c)
          /\ pc' = "raising"
          /\ after' = m.afterDegraded
          /\ tried' = TriedBefore
          /\ UNCHANGED asked

(* Link::check up to the ping. *)
Check(m) ==
    /\ Checking(m)
    /\ LET c == [m EXCEPT !.checkAt = "later"] IN
       IF m.tunnel = NoTunnel
       THEN Ends(Lost([c EXCEPT !.works = FALSE]))
       ELSE /\ me' = [c EXCEPT !.next = "Usual"]
            /\ pc' = "ping"
            /\ asked' = m.next
            /\ UNCHANGED <<published, after, exited>>
    /\ tried' = TriedBefore

(* Nothing is due. *)
Rest(m) ==
    /\ ~Connecting(m)
    /\ ~Checking(m)
    /\ Ends(m)
    /\ tried' = TriedBefore

(* Link::step of a tunnel that is wanted. *)
Wanted ==
    /\ Begins
    /\ LET p == Present(Followed) IN
       \E m \in {p} \cup (IF MaySuspect(p) THEN {Suspected(p)} ELSE {}) :
            Connect(m) \/ Check(m) \/ Rest(m)

(* Tunnel::up has ended.  The new tunnel takes the place of the old one,   *)
(* the resolver is told, and the old one goes down.                        *)
Raised ==
    /\ pc = "raising"
    /\ \/ /\ ~calm
          /\ Ends(Failed(me))
          /\ tried' = TriedMore(tried)
       \/ /\ \E t \in Tunnels \ {me.tunnel} :
                Sync([Unhealthy(me) EXCEPT !.tunnel = t, !.young = TRUE,
                                           !.pinged = FALSE])
          /\ Waits("confirm")
          /\ UNCHANGED tried
    /\ UNCHANGED <<input>>

(* The probe of connect got through. *)
Confirmed ==
    /\ pc = "confirm"
    /\ Ends([Healthy(me) EXCEPT !.connectAt = "never", !.confirmed = TRUE,
                                !.next = "Usual", !.works = FALSE])
    /\ UNCHANGED <<input, tried>>

(* It did not, of a reconnect made because of degradation: the tunnel goes *)
(* to the checks once it is past the young window.                         *)
LeaveAlone ==
    /\ pc = "confirm"
    /\ ~calm
    /\ after
    /\ Ends([me EXCEPT !.degradation = D!Harder(@), !.connectAt = "never",
                       !.checkAt = "past young", !.next = "Usual"])
    /\ UNCHANGED <<input, tried>>

(* It did not: the usual repair. *)
Unconfirmed ==
    /\ pc = "confirm"
    /\ ~calm
    /\ ~after
    /\ Ends(Failed(me))
    /\ tried' = TriedMore(tried)
    /\ UNCHANGED <<input>>

(* A new network or a wake cuts a probe short, and what it found through a *)
(* sleep, which the task sees by its own clock, says nothing (undisturbed).*)
CutShort ==
    /\ pc \in Probing
    /\ wake \/ moved \/ ~calm
    /\ Ends(CASE pc = "confirm" -> ConfirmAborted(me, net)
            [] pc = "direct" -> Aborted(me, "Usual", net)
            [] OTHER -> Aborted(me, asked, net))
    /\ moved' = FALSE
    /\ tried' = IF net # NoNetwork THEN 0 ELSE tried
    /\ UNCHANGED <<wake, net, calm>>

(* Mutant: a check that passes leaves the disturbance unchecked. *)
PassedUnmarked(m) ==
    \E stable \in {FALSE, m.confirmed} :
        /\ Ends([Healthy(m) EXCEPT !.failures = IF stable THEN 0 ELSE @])
        /\ tried' = IF stable THEN 0 ELSE tried

(* A check got through.  The attempts start over once a tunnel has stood   *)
(* for STABLE, which time decides.                                         *)
Passed(m) ==
    \E stable \in {FALSE, m.confirmed} :
        /\ Ends([Healthy(m) EXCEPT !.works = FALSE,
                                   !.failures = IF stable THEN 0 ELSE @])
        /\ tried' = IF stable THEN 0 ELSE tried

(* The probes found nothing.  What the tunnel says of itself, when it is   *)
(* past its young window, tells degraded from down.                        *)
Silent ==
    LET s == [me EXCEPT !.works = FALSE]
        kept == [s EXCEPT !.degradation = D!Carrying(@)]
    IN  \/ /\ MayCarry(me)
           /\ D!Left(me.degradation)
           /\ Ends([kept EXCEPT !.health = "Degraded"])
        \/ /\ MayCarry(me)
           /\ ~D!Left(me.degradation)
           /\ Ends(Lost([kept EXCEPT !.afterDegraded = TRUE]))
        \/ /\ Sync(Unhealthy([s EXCEPT !.degradation = D!Down(@)]))
           /\ Waits("direct")

(* The ping of a check has ended.  Without an answer the TLS try is next,  *)
(* but for a check that knew something beforehand.                         *)
Pinged ==
    /\ pc = "ping"
    /\ \/ Passed([me EXCEPT !.pinged = TRUE])
       \/ /\ asked # "Usual"
          /\ Silent
          /\ UNCHANGED tried
       \/ /\ asked = "Usual"
          /\ IF me.pinged /\ me.health = "Up"
             THEN Sync([me EXCEPT !.health = "Suspect"])
             ELSE UNCHANGED <<me, published, exited>>
          /\ Waits("tls")
          /\ UNCHANGED tried
    /\ UNCHANGED <<input>>

(* The TLS try of a check has ended. *)
TriedTls ==
    /\ pc = "tls"
    /\ \/ Passed(me)
       \/ /\ ~calm
          /\ Silent
          /\ UNCHANGED tried
    /\ UNCHANGED <<input>>

(* The probe past the tunnel has ended: the tunnel is dead, or the Mac is  *)
(* offline and the tunnel is kept.                                         *)
Direct ==
    /\ pc = "direct"
    /\ \/ /\ MayReach(me)
          /\ Ends(Lost(me))
       \/ /\ ~calm
          /\ Ends(me)
    /\ UNCHANGED <<input, tried>>

-----------------------------------------------------------------------------
(* What the task does not do itself. *)

task == <<me, published, pc, after, asked, tried>>

Wakes ==
    /\ ~calm
    /\ wake' = TRUE
    /\ UNCHANGED <<task, net, moved, exited, calm>>

Moves ==
    /\ ~calm
    /\ net' \in (Networks \cup {NoNetwork}) \ {net}
    /\ moved' = TRUE
    /\ UNCHANGED <<task, wake, exited, calm>>

Exits ==
    /\ ~calm
    /\ me.tunnel # NoTunnel
    /\ ~exited
    /\ exited' = TRUE
    /\ UNCHANGED <<task, input>>

(* From here on the tunnel is wanted, and the network stays and carries. *)
Calms ==
    /\ ~calm
    /\ pc # "done"
    /\ net # NoNetwork
    /\ calm' = TRUE
    /\ UNCHANGED <<task, wake, net, moved, exited>>

(* Time passes. *)
Clocked(m) ==
    /\ me' = m
    /\ m # me
    /\ UNCHANGED <<published, pc, after, asked, input, exited, tried>>

PauseEnds ==
    /\ me.connectAt = "pause"
    /\ Clocked([me EXCEPT !.connectAt = "now"])

CheckDue ==
    /\ \/ me.checkAt = "later"
       \/ me.checkAt = "past young" /\ ~me.young
    /\ Clocked([me EXCEPT !.checkAt = "now"])

Ages ==
    /\ me.tunnel # NoTunnel
    /\ me.young
    /\ Clocked([me EXCEPT !.young = FALSE])

Degrades ==
    /\ Clocked([me EXCEPT !.degradation = D!Older(@)])

-----------------------------------------------------------------------------
Runs ==
    \/ Stop \/ Unwanted \/ Wanted
    \/ Raised \/ Confirmed \/ LeaveAlone \/ Unconfirmed
    \/ Pinged \/ TriedTls \/ Direct
    \/ CutShort

Next ==
    \/ Runs
    \/ Wakes \/ Moves \/ Exits \/ Calms
    \/ PauseEnds \/ CheckDue \/ Ages \/ Degrades

Spec == Init /\ [][Next]_vars

(* The task is polled, its commands and probes have time limits, time      *)
(* passes, and not every check falls into a wake *)
(* or a change of network.                                                 *)
Fairness ==
    /\ WF_vars(Runs)
    /\ SF_vars(Pinged)
    /\ SF_vars(TriedTls)
    /\ WF_vars(PauseEnds)
    /\ WF_vars(CheckDue)
    /\ WF_vars(Ages)

FairSpec == Spec /\ Fairness

-----------------------------------------------------------------------------
TypeOK ==
    /\ me \in Fields
    /\ published \in [tunnel : Tunnels \cup {NoTunnel}, health : Healths,
                      works : BOOLEAN]
    /\ pc \in Probing \cup {"idle", "raising", "done"}
    /\ after \in BOOLEAN
    /\ asked \in Beforehand
    /\ wake \in BOOLEAN
    /\ net \in Networks \cup {NoNetwork}
    /\ moved \in BOOLEAN
    /\ exited \in BOOLEAN
    /\ calm \in BOOLEAN
    /\ tried \in Nat

(* The patience is bounded, whatever the checks find and in any order.     *)
PatienceKept == D!PatienceBounded(me.degradation)

(* A tunnel about to be replaced is one that was given up: while a connect *)
(* is due or under way, nothing says that the tunnel carries.              *)
GivenUp ==
    me.connectAt # "never" \/ pc \in {"raising", "confirm"}
        => me.health = "Down"

(* Whatever the task waits for, a tunnel to come up, a probe of many       *)
(* seconds, the next tick, the resolver knows the interface and the health *)
(* that the task knows, and between its steps also whether a disturbance   *)
(* is still unchecked.                                                     *)
KeptInformed ==
    /\ published.tunnel = me.tunnel
    /\ published.health = me.health
    /\ pc = "idle" => published.works = me.works

(* No more than FAST_TRIES connects in a row fail without a pause, but for *)
(* a wake, a network, or the tunnel wanted anew: a tunnel confirmed for a  *)
(* moment does not start them over.                                        *)
PausesKept == tried < FAST_TRIES

(* What link.rs says at 537 of the reconnect after degradation that did    *)
(* not confirm: "once it is past the young window they can tell a rotten   *)
(* path from a dead tunnel".  Until then the tunnel is left alone, unless  *)
(* the Mac wakes or moves, or the process exits.                           *)
LeftAlone ==
    [][me.checkAt = "past young" /\ me.young /\ pc' = "ping"
           => wake \/ net # me.network]_vars

(* The states published are those the abstract link promises. *)
Promise == INSTANCE LinkPromise WITH
    iface <- published.tunnel, health <- published.health
KeepsPromise == Promise!Spec

(* Once nothing goes wrong any more, the tunnel carries for good, and no   *)
(* rule waits for its first check.                                         *)
Carries == published.health \in {"Up", "Suspect"} /\ ~published.works
Recovers == calm ~> []Carries
=============================================================================
