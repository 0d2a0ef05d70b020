----------------------------- MODULE LinkProofs -----------------------------
(***************************************************************************)
(* What holds of Link for any networks, tunnels, settings of the patience, *)
(* growth and number of fast attempts.                                     *)
(***************************************************************************)
EXTENDS Link, TLAPS

-----------------------------------------------------------------------------
(* The patience. *)

(* Every verdict leaves a patience of its type within its bounds, and a    *)
(* setting of a tunnel never changes.                                      *)
Patient(d) == d \in D!Degradations /\ D!PatienceBounded(d)

LEMMA Grows ==
    ASSUME NEW grace \in Nat
    PROVE  grace * GROWTH \in Nat /\ grace <= grace * GROWTH
<1>1. PICK k \in Nat : GROWTH = k + 1
  <2>1. GROWTH - 1 \in Nat /\ GROWTH = (GROWTH - 1) + 1
    BY LinkAssumption
  <2> QED
    BY <2>1
<1>2. grace * k \in Nat
  OBVIOUS
<1>3. grace * (k + 1) = grace * k + grace
  OBVIOUS
<1> QED
  BY <1>1, <1>2, <1>3

LEMMA NewPatient ==
    ASSUME NEW grace \in Graces
    PROVE  Patient(D!New(grace))
BY LinkAssumption, Grows DEF Patient, D!Degradations, D!PatienceBounded,
    D!New, D!NotDegraded

LEMMA StillPatient ==
    ASSUME NEW d, Patient(d)
    PROVE  /\ Patient(D!Down(d))
           /\ Patient(D!Carrying(d))
           /\ Patient(D!Passed(d))
           /\ Patient(D!Harder(d))
           /\ Patient(D!Older(d))
<1> USE LinkAssumption DEF Patient, D!Degradations, D!PatienceBounded,
        D!NotDegraded
<1>1. Patient(D!Down(d))
  BY DEF D!Down
<1>2. Patient(D!Carrying(d))
  BY DEF D!Carrying, D!Left, D!Since
<1>3. Patient(D!Passed(d))
  <2>1. d.grace <= d.grace * GROWTH
    BY Grows
  <2>2. /\ D!Passed(d) \in D!Degradations
        /\ D!Passed(d).grace = d.grace
        /\ D!Passed(d).patience = d.grace
    BY DEF D!Passed
  <2> QED
    BY <2>1, <2>2
<1>4. Patient(D!Harder(d))
  <2>1. d.grace * GROWTH \in Nat /\ d.grace <= d.grace * GROWTH
    BY Grows
  <2> DEFINE most == d.grace * GROWTH
  <2>2. D!Harder(d) = [d EXCEPT !.patience = IF 2 * @ < most THEN 2 * @ ELSE most]
    BY DEF D!Harder
  <2> HIDE DEF most
  <2>3. most \in Nat /\ d.grace <= most
    BY <2>1 DEF most
  <2>4. /\ D!Harder(d) \in D!Degradations
        /\ D!Harder(d).grace = d.grace
        /\ d.grace <= D!Harder(d).patience
        /\ D!Harder(d).patience <= most
    BY <2>2, <2>3
  <2> QED
    BY <2>4 DEF most
<1>5. Patient(D!Older(d))
  BY DEF D!Older
<1> QED
  BY <1>1, <1>2, <1>3, <1>4, <1>5

-----------------------------------------------------------------------------
(* What the small methods of the task make of its fields. *)

(* Fields of their types, with a patience within its bounds. *)
Sound(m) == m \in Fields /\ D!PatienceBounded(m.degradation)

LEMMA SoundPatient ==
    ASSUME NEW m \in Fields
    PROVE  Sound(m) <=> Patient(m.degradation)
BY DEF Sound, Patient, Fields

LEMMA NoFailures == 0 \in 0 .. FAST_TRIES
BY LinkAssumption

LEMMA FailuresCounted ==
    ASSUME NEW m, Sound(m)
    PROVE  m.failures \in Nat
<1>1. m.failures \in 0 .. FAST_TRIES
  BY DEF Sound, Fields
<1> QED
  BY <1>1, LinkAssumption

LEMMA RetryNowDoes ==
    ASSUME NEW m, Sound(m)
    PROVE  /\ Sound(RetryNow(m))
           /\ RetryNow(m).tunnel = m.tunnel
           /\ RetryNow(m).health = m.health
           /\ RetryNow(m).network = m.network
           /\ RetryNow(m).connectAt = "never" <=> m.connectAt = "never"
<1> DEFINE r == [m EXCEPT !.failures = 0, !.connectAt = "now"]
<1>1. /\ r \in Fields
      /\ r.degradation = m.degradation
      /\ r.tunnel = m.tunnel /\ r.health = m.health /\ r.network = m.network
      /\ r.connectAt = "now"
  BY NoFailures DEF Sound, Fields
<1> QED
  BY <1>1 DEF Sound, RetryNow

LEMMA DisturbedDoes ==
    ASSUME NEW m, Sound(m)
    PROVE  /\ Sound(Disturbed(m))
           /\ Disturbed(m).tunnel = m.tunnel
           /\ Disturbed(m).health = m.health
           /\ Disturbed(m).network = m.network
           /\ Disturbed(m).failures = m.failures
           /\ Disturbed(m).connectAt = m.connectAt
BY DEF Sound, Fields, Disturbed

LEMMA WokeDoes ==
    ASSUME NEW m, Sound(m)
    PROVE  /\ Sound(Woke(m))
           /\ Woke(m).tunnel = m.tunnel
           /\ Woke(m).health = m.health
           /\ Woke(m).network = m.network
           /\ Woke(m).connectAt = "never" <=> m.connectAt = "never"
<1> DEFINE d == Disturbed(m)
           w == [d EXCEPT !.next = "Woke"]
<1>1. /\ Sound(d)
      /\ d.tunnel = m.tunnel /\ d.health = m.health
      /\ d.network = m.network /\ d.connectAt = m.connectAt
  BY DisturbedDoes
<1> HIDE DEF d
<1>2. /\ Sound(w)
      /\ w.tunnel = d.tunnel /\ w.health = d.health
      /\ w.network = d.network /\ w.connectAt = d.connectAt
  BY <1>1 DEF Sound, Fields, Beforehand
<1>3. Woke(m) = RetryNow(w)
  BY DEF Woke, d
<1> HIDE DEF w
<1> QED
  BY <1>1, <1>2, <1>3, RetryNowDoes

LEMMA FollowNetworkDoes ==
    ASSUME NEW m, Sound(m), NEW n \in Networks \cup {NoNetwork}
    PROVE  /\ Sound(FollowNetwork(m, n))
           /\ FollowNetwork(m, n).tunnel = m.tunnel
           /\ FollowNetwork(m, n).health = m.health
           /\ n = NoNetwork => FollowNetwork(m, n).failures = m.failures
           /\ FollowNetwork(m, n).connectAt = "never" <=> m.connectAt = "never"
<1> DEFINE d == Disturbed(m)
           f == [d EXCEPT !.network = n]
<1>1. /\ Sound(d)
      /\ d.tunnel = m.tunnel /\ d.health = m.health
      /\ d.failures = m.failures /\ d.connectAt = m.connectAt
  BY DisturbedDoes
<1> HIDE DEF d
<1>2. /\ Sound(f)
      /\ f.tunnel = d.tunnel /\ f.health = d.health
      /\ f.failures = d.failures /\ f.connectAt = d.connectAt
  BY <1>1 DEF Sound, Fields
<1>3. FollowNetwork(m, n) = IF n = NoNetwork THEN f ELSE RetryNow(f)
  BY DEF FollowNetwork, d
<1> HIDE DEF f
<1> QED
  BY <1>1, <1>2, <1>3, RetryNowDoes

LEMMA HealthyDoes ==
    ASSUME NEW m, Sound(m)
    PROVE  /\ Sound(Healthy(m))
           /\ Healthy(m).tunnel = m.tunnel
           /\ Healthy(m).health = "Up"
           /\ Healthy(m).failures = m.failures
           /\ Healthy(m).connectAt = m.connectAt
<1>1. Patient(D!Passed(m.degradation))
  BY SoundPatient, StillPatient DEF Sound
<1> DEFINE at == IF m.health = "Up" THEN m.checkAt ELSE "later"
<1>3. Healthy(m) = [m EXCEPT !.degradation = D!Passed(m.degradation),
                             !.checkAt = at, !.health = "Up"]
  BY DEF Healthy, Sound, Fields
<1>4. at \in {"later", m.checkAt}
  OBVIOUS
<1>5. D!Passed(m.degradation) \in D!Degradations
  BY <1>1 DEF Patient
<1> HIDE DEF at
<1>6. /\ Healthy(m) \in Fields
      /\ Healthy(m).degradation = D!Passed(m.degradation)
      /\ Healthy(m).tunnel = m.tunnel /\ Healthy(m).health = "Up"
      /\ Healthy(m).failures = m.failures
      /\ Healthy(m).connectAt = m.connectAt
  BY <1>3, <1>4, <1>5 DEF Sound, Fields, Healths
<1> QED
  BY <1>1, <1>6 DEF Sound, Patient

LEMMA UnhealthyDoes ==
    ASSUME NEW m, Sound(m)
    PROVE  /\ Sound(Unhealthy(m))
           /\ Unhealthy(m).tunnel = m.tunnel
           /\ Unhealthy(m).health = "Down"
           /\ Unhealthy(m).failures = m.failures
           /\ Unhealthy(m).connectAt = m.connectAt
           /\ Unhealthy(m).works = m.works
BY DEF Sound, Fields, Healths, Unhealthy

LEMMA LostDoes ==
    ASSUME NEW m, Sound(m)
    PROVE  /\ Sound(Lost(m))
           /\ Lost(m).tunnel = m.tunnel
           /\ Lost(m).health = "Down"
           /\ Lost(m).failures = m.failures
           /\ Lost(m).connectAt = "now"
<1> DEFINE u == Unhealthy(m)
<1>1. Sound(u) /\ u.tunnel = m.tunnel /\ u.health = "Down" /\ u.failures = m.failures
  BY UnhealthyDoes
<1>2. Lost(m) = [u EXCEPT !.confirmed = FALSE, !.connectAt = "now"]
  BY DEF Lost
<1> HIDE DEF u
<1> QED
  BY <1>1, <1>2 DEF Sound, Fields

LEMMA NoLongerDoes ==
    ASSUME NEW m, Sound(m)
    PROVE  /\ Sound(NoLonger(m))
           /\ NoLonger(m).tunnel = NoTunnel
           /\ NoLonger(m).health = m.health
           /\ NoLonger(m).failures = m.failures
           /\ NoLonger(m).connectAt = m.connectAt
BY DEF Sound, Fields, NoLonger

LEMMA DownNowDoes ==
    ASSUME NEW m, Sound(m)
    PROVE  /\ Sound(DownNow(m))
           /\ DownNow(m).tunnel = NoTunnel
           /\ DownNow(m).health = "Down"
           /\ DownNow(m).failures = m.failures
<1> DEFINE u == Unhealthy(NoLonger(m))
<1>1. Sound(u) /\ u.tunnel = NoTunnel /\ u.health = "Down" /\ u.failures = m.failures
  BY NoLongerDoes, UnhealthyDoes
<1>2. DownNow(m) = [u EXCEPT !.confirmed = FALSE]
  BY DEF DownNow
<1> HIDE DEF u
<1> QED
  BY <1>1, <1>2 DEF Sound, Fields

(* Below FAST_TRIES failures the next connect is now, and it counts one    *)
(* failure more; otherwise it waits for a pause.                           *)
LEMMA FailedDoes ==
    ASSUME NEW m, Sound(m)
    PROVE  /\ Sound(Failed(m))
           /\ Failed(m).tunnel = m.tunnel
           /\ Failed(m).health = "Down"
           /\ \/ /\ Failed(m).connectAt = "now"
                 /\ Failed(m).failures = m.failures + 1
                 /\ Failed(m).failures < FAST_TRIES
              \/ Failed(m).connectAt = "pause"
<1> DEFINE u == Unhealthy(m)
           more == IF m.failures < FAST_TRIES THEN m.failures + 1 ELSE m.failures
           at == IF more < FAST_TRIES THEN "now" ELSE "pause"
<1>1. Sound(u) /\ u.tunnel = m.tunnel /\ u.health = "Down"
  BY UnhealthyDoes
<1>2. Failed(m) = [u EXCEPT !.failures = more, !.connectAt = at]
  BY DEF Failed
<1>3. m.failures \in 0 .. FAST_TRIES
  BY DEF Sound, Fields
<1>4. /\ more \in 0 .. FAST_TRIES
      /\ at \in {"now", "pause"}
      /\ at = "now" => more = m.failures + 1 /\ more < FAST_TRIES
  BY <1>3, LinkAssumption
<1> HIDE DEF u, more, at
<1>6. /\ Failed(m) \in Fields /\ Failed(m).degradation = u.degradation
      /\ Failed(m).failures = more /\ Failed(m).connectAt = at
      /\ Failed(m).tunnel = u.tunnel /\ Failed(m).health = u.health
  BY <1>1, <1>2, <1>4 DEF Sound, Fields
<1> QED
  BY <1>1, <1>4, <1>6 DEF Sound

LEMMA AbortedDoes ==
    ASSUME NEW m, Sound(m), NEW next \in Beforehand,
           NEW n \in Networks \cup {NoNetwork}
    PROVE  /\ Sound(Aborted(m, next, n))
           /\ Aborted(m, next, n).tunnel = m.tunnel
           /\ Aborted(m, next, n).health = m.health
           /\ n = NoNetwork => Aborted(m, next, n).failures = m.failures
           /\ Aborted(m, next, n).connectAt = "never" <=> m.connectAt = "never"
<1> DEFINE a == [m EXCEPT !.next = next, !.checkAt = "now"]
           n1 == [m EXCEPT !.next = next]
<1>1. m \in Fields /\ D!PatienceBounded(m.degradation)
  BY DEF Sound
<1>2. /\ Sound(a)
      /\ a.tunnel = m.tunnel /\ a.health = m.health
      /\ a.failures = m.failures /\ a.connectAt = m.connectAt
  <2>1. /\ n1 \in Fields /\ n1.degradation = m.degradation
        /\ n1.tunnel = m.tunnel /\ n1.health = m.health
        /\ n1.failures = m.failures /\ n1.connectAt = m.connectAt
    BY <1>1 DEF Fields
  <2>2. a = [n1 EXCEPT !.checkAt = "now"]
    BY <1>1 DEF Fields
  <2> HIDE DEF a, n1
  <2>3. a \in Fields
    BY <2>1, <2>2 DEF Fields
  <2>4. /\ a.degradation = n1.degradation
        /\ a.tunnel = n1.tunnel /\ a.health = n1.health
        /\ a.failures = n1.failures /\ a.connectAt = n1.connectAt
    BY <2>1, <2>2 DEF Fields
  <2> QED
    BY <1>1, <2>1, <2>3, <2>4 DEF Sound
<1>3. Aborted(m, next, n) = FollowNetwork(a, n)
  BY DEF Aborted
<1> HIDE DEF a
<1> QED
  BY <1>2, <1>3, FollowNetworkDoes

LEMMA ConfirmAbortedDoes ==
    ASSUME NEW m, Sound(m), NEW n \in Networks \cup {NoNetwork}
    PROVE  /\ Sound(ConfirmAborted(m, n))
           /\ ConfirmAborted(m, n).tunnel = m.tunnel
           /\ ConfirmAborted(m, n).health = m.health
           /\ n = NoNetwork => ConfirmAborted(m, n).failures = m.failures
<1> DEFINE a == [m EXCEPT !.connectAt = "now"]
<1>1. /\ Sound(a)
      /\ a.tunnel = m.tunnel /\ a.health = m.health /\ a.failures = m.failures
  BY DEF Sound, Fields
<1>2. ConfirmAborted(m, n) = FollowNetwork(a, n)
  BY DEF ConfirmAborted
<1> HIDE DEF a
<1> QED
  BY <1>1, <1>2, FollowNetworkDoes

-----------------------------------------------------------------------------
(* The invariant. *)

(* The fields of the task, in what it waits for at `at`. *)
Fits(m, at) ==
    /\ Sound(m)
    /\ m.connectAt # "never" \/ at \in {"raising", "confirm"}
           => m.health = "Down"
    /\ m.tunnel = NoTunnel => m.health = "Down"
    /\ at \in Probing => m.tunnel # NoTunnel
    /\ at \in {"ping", "tls", "direct"} => m.connectAt = "never"

Typed ==
    /\ pc \in Probing \cup {"idle", "raising", "done"}
    /\ after \in BOOLEAN
    /\ asked \in Beforehand
    /\ wake \in BOOLEAN
    /\ net \in Networks \cup {NoNetwork}
    /\ moved \in BOOLEAN
    /\ exited \in BOOLEAN
    /\ calm \in BOOLEAN

Counted(m, count) ==
    /\ count \in Nat
    /\ count <= m.failures
    /\ count < FAST_TRIES

IInv ==
    /\ Typed
    /\ Fits(me, pc)
    /\ published \in [tunnel : Tunnels \cup {NoTunnel}, health : Healths,
                      works : BOOLEAN]
    /\ KeptInformed
    /\ Counted(me, tried)

(* What a step keeps: the invariant and the promise. *)
Good == IInv' /\ [Promise!Next]_(Promise!view)

(* From the fields of the task to m the promise allows the step. *)
Turns(m) ==
    \/ m.tunnel = me.tunnel /\ m.health = me.health
    \/ m.tunnel \in {me.tunnel, NoTunnel} /\ m.health = "Down"
    \/ /\ m.tunnel = me.tunnel /\ me.tunnel # NoTunnel
       /\ m.health \in {"Up", "Degraded"}
    \/ m.tunnel = me.tunnel /\ me.health = "Up" /\ m.health = "Suspect"
    \/ /\ m.tunnel \in Tunnels \ {me.tunnel}
       /\ me.health = "Down" /\ m.health = "Down"

LEMMA Initially == Init => IInv
<1> SUFFICES ASSUME Init PROVE IInv
  OBVIOUS
<1>1. PICK grace \in Graces : me = New(net, grace)
  BY DEF Init
<1>2. Patient(D!New(grace))
  BY NewPatient
<1>3. /\ me \in Fields
      /\ me.degradation = D!New(grace)
      /\ me.tunnel = NoTunnel /\ me.health = "Down"
      /\ me.failures = 0
  <2>1. D!New(grace) \in D!Degradations
    BY <1>2 DEF Patient
  <2> QED
    BY <1>1, <2>1, NoFailures DEF Init, New, Fields, Healths, Beforehand
<1>4. Fits(me, pc)
  BY <1>2, <1>3 DEF Fits, Sound, Patient, Init, Probing
<1>5. Typed
  BY DEF Init, Typed, Probing, Beforehand
<1>6. /\ published \in [tunnel : Tunnels \cup {NoTunnel}, health : Healths,
                        works : BOOLEAN]
      /\ KeptInformed
  BY <1>3 DEF Init, State, KeptInformed, Fields
<1>7. Counted(me, tried)
  BY <1>3, LinkAssumption DEF Init, Counted
<1> QED
  BY <1>4, <1>5, <1>6, <1>7 DEF IInv

(* A change told to the resolver keeps the invariant and the promise. *)
LEMMA Synced ==
    ASSUME IInv, NEW m, Sync(m), Typed', Fits(m, pc'), Turns(m),
           Counted(m, tried')
    PROVE  Good
<1>1. m \in Fields
  BY DEF Fits, Sound
<1>2. /\ published' \in [tunnel : Tunnels \cup {NoTunnel}, health : Healths,
                         works : BOOLEAN]
      /\ KeptInformed'
      /\ published'.tunnel = m.tunnel /\ published'.health = m.health
  BY <1>1 DEF Sync, State, KeptInformed, Fields
<1>3. Fits(m, pc') => Fits(me, pc)'
  BY DEF Sync, Fits, Sound, D!PatienceBounded
<1>4. IInv'
  BY <1>2, <1>3 DEF IInv, Sync, Counted
<1>5. published.tunnel = me.tunnel /\ published.health = me.health
  BY DEF IInv, KeptInformed
<1>6. [Promise!Next]_(Promise!view)
  BY <1>2, <1>5 DEF Turns, Promise!Next, Promise!view, Promise!Raise,
      Promise!Carry, Promise!Doubt, Promise!Degrade, Promise!Fall
<1> QED
  BY <1>4, <1>6 DEF Good

(* A step that tells the resolver nothing, and leaves nothing to tell. *)
LEMMA Untold ==
    ASSUME IInv, UNCHANGED published, Typed', Fits(me', pc'),
           me'.tunnel = me.tunnel, me'.health = me.health,
           pc' = "idle" => pc = "idle" /\ me'.works = me.works,
           Counted(me', tried')
    PROVE  Good
<1>1. KeptInformed'
  BY DEF IInv, KeptInformed
<1>2. IInv'
  BY <1>1 DEF IInv, Fits, Sound, D!PatienceBounded, Counted
<1>3. [Promise!Next]_(Promise!view)
  BY DEF Promise!view
<1> QED
  BY <1>2, <1>3 DEF Good

-----------------------------------------------------------------------------
(* The steps. *)

(* What a wake and a new network make of the fields when a step begins. *)
LEMMA FollowedDoes ==
    ASSUME IInv
    PROVE  /\ Sound(Followed)
           /\ Followed.tunnel = me.tunnel
           /\ Followed.health = me.health
           /\ Followed.connectAt = "never" <=> me.connectAt = "never"
           /\ Counted(Followed, TriedBefore)
<1>1. /\ Sound(me) /\ net \in Networks \cup {NoNetwork} /\ wake \in BOOLEAN
      /\ tried \in Nat /\ tried <= me.failures /\ tried < FAST_TRIES
  BY DEF IInv, Fits, Typed, Counted
<1> DEFINE w == IF wake THEN Woke(me) ELSE me
<1>2. /\ Sound(w) /\ w.tunnel = me.tunnel /\ w.health = me.health
      /\ w.connectAt = "never" <=> me.connectAt = "never"
      /\ w.network = me.network
      /\ ~wake => w.failures = me.failures
  BY <1>1, WokeDoes
<1>3. Followed = IF net # w.network THEN FollowNetwork(w, net) ELSE w
  BY DEF Followed
<1> HIDE DEF w
<1>4. /\ Sound(Followed)
      /\ Followed.tunnel = me.tunnel
      /\ Followed.health = me.health
      /\ Followed.connectAt = "never" <=> me.connectAt = "never"
      /\ ~Anew => Followed.failures = me.failures
  BY <1>1, <1>2, <1>3, FollowNetworkDoes DEF Anew
<1>5. Followed.failures \in Nat
  BY <1>4, FailuresCounted
<1>6. Counted(Followed, TriedBefore)
  BY <1>1, <1>4, <1>5, LinkAssumption DEF Counted, TriedBefore
<1> QED
  BY <1>4, <1>6

(* The fields with which a wanted step decides what to do. *)
Decides(m) ==
    /\ Fits(m, "idle")
    /\ \/ m.tunnel = me.tunnel /\ m.health = me.health
       \/ m.tunnel = NoTunnel /\ m.health = "Down"
    /\ Counted(m, TriedBefore)

LEMMA PresentDoes ==
    ASSUME IInv
    PROVE  Decides(Present(Followed))
<1> DEFINE f == Followed
<1>1. /\ Sound(f) /\ f.tunnel = me.tunnel /\ f.health = me.health
      /\ f.connectAt = "never" <=> me.connectAt = "never"
      /\ Counted(f, TriedBefore)
  BY FollowedDoes
<1> HIDE DEF f
<1>2. /\ me.connectAt # "never" => me.health = "Down"
      /\ me.tunnel = NoTunnel => me.health = "Down"
  BY DEF IInv, Fits
<1>3. CASE ~(f.tunnel # NoTunnel /\ exited)
  BY <1>1, <1>2, <1>3 DEF Decides, Fits, Present, Probing, f
<1>4. CASE f.tunnel # NoTunnel /\ exited
  <2> DEFINE n == NoLonger(f)
             e == IF f.connectAt = "never" THEN Lost(n) ELSE n
  <2>1. /\ Sound(n) /\ n.tunnel = NoTunnel /\ n.health = f.health
        /\ n.failures = f.failures /\ n.connectAt = f.connectAt
    BY <1>1, NoLongerDoes
  <2>2. Present(Followed) = e
    BY <1>4 DEF Present, Exited, f
  <2> HIDE DEF n
  <2>3. /\ Sound(e) /\ e.tunnel = NoTunnel /\ e.failures = f.failures
        /\ e.health = "Down"
    BY <1>1, <1>2, <2>1, LostDoes
  <2> HIDE DEF e
  <2> QED
    BY <1>1, <2>2, <2>3 DEF Decides, Fits, Counted, Probing
<1> QED
  BY <1>3, <1>4

LEMMA SuspectedDoes ==
    ASSUME NEW m, Decides(m)
    PROVE  Decides(Suspected(m))
<1> DEFINE s == [m EXCEPT !.next = "Cut", !.checkAt = "now"]
<1>1. /\ Sound(s)
      /\ s.tunnel = m.tunnel /\ s.health = m.health
      /\ s.failures = m.failures /\ s.connectAt = m.connectAt
  BY DEF Decides, Fits, Sound, Fields, Beforehand
<1> HIDE DEF s
<1> QED
  BY <1>1 DEF Decides, Fits, Counted, Suspected, s

(* What a step that begins decides with is told, or tells nothing new. *)
LEMMA DecidesTurns ==
    ASSUME NEW m, Decides(m)
    PROVE  /\ Turns(m)
           /\ Sound(m)
           /\ m.connectAt # "never" => m.health = "Down"
           /\ m.tunnel = NoTunnel => m.health = "Down"
           /\ Counted(m, TriedBefore)
BY DEF Decides, Turns, Fits

LEMMA BeginsTyped ==
    ASSUME IInv, Begins, pc' \in Probing \cup {"idle", "raising", "done"},
           after' \in BOOLEAN, asked' \in Beforehand, exited' \in BOOLEAN
    PROVE  Typed'
BY DEF IInv, Typed, Begins

LEMMA InputTyped ==
    ASSUME IInv, UNCHANGED input,
           pc' \in Probing \cup {"idle", "raising", "done"},
           after' \in BOOLEAN, asked' \in Beforehand, exited' \in BOOLEAN
    PROVE  Typed'
BY DEF IInv, Typed, input

(* A failed connect counts one more, unless a pause follows it. *)
LEMMA FailedCounted ==
    ASSUME NEW m, Sound(m), NEW before, Counted(m, before),
           me' = Failed(m), tried' = TriedMore(before)
    PROVE  Counted(Failed(m), tried')
<1>1. \/ /\ Failed(m).connectAt = "now"
         /\ Failed(m).failures = m.failures + 1
         /\ Failed(m).failures < FAST_TRIES
      \/ Failed(m).connectAt = "pause"
  BY FailedDoes
<1>2. Failed(m).failures \in Nat /\ m.failures \in Nat
  BY FailedDoes, FailuresCounted
<1> QED
  BY <1>1, <1>2, LinkAssumption DEF Counted, TriedMore

LEMMA StopKeeps ==
    ASSUME IInv, Stop
    PROVE  Good
<1> DEFINE m == DownNow(me)
<1>1. /\ Sound(m) /\ m.tunnel = NoTunnel /\ m.health = "Down"
      /\ m.failures = me.failures
  BY DownNowDoes DEF IInv, Fits
<1>2. Sync(m) /\ pc' = "done" /\ UNCHANGED <<after, asked, input, tried>>
  BY DEF Stop, Waits
<1> HIDE DEF m
<1>3. Typed'
  BY <1>2, InputTyped DEF Sync, IInv, Typed
<1>4. Fits(m, pc') /\ Turns(m) /\ Counted(m, tried')
  BY <1>1, <1>2 DEF Fits, Turns, Counted, IInv, Probing
<1> QED
  BY <1>2, <1>3, <1>4, Synced

LEMMA UnwantedKeeps ==
    ASSUME IInv, Unwanted
    PROVE  Good
<1> DEFINE d == IF me.tunnel # NoTunnel THEN DownNow(Followed) ELSE Followed
           m == [d EXCEPT !.connectAt = "now", !.failures = 0,
                          !.works = FALSE]
<1>1. /\ Sound(d) /\ d.tunnel = NoTunnel /\ d.health = "Down"
  BY FollowedDoes, DownNowDoes DEF IInv, Fits
<1>2. Begins /\ Sync(m) /\ pc' = "idle" /\ after' = FALSE /\ asked' = "Usual"
      /\ tried' = 0
  BY DEF Unwanted, Ends
<1> HIDE DEF d
<1>3. Sound(m) /\ m.tunnel = NoTunnel /\ m.health = "Down" /\ m.failures = 0
  BY <1>1, NoFailures DEF Sound, Fields
<1> HIDE DEF m
<1>4. Typed'
  BY <1>2, BeginsTyped DEF Sync, IInv, Typed, Beforehand
<1>5. Fits(m, pc') /\ Turns(m) /\ Counted(m, tried')
  BY <1>2, <1>3, LinkAssumption DEF Fits, Turns, Counted, Probing
<1> QED
  BY <1>2, <1>4, <1>5, Synced

LEMMA ConnectKeeps ==
    ASSUME IInv, Begins, NEW m, Decides(m), Connect(m)
    PROVE  Good
<1> DEFINE c == [m EXCEPT !.afterDegraded = FALSE]
<1>1. /\ Turns(m) /\ Sound(m) /\ m.connectAt = "now" /\ m.health = "Down"
      /\ Counted(m, TriedBefore)
  BY DecidesTurns DEF Connect, Connecting
<1>2. /\ Sound(c) /\ c.tunnel = m.tunnel /\ c.health = m.health
      /\ c.connectAt = m.connectAt /\ c.failures = m.failures
  BY <1>1 DEF Sound, Fields
<1>3. \/ Ends(Failed(c)) /\ tried' = TriedMore(TriedBefore)
      \/ /\ Sync(c) /\ pc' = "raising" /\ after' = m.afterDegraded
         /\ tried' = TriedBefore /\ UNCHANGED asked
  BY DEF Connect
<1> HIDE DEF c
<1>4. Turns(c) /\ Counted(c, TriedBefore)
  BY <1>1, <1>2 DEF Turns, Counted
<1>5. CASE Ends(Failed(c)) /\ tried' = TriedMore(TriedBefore)
  <2> DEFINE f == Failed(c)
  <2>1. Sound(f) /\ f.tunnel = c.tunnel /\ f.health = "Down"
    BY <1>2, FailedDoes
  <2>2. Sync(f) /\ pc' = "idle" /\ after' = FALSE /\ asked' = "Usual"
    BY <1>5 DEF Ends
  <2>3. Counted(f, tried')
    BY <1>2, <1>4, <1>5, <2>2, FailedCounted DEF Sync
  <2> HIDE DEF f
  <2>4. Typed'
    BY <2>2, BeginsTyped DEF Sync, IInv, Typed, Beforehand
  <2>5. Fits(f, pc') /\ Turns(f)
    BY <1>1, <1>2, <1>4, <2>1, <2>2 DEF Fits, Turns, Probing
  <2> QED
    BY <2>2, <2>3, <2>4, <2>5, Synced
<1>6. CASE /\ Sync(c) /\ pc' = "raising" /\ after' = m.afterDegraded
           /\ tried' = TriedBefore /\ UNCHANGED asked
  <2>1. m.afterDegraded \in BOOLEAN
    BY <1>1 DEF Sound, Fields
  <2>2. Typed'
    BY <1>6, <2>1, BeginsTyped DEF Sync, IInv, Typed
  <2>3. Fits(c, pc')
    BY <1>1, <1>2, <1>6 DEF Fits, Probing
  <2> QED
    BY <1>4, <1>6, <2>2, <2>3, Synced
<1> QED
  BY <1>3, <1>5, <1>6

LEMMA CheckKeeps ==
    ASSUME IInv, Begins, NEW m, Decides(m), Check(m)
    PROVE  Good
<1>1. /\ Turns(m) /\ Sound(m) /\ m.connectAt = "never"
      /\ Counted(m, TriedBefore) /\ tried' = TriedBefore
  BY DecidesTurns DEF Check, Checking
<1>2. CASE m.tunnel = NoTunnel
  <2> DEFINE c == [m EXCEPT !.checkAt = "later"]
             w == [c EXCEPT !.works = FALSE]
             k == Lost(w)
  <2>1. Ends(k)
    BY <1>2 DEF Check, Sound, Fields
  <2>2. Sound(c) /\ c.tunnel = m.tunnel /\ c.failures = m.failures
    BY <1>1 DEF Sound, Fields
  <2> HIDE DEF c
  <2>3. Sound(w) /\ w.tunnel = m.tunnel /\ w.failures = m.failures
    BY <2>2 DEF Sound, Fields
  <2> HIDE DEF w
  <2>4. /\ Sound(k) /\ k.tunnel = m.tunnel /\ k.health = "Down"
        /\ k.failures = m.failures
    BY <2>3, LostDoes
  <2> HIDE DEF k
  <2>5. Typed'
    BY <2>1, BeginsTyped DEF Ends, Sync, IInv, Typed, Beforehand
  <2>6. Fits(k, pc') /\ Turns(k) /\ Counted(k, tried')
    BY <1>1, <1>2, <2>1, <2>4 DEF Fits, Turns, Counted, Probing, Ends
  <2> QED
    BY <2>1, <2>5, <2>6, Synced DEF Ends
<1>3. CASE m.tunnel # NoTunnel
  <2> DEFINE c == [m EXCEPT !.checkAt = "later"]
             k == [c EXCEPT !.next = "Usual"]
  <2>1. /\ me' = k /\ pc' = "ping" /\ asked' = m.next
        /\ UNCHANGED <<published, after, exited>>
    BY <1>3 DEF Check
  <2>2. /\ Sound(c) /\ c.tunnel = m.tunnel /\ c.health = m.health
        /\ c.failures = m.failures /\ c.connectAt = m.connectAt
    BY <1>1 DEF Sound, Fields
  <2> HIDE DEF c
  <2>3. /\ Sound(k) /\ k.tunnel = m.tunnel /\ k.health = m.health
        /\ k.failures = m.failures /\ k.connectAt = m.connectAt
    BY <2>2 DEF Sound, Fields, Beforehand
  <2> HIDE DEF k
  <2>4. m.next \in Beforehand
    BY <1>1 DEF Sound, Fields
  <2>5. Typed'
    BY <2>1, <2>4, BeginsTyped DEF IInv, Typed, Probing
  <2>6. m.tunnel = me.tunnel /\ m.health = me.health
    BY <1>3 DEF Decides
  <2>7. Fits(me', pc') /\ Counted(me', tried')
    BY <1>1, <1>3, <2>1, <2>3 DEF Fits, Counted, Probing
  <2> QED
    BY <2>1, <2>3, <2>5, <2>6, <2>7, Untold
<1> QED
  BY <1>2, <1>3

LEMMA RestKeeps ==
    ASSUME IInv, Begins, NEW m, Decides(m), Rest(m)
    PROVE  Good
<1>1. Turns(m) /\ Fits(m, "idle") /\ Counted(m, TriedBefore)
  BY DecidesTurns DEF Decides
<1>2. Ends(m) /\ tried' = TriedBefore
  BY DEF Rest
<1>3. Typed'
  BY <1>2, BeginsTyped DEF Ends, Sync, IInv, Typed, Beforehand
<1> QED
  BY <1>1, <1>2, <1>3, Synced DEF Ends

LEMMA WantedKeeps ==
    ASSUME IInv, Wanted
    PROVE  Good
<1> DEFINE p == Present(Followed)
<1>1. Decides(p)
  BY PresentDoes
<1>2. Begins /\ \E m \in {p, Suspected(p)} : Connect(m) \/ Check(m) \/ Rest(m)
  BY DEF Wanted
<1> HIDE DEF p
<1>3. PICK m \in {p, Suspected(p)} : Connect(m) \/ Check(m) \/ Rest(m)
  BY <1>2
<1>4. Decides(m)
  BY <1>1, <1>3, SuspectedDoes
<1> QED
  BY <1>2, <1>3, <1>4, ConnectKeeps, CheckKeeps, RestKeeps

(* A step that ends in the middle of one, with the fields told. *)
LEMMA EndsKeeps ==
    ASSUME IInv, NEW m, Ends(m), Typed', Fits(m, "idle"), Turns(m),
           Counted(m, tried')
    PROVE  Good
BY Synced DEF Ends

LEMMA InputEndsTyped ==
    ASSUME IInv, NEW m, Ends(m), UNCHANGED input
    PROVE  Typed'
BY InputTyped DEF IInv, Typed, Ends, Sync, Beforehand

LEMMA RaisedKeeps ==
    ASSUME IInv, Raised
    PROVE  Good
<1>1. /\ Sound(me) /\ me.health = "Down" /\ Counted(me, tried)
      /\ UNCHANGED input
  BY DEF IInv, Fits, Raised
<1>2. CASE Ends(Failed(me)) /\ tried' = TriedMore(tried)
  <2> DEFINE f == Failed(me)
  <2>1. Sound(f) /\ f.tunnel = me.tunnel /\ f.health = "Down"
    BY <1>1, FailedDoes
  <2>2. Counted(f, tried')
    BY <1>1, <1>2, FailedCounted DEF Ends, Sync
  <2>3. Ends(f)
    BY <1>2
  <2> HIDE DEF f
  <2>4. Fits(f, "idle") /\ Turns(f)
    BY <2>1 DEF Fits, Turns, Probing
  <2> QED
    BY <1>1, <2>2, <2>3, <2>4, EndsKeeps, InputEndsTyped
<1>3. ASSUME NEW t \in Tunnels \ {me.tunnel},
             Sync([Unhealthy(me) EXCEPT !.tunnel = t, !.young = TRUE,
                                        !.pinged = FALSE]),
             Waits("confirm"), UNCHANGED tried
      PROVE  Good
  <2> DEFINE u == Unhealthy(me)
             m == [u EXCEPT !.tunnel = t, !.young = TRUE, !.pinged = FALSE]
  <2>1. Sound(u) /\ u.health = "Down" /\ u.failures = me.failures
    BY <1>1, UnhealthyDoes
  <2>2. Sync(m)
    BY <1>3
  <2> HIDE DEF u
  <2>3. /\ Sound(m) /\ m.tunnel = t /\ m.health = "Down"
        /\ m.failures = me.failures
    BY <2>1 DEF Sound, Fields
  <2> HIDE DEF m
  <2>4. t # NoTunnel /\ t \in Tunnels \ {me.tunnel}
    BY LinkAssumption
  <2>5. Fits(m, pc') /\ Turns(m) /\ Counted(m, tried')
    BY <1>1, <1>3, <2>3, <2>4 DEF Fits, Turns, Counted, Waits
  <2>6. Typed'
    BY <1>1, <1>3, <2>2, InputTyped DEF Sync, Waits, IInv, Typed, Probing
  <2> QED
    BY <2>2, <2>5, <2>6, Synced
<1> QED
  BY <1>2, <1>3 DEF Raised

LEMMA ConfirmedKeeps ==
    ASSUME IInv, Confirmed
    PROVE  Good
<1> DEFINE h == Healthy(me)
           m == [h EXCEPT !.connectAt = "never", !.confirmed = TRUE,
                          !.next = "Usual", !.works = FALSE]
<1>1. /\ Sound(me) /\ me.tunnel # NoTunnel /\ Counted(me, tried)
      /\ UNCHANGED input /\ tried' = tried
  BY DEF IInv, Fits, Confirmed, Probing
<1>2. Sound(h) /\ h.tunnel = me.tunnel /\ h.health = "Up" /\ h.failures = me.failures
  BY <1>1, HealthyDoes
<1>3. Ends(m)
  BY DEF Confirmed
<1> HIDE DEF h
<1>4. /\ Sound(m) /\ m.tunnel = me.tunnel /\ m.health = "Up"
      /\ m.failures = me.failures /\ m.connectAt = "never"
  BY <1>2 DEF Sound, Fields, Beforehand
<1> HIDE DEF m
<1>5. Fits(m, "idle") /\ Turns(m) /\ Counted(m, tried')
  BY <1>1, <1>4 DEF Fits, Turns, Counted, Probing
<1> QED
  BY <1>1, <1>3, <1>5, EndsKeeps, InputEndsTyped

LEMMA LeaveAloneKeeps ==
    ASSUME IInv, LeaveAlone
    PROVE  Good
<1> DEFINE d == D!Harder(me.degradation)
           m == [me EXCEPT !.degradation = d, !.connectAt = "never",
                           !.checkAt = "past young", !.next = "Usual"]
<1>1. /\ Sound(me) /\ me.health = "Down" /\ Counted(me, tried)
      /\ UNCHANGED input /\ tried' = tried
  BY DEF IInv, Fits, LeaveAlone
<1>2. d \in D!Degradations /\ D!PatienceBounded(d)
  BY <1>1, SoundPatient, StillPatient DEF Patient, Sound
<1>3. Ends([me EXCEPT !.degradation = D!Harder(@), !.connectAt = "never",
                      !.checkAt = "past young", !.next = "Usual"])
  BY DEF LeaveAlone
<1>4. Ends(m)
  BY <1>1, <1>3 DEF Sound, Fields
<1> HIDE DEF d
<1>5. /\ m \in Fields /\ m.degradation = d
      /\ m.tunnel = me.tunnel /\ m.health = "Down"
      /\ m.failures = me.failures /\ m.connectAt = "never"
  BY <1>1, <1>2 DEF Sound, Fields, Beforehand
<1> HIDE DEF m
<1>6. Fits(m, "idle") /\ Turns(m) /\ Counted(m, tried')
  BY <1>1, <1>2, <1>5 DEF Fits, Sound, Turns, Counted, Probing
<1> QED
  BY <1>1, <1>4, <1>6, EndsKeeps, InputEndsTyped

LEMMA UnconfirmedKeeps ==
    ASSUME IInv, Unconfirmed
    PROVE  Good
<1> DEFINE f == Failed(me)
<1>1. Sound(me) /\ Counted(me, tried) /\ UNCHANGED input
  BY DEF IInv, Fits, Unconfirmed
<1>2. Sound(f) /\ f.tunnel = me.tunnel /\ f.health = "Down"
  BY <1>1, FailedDoes
<1>3. Ends(f) /\ tried' = TriedMore(tried)
  BY DEF Unconfirmed
<1>4. Counted(f, tried')
  BY <1>1, <1>3, FailedCounted DEF Ends, Sync
<1> HIDE DEF f
<1>5. Fits(f, "idle") /\ Turns(f)
  BY <1>2 DEF Fits, Turns, Probing
<1> QED
  BY <1>1, <1>3, <1>4, <1>5, EndsKeeps, InputEndsTyped

LEMMA CutShortKeeps ==
    ASSUME IInv, CutShort
    PROVE  Good
<1> DEFINE m == CASE pc = "confirm" -> ConfirmAborted(me, net)
                  [] pc = "direct" -> Aborted(me, "Usual", net)
                  [] OTHER -> Aborted(me, asked, net)
<1>1. /\ Sound(me) /\ net \in Networks \cup {NoNetwork}
      /\ asked \in Beforehand /\ "Usual" \in Beforehand
      /\ Counted(me, tried)
      /\ pc \in {"confirm", "ping", "tls", "direct"} /\ me.tunnel # NoTunnel
      /\ pc = "confirm" => me.health = "Down"
      /\ pc # "confirm" => me.connectAt = "never"
  BY DEF IInv, Fits, Typed, CutShort, Probing, Beforehand
<1>2. /\ Sound(m) /\ m.tunnel = me.tunnel /\ m.health = me.health
      /\ net = NoNetwork => m.failures = me.failures
      /\ pc # "confirm" => m.connectAt = "never"
  <2>1. CASE pc = "confirm"
    BY <1>1, <2>1, ConfirmAbortedDoes
  <2>2. CASE pc = "direct"
    BY <1>1, <2>2, AbortedDoes
  <2>3. CASE pc \in {"ping", "tls"}
    <3>1. m = Aborted(me, asked, net)
      BY <2>3
    <3> QED
      BY <1>1, <2>3, <3>1, AbortedDoes
  <2> QED
    BY <1>1, <2>1, <2>2, <2>3
<1>3. Ends(m) /\ UNCHANGED <<wake, net, calm>> /\ moved' = FALSE
      /\ tried' = IF net # NoNetwork THEN 0 ELSE tried
  BY DEF CutShort
<1> HIDE DEF m
<1>4. m.failures \in Nat
  BY <1>2, FailuresCounted
<1>5. Counted(m, tried')
  BY <1>1, <1>2, <1>3, <1>4, LinkAssumption DEF Counted
<1>6. Fits(m, "idle") /\ Turns(m)
  BY <1>1, <1>2 DEF Fits, Turns, Probing
<1>7. Typed'
  BY <1>3 DEF Ends, Sync, IInv, Typed, Beforehand
<1> QED
  BY <1>3, <1>5, <1>6, <1>7, EndsKeeps

(* A check that passes, of a tunnel that is up or has come up again. *)
LEMMA PassedKeeps ==
    ASSUME IInv, UNCHANGED input, pc \in {"ping", "tls"},
           NEW m, Sound(m), m.tunnel = me.tunnel, m.failures = me.failures,
           m.connectAt = "never", Passed(m)
    PROVE  Good
<1>1. me.tunnel # NoTunnel /\ Counted(me, tried)
  BY DEF IInv, Fits, Probing
<1>2. PICK stable \in {FALSE, m.confirmed} :
        /\ Ends([Healthy(m) EXCEPT !.works = FALSE,
                                   !.failures = IF stable THEN 0 ELSE @])
        /\ tried' = IF stable THEN 0 ELSE tried
  BY DEF Passed
<1> DEFINE h == Healthy(m)
           k == IF stable THEN 0 ELSE h.failures
           p == [h EXCEPT !.works = FALSE, !.failures = k]
<1>3. /\ Sound(h) /\ h.tunnel = me.tunnel /\ h.health = "Up"
      /\ h.failures = me.failures /\ h.connectAt = "never"
  BY HealthyDoes
<1>4. Ends(p)
  BY <1>2, <1>3 DEF Sound, Fields
<1>5. k \in 0 .. FAST_TRIES /\ k = IF stable THEN 0 ELSE me.failures
  BY <1>3, NoFailures DEF Sound, Fields
<1> HIDE DEF h, k
<1>6. /\ Sound(p) /\ p.tunnel = me.tunnel /\ p.health = "Up"
      /\ p.failures = k /\ p.connectAt = "never"
  <2>1. h \in Fields /\ D!PatienceBounded(h.degradation)
    BY <1>3 DEF Sound
  <2>2. p \in Fields
    BY <1>5, <2>1 DEF Fields
  <2>3. /\ p.tunnel = h.tunnel /\ p.health = h.health
        /\ p.connectAt = h.connectAt /\ p.degradation = h.degradation
        /\ p.failures = k
    BY <2>1 DEF Fields
  <2> QED
    BY <1>3, <2>1, <2>2, <2>3 DEF Sound
<1> HIDE DEF p
<1>7. Fits(p, "idle") /\ Turns(p)
  BY <1>1, <1>6 DEF Fits, Turns, Probing
<1>8. Counted(p, tried')
  BY <1>1, <1>2, <1>5, <1>6, LinkAssumption DEF Counted
<1> QED
  BY <1>4, <1>7, <1>8, EndsKeeps, InputEndsTyped

(* A check that found nothing: degraded and left, degraded and given up,   *)
(* or a probe past the tunnel.                                             *)
LEMMA SilentKeeps ==
    ASSUME IInv, UNCHANGED <<input, tried>>, pc \in {"ping", "tls"}, Silent
    PROVE  Good
<1>1. /\ Sound(me) /\ me.tunnel # NoTunnel /\ me.connectAt = "never"
      /\ Counted(me, tried)
  BY DEF IInv, Fits, Probing
<1> DEFINE s == [me EXCEPT !.works = FALSE]
           carrying == D!Carrying(s.degradation)
           down == D!Down(s.degradation)
           kept == [s EXCEPT !.degradation = carrying]
<1>2. /\ Sound(s) /\ s.tunnel = me.tunnel /\ s.health = me.health
      /\ s.failures = me.failures /\ s.connectAt = "never"
  BY <1>1 DEF Sound, Fields
<1>3. /\ carrying \in D!Degradations /\ D!PatienceBounded(carrying)
      /\ down \in D!Degradations /\ D!PatienceBounded(down)
  BY <1>2, SoundPatient, StillPatient DEF Patient, Sound
<1>4. \/ Ends([kept EXCEPT !.health = "Degraded"])
      \/ Ends(Lost([kept EXCEPT !.afterDegraded = TRUE]))
      \/ /\ Sync(Unhealthy([s EXCEPT !.degradation = down]))
         /\ Waits("direct")
  <2>1. /\ [s EXCEPT !.degradation = D!Carrying(@)] = kept
        /\ [s EXCEPT !.degradation = D!Down(@)] = [s EXCEPT !.degradation = down]
    BY <1>2 DEF Sound, Fields
  <2> HIDE DEF kept, carrying, down
  <2> QED
    BY <2>1 DEF Silent
<1> HIDE DEF s, carrying, down
<1>5. /\ Sound(kept) /\ kept.tunnel = me.tunnel
      /\ kept.failures = me.failures /\ kept.connectAt = "never"
  BY <1>2, <1>3 DEF Sound, Fields
<1>6. CASE Ends([kept EXCEPT !.health = "Degraded"])
  <2> DEFINE m == [kept EXCEPT !.health = "Degraded"]
  <2>1. Ends(m)
    BY <1>6
  <2> HIDE DEF kept
  <2>2. /\ Sound(m) /\ m.tunnel = me.tunnel /\ m.health = "Degraded"
        /\ m.failures = me.failures /\ m.connectAt = "never"
    BY <1>5 DEF Sound, Fields, Healths
  <2> HIDE DEF m
  <2>3. Fits(m, "idle") /\ Turns(m) /\ Counted(m, tried')
    BY <1>1, <2>2 DEF Fits, Turns, Counted, Probing
  <2> QED
    BY <2>1, <2>3, EndsKeeps, InputEndsTyped
<1>7. CASE Ends(Lost([kept EXCEPT !.afterDegraded = TRUE]))
  <2> DEFINE k == [kept EXCEPT !.afterDegraded = TRUE]
             m == Lost(k)
  <2>1. Ends(m)
    BY <1>7
  <2> HIDE DEF kept
  <2>2. Sound(k) /\ k.tunnel = me.tunnel /\ k.failures = me.failures
    BY <1>5 DEF Sound, Fields
  <2> HIDE DEF k
  <2>3. /\ Sound(m) /\ m.tunnel = me.tunnel /\ m.health = "Down"
        /\ m.failures = me.failures
    BY <2>2, LostDoes
  <2> HIDE DEF m
  <2>4. Fits(m, "idle") /\ Turns(m) /\ Counted(m, tried')
    BY <1>1, <2>3 DEF Fits, Turns, Counted, Probing
  <2> QED
    BY <2>1, <2>4, EndsKeeps, InputEndsTyped
<1>8. CASE /\ Sync(Unhealthy([s EXCEPT !.degradation = down]))
           /\ Waits("direct")
  <2> DEFINE k == [s EXCEPT !.degradation = down]
             m == Unhealthy(k)
  <2>1. Sync(m) /\ Waits("direct")
    BY <1>8
  <2>2. /\ Sound(k) /\ k.tunnel = me.tunnel /\ k.failures = me.failures
        /\ k.connectAt = "never"
    BY <1>2, <1>3 DEF Sound, Fields
  <2> HIDE DEF k
  <2>3. /\ Sound(m) /\ m.tunnel = me.tunnel /\ m.health = "Down"
        /\ m.failures = me.failures /\ m.connectAt = "never"
    BY <2>2, UnhealthyDoes
  <2> HIDE DEF m
  <2>4. Fits(m, pc') /\ Turns(m) /\ Counted(m, tried')
    BY <1>1, <2>1, <2>3 DEF Fits, Turns, Counted, Waits
  <2>5. Typed'
    BY <2>1, InputTyped DEF Sync, Waits, IInv, Typed, Probing
  <2> QED
    BY <2>1, <2>4, <2>5, Synced
<1> QED
  BY <1>4, <1>6, <1>7, <1>8

LEMMA PingedKeeps ==
    ASSUME IInv, Pinged
    PROVE  Good
<1>1. /\ Sound(me) /\ me.tunnel # NoTunnel /\ me.connectAt = "never"
      /\ Counted(me, tried)
      /\ UNCHANGED input /\ pc = "ping"
  BY DEF IInv, Fits, Probing, Pinged
<1>2. CASE Passed([me EXCEPT !.pinged = TRUE])
  <2> DEFINE m == [me EXCEPT !.pinged = TRUE]
  <2>1. /\ Sound(m) /\ m.tunnel = me.tunnel /\ m.failures = me.failures
        /\ m.connectAt = "never"
    BY <1>1 DEF Sound, Fields
  <2>2. Passed(m)
    BY <1>2
  <2> HIDE DEF m
  <2> QED
    BY <1>1, <2>1, <2>2, PassedKeeps
<1>3. CASE Silent /\ UNCHANGED tried
  BY <1>1, <1>3, SilentKeeps
<1>4. CASE /\ me.pinged /\ me.health = "Up"
           /\ Sync([me EXCEPT !.health = "Suspect"])
           /\ Waits("tls") /\ UNCHANGED tried
  <2> DEFINE m == [me EXCEPT !.health = "Suspect"]
  <2>1. /\ Sound(m) /\ m.tunnel = me.tunnel /\ m.failures = me.failures
        /\ m.connectAt = "never" /\ m.health = "Suspect"
    BY <1>1 DEF Sound, Fields, Healths
  <2>2. Sync(m)
    BY <1>4
  <2> HIDE DEF m
  <2>3. Fits(m, pc') /\ Turns(m) /\ Counted(m, tried')
    BY <1>1, <1>4, <2>1 DEF Fits, Turns, Counted, Waits
  <2>4. Typed'
    BY <1>1, <1>4, <2>2, InputTyped DEF Sync, Waits, IInv, Typed, Probing
  <2> QED
    BY <2>2, <2>3, <2>4, Synced
<1>5. CASE /\ UNCHANGED <<me, published, exited>>
           /\ Waits("tls") /\ UNCHANGED tried
  <2>1. Fits(me', pc') /\ Counted(me', tried')
    BY <1>1, <1>5 DEF IInv, Fits, Waits
  <2>2. Typed'
    BY <1>1, <1>5, InputTyped DEF Waits, IInv, Typed, Probing
  <2> QED
    BY <1>5, <2>1, <2>2, Untold DEF Waits
<1> QED
  BY <1>2, <1>3, <1>4, <1>5 DEF Pinged

LEMMA TriedTlsKeeps ==
    ASSUME IInv, TriedTls
    PROVE  Good
<1>1. /\ Sound(me) /\ me.connectAt = "never"
      /\ UNCHANGED input /\ pc = "tls"
  BY DEF IInv, Fits, TriedTls
<1> QED
  BY <1>1, PassedKeeps, SilentKeeps DEF TriedTls

LEMMA DirectKeeps ==
    ASSUME IInv, Direct
    PROVE  Good
<1>1. /\ Fits(me, "idle") /\ Sound(me) /\ Counted(me, tried)
      /\ UNCHANGED input /\ tried' = tried
  BY DEF IInv, Fits, Direct, Probing
<1>2. CASE Ends(Lost(me))
  <2> DEFINE m == Lost(me)
  <2>1. /\ Sound(m) /\ m.tunnel = me.tunnel /\ m.health = "Down"
        /\ m.failures = me.failures
    BY <1>1, LostDoes
  <2>2. Ends(m)
    BY <1>2
  <2> HIDE DEF m
  <2>3. Fits(m, "idle") /\ Turns(m) /\ Counted(m, tried')
    BY <1>1, <2>1 DEF Fits, Turns, Counted, Probing
  <2> QED
    BY <1>1, <2>2, <2>3, EndsKeeps, InputEndsTyped
<1>3. CASE Ends(me)
  <2>1. Turns(me) /\ Counted(me, tried')
    BY <1>1 DEF Turns, Counted
  <2> QED
    BY <1>1, <1>3, <2>1, EndsKeeps, InputEndsTyped
<1> QED
  BY <1>2, <1>3 DEF Direct

-----------------------------------------------------------------------------
(* What the task does not do itself. *)

LEMMA OutsideKeeps ==
    ASSUME IInv, Wakes \/ Moves \/ Exits \/ Calms
    PROVE  Good
<1>1. UNCHANGED task
  BY DEF Wakes, Moves, Exits, Calms
<1>2. Typed'
  BY DEF Wakes, Moves, Exits, Calms, task, input, IInv, Typed
<1>3. Fits(me', pc') /\ Counted(me', tried')
  BY <1>1 DEF task, IInv, Fits, Sound, D!PatienceBounded, Counted
<1> QED
  BY <1>1, <1>2, <1>3, Untold DEF task

(* Time passes, and nothing is told. *)
LEMMA ClockedKeeps ==
    ASSUME IInv, NEW m, Clocked(m), Fits(m, pc),
           m.tunnel = me.tunnel, m.health = me.health, m.works = me.works,
           m.failures = me.failures
    PROVE  Good
<1>1. /\ me' = m
      /\ UNCHANGED <<published, pc, after, asked, input, exited, tried>>
  BY DEF Clocked
<1>2. Typed'
  BY <1>1, InputTyped DEF IInv, Typed
<1>3. Fits(me', pc') /\ Counted(me', tried')
  BY <1>1 DEF IInv, Counted
<1> QED
  BY <1>1, <1>2, <1>3, Untold

LEMMA ClockKeeps ==
    ASSUME IInv, PauseEnds \/ CheckDue \/ Ages \/ Degrades
    PROVE  Good
<1>1. Fits(me, pc) /\ Sound(me)
  BY DEF IInv, Fits
<1>2. CASE PauseEnds
  <2> DEFINE m == [me EXCEPT !.connectAt = "now"]
  <2>1. /\ Sound(m) /\ m.tunnel = me.tunnel /\ m.health = me.health
        /\ m.works = me.works /\ m.failures = me.failures
        /\ m.connectAt = "now"
    BY <1>1 DEF Sound, Fields
  <2>2. Clocked(m) /\ me.connectAt = "pause"
    BY <1>2 DEF PauseEnds
  <2> HIDE DEF m
  <2>3. Fits(m, pc)
    BY <1>1, <2>1, <2>2 DEF Fits
  <2> QED
    BY <2>1, <2>2, <2>3, ClockedKeeps
<1>3. CASE CheckDue
  <2> DEFINE m == [me EXCEPT !.checkAt = "now"]
  <2>1. /\ Sound(m) /\ m.tunnel = me.tunnel /\ m.health = me.health
        /\ m.works = me.works /\ m.failures = me.failures
        /\ m.connectAt = me.connectAt
    BY <1>1 DEF Sound, Fields
  <2>2. Clocked(m)
    BY <1>3 DEF CheckDue
  <2> HIDE DEF m
  <2>3. Fits(m, pc)
    BY <1>1, <2>1 DEF Fits
  <2> QED
    BY <2>1, <2>2, <2>3, ClockedKeeps
<1>4. CASE Ages
  <2> DEFINE m == [me EXCEPT !.young = FALSE]
  <2>1. /\ Sound(m) /\ m.tunnel = me.tunnel /\ m.health = me.health
        /\ m.works = me.works /\ m.failures = me.failures
        /\ m.connectAt = me.connectAt
    BY <1>1 DEF Sound, Fields
  <2>2. Clocked(m)
    BY <1>4 DEF Ages
  <2> HIDE DEF m
  <2>3. Fits(m, pc)
    BY <1>1, <2>1 DEF Fits
  <2> QED
    BY <2>1, <2>2, <2>3, ClockedKeeps
<1>5. CASE Degrades
  <2> DEFINE d == D!Older(me.degradation)
             m == [me EXCEPT !.degradation = d]
  <2>1. d \in D!Degradations /\ D!PatienceBounded(d)
    BY <1>1, SoundPatient, StillPatient DEF Patient, Sound
  <2>2. Clocked([me EXCEPT !.degradation = D!Older(@)])
    BY <1>5 DEF Degrades
  <2>3. Clocked(m)
    BY <1>1, <2>2 DEF Sound, Fields
  <2> HIDE DEF d
  <2>4. /\ Sound(m) /\ m.tunnel = me.tunnel /\ m.health = me.health
        /\ m.works = me.works /\ m.failures = me.failures
        /\ m.connectAt = me.connectAt
    BY <1>1, <2>1 DEF Sound, Fields
  <2> HIDE DEF m
  <2>5. Fits(m, pc)
    BY <1>1, <2>4 DEF Fits
  <2> QED
    BY <2>3, <2>4, <2>5, ClockedKeeps
<1> QED
  BY <1>2, <1>3, <1>4, <1>5

-----------------------------------------------------------------------------
LEMMA StepKeeps == IInv /\ [Next]_vars => Good
<1> SUFFICES ASSUME IInv, [Next]_vars PROVE Good
  OBVIOUS
<1>1. CASE Runs
  BY <1>1, StopKeeps, UnwantedKeeps, WantedKeeps, RaisedKeeps,
     ConfirmedKeeps, LeaveAloneKeeps, UnconfirmedKeeps, PingedKeeps,
     TriedTlsKeeps, DirectKeeps, CutShortKeeps DEF Runs
<1>2. CASE Wakes \/ Moves \/ Exits \/ Calms
  BY <1>2, OutsideKeeps
<1>3. CASE PauseEnds \/ CheckDue \/ Ages \/ Degrades
  BY <1>3, ClockKeeps
<1>4. CASE UNCHANGED vars
  <2>1. Typed' /\ Fits(me', pc') /\ Counted(me', tried')
    BY <1>4 DEF vars, IInv, Typed, Fits, Sound, D!PatienceBounded, Counted
  <2> QED
    BY <1>4, <2>1, Untold DEF vars
<1> QED
  BY <1>1, <1>2, <1>3, <1>4 DEF Next

LEMMA Inductive == Spec => []IInv
<1>1. IInv /\ [Next]_vars => IInv'
  BY StepKeeps DEF Good
<1> QED
  BY <1>1, Initially, PTL DEF Spec

(* The variables keep their types. *)
THEOREM TypeCorrect == Spec => []TypeOK
<1>1. IInv => TypeOK
  <2> SUFFICES ASSUME IInv PROVE TypeOK
    OBVIOUS
  <2>1. me \in Fields /\ tried \in Nat
    BY DEF IInv, Fits, Sound, Counted
  <2> QED
    BY <2>1 DEF IInv, Typed, TypeOK
<1> QED
  BY <1>1, Inductive, PTL

(* The patience of degraded.rs, doubled by each reconnect that did not     *)
(* help and taken back by a check that passes, is never below the setting  *)
(* nor above GROWTH times it, whatever the growth and the settings are.    *)
THEOREM PatienceAlwaysKept == Spec => []PatienceKept
<1>1. IInv => PatienceKept
  BY DEF IInv, Fits, Sound, PatienceKept
<1> QED
  BY <1>1, Inductive, PTL

(* A tunnel that is about to be replaced, in the wait for a connect, in    *)
(* Tunnel::up or in the confirming probe, is published as down.            *)
THEOREM AlwaysGivenUp == Spec => []GivenUp
<1>1. IInv => GivenUp
  BY DEF IInv, Fits, GivenUp
<1> QED
  BY <1>1, Inductive, PTL

(* The resolver knows the interface and the health that the task knows,    *)
(* during every await of the task.                                         *)
THEOREM AlwaysInformed == Spec => []KeptInformed
<1>1. IInv => KeptInformed
  BY DEF IInv
<1> QED
  BY <1>1, Inductive, PTL

(* Fewer than FAST_TRIES connects fail in a row without a pause or a       *)
(* reason to start over, for any FAST_TRIES.                               *)
THEOREM PausesAlwaysKept == Spec => []PausesKept
<1>1. IInv => PausesKept
  BY DEF IInv, Counted, PausesKept
<1> QED
  BY <1>1, Inductive, PTL

(* The states a link publishes are allowed by LinkPromise: the safety part *)
(* of the refinement.  That a suspicion is settled stays with TLC.         *)
THEOREM PromiseHeld == Spec => Promise!Init /\ [][Promise!Next]_(Promise!view)
<1>1. Init => Promise!Init
  <2> SUFFICES ASSUME Init PROVE Promise!Init
    OBVIOUS
  <2>1. PICK grace \in Graces : me = New(net, grace)
    BY DEF Init
  <2>2. me.tunnel = NoTunnel /\ me.health = "Down"
    BY <2>1 DEF New
  <2> QED
    BY <2>2 DEF Init, State, Promise!Init
<1>2. IInv /\ [Next]_vars => [Promise!Next]_(Promise!view)
  BY StepKeeps DEF Good
<1> QED
  BY <1>1, <1>2, Inductive, PTL DEF Spec

-----------------------------------------------------------------------------
(* What of Recovers is safety: a link that has recovered, while nothing    *)
(* goes wrong, stays so.  That it recovers is for TLC.                     *)

(* The fields of a task whose tunnel carries and has nothing more to do    *)
(* than its checks, which know nothing beforehand.                         *)
Sane(m) ==
    /\ m.tunnel # NoTunnel
    /\ m.connectAt = "never"
    /\ m.next = "Usual"
    /\ m.health \in {"Up", "Suspect"}
    /\ ~m.works
    /\ m.network = net

(* The task is so, nothing goes wrong any more, and no wake, network or    *)
(* exit is left for it to see.                                             *)
Recovered ==
    /\ calm
    /\ Sane(me) /\ ~exited /\ ~published.works
    /\ ~wake /\ ~moved
    /\ pc \in {"idle", "ping", "tls"}
    /\ pc # "idle" => asked = "Usual"

(* A step of the task from such fields to such fields. *)
LEMMA SyncRecovered ==
    ASSUME Recovered, NEW m, Sane(m), m.tunnel = me.tunnel, Sync(m),
           UNCHANGED <<calm, net>>, ~wake', ~moved',
           pc' \in {"idle", "ping", "tls"}, pc' # "idle" => asked' = "Usual"
    PROVE  Recovered'
BY DEF Recovered, Sane, State, Sync

LEMMA PassedRecovered ==
    ASSUME Recovered, NEW m \in Fields, Sane(m), m.tunnel = me.tunnel, Passed(m),
           UNCHANGED input
    PROVE  Recovered'
<1>1. PICK stable \in {FALSE, m.confirmed} :
        Ends([Healthy(m) EXCEPT !.works = FALSE,
                                !.failures = IF stable THEN 0 ELSE @])
  BY DEF Passed
<1> DEFINE h == Healthy(m)
           w == [h EXCEPT !.works = FALSE]
           p == [h EXCEPT !.works = FALSE, !.failures = IF stable THEN 0 ELSE @]
<1>2. DOMAIN h = DOMAIN m /\ Sane(h) /\ h.tunnel = m.tunnel
  BY DEF Healthy, Fields, Sane
<1>3. DOMAIN m = {"tunnel", "young", "failures", "connectAt", "confirmed",
                  "checkAt", "next", "network", "works", "health",
                  "degradation", "afterDegraded", "pinged"}
  BY DEF Fields
<1> HIDE DEF h
<1>4. Sane(p) /\ p.tunnel = h.tunnel
  BY <1>2, <1>3 DEF Sane
<1>5. Ends(p)
  BY <1>1 DEF h
<1> HIDE DEF p
<1> QED
  BY <1>2, <1>4, <1>5, SyncRecovered DEF Ends, Recovered, input

LEMMA RecoveredStep ==
    ASSUME IInv, Recovered, [Next]_vars
    PROVE  Recovered'
<1>1. me \in Fields /\ Sane(me)
  BY DEF IInv, Fits, Sound, Recovered
<1>2. CASE Wanted
  <2>1. Followed = me
    BY DEF Followed, Recovered, Sane
  <2>2. Present(Followed) = me /\ ~MaySuspect(me)
    BY <2>1 DEF Present, MaySuspect, MayLookCut, Recovered
  <2>3. Begins /\ (Connect(me) \/ Check(me) \/ Rest(me))
    BY <1>2, <2>2 DEF Wanted
  <2>4. UNCHANGED <<calm, net>> /\ ~wake' /\ ~moved'
    BY <2>3 DEF Begins
  <2>5. CASE Check(me)
    <3> DEFINE c == [[me EXCEPT !.checkAt = "later"] EXCEPT !.next = "Usual"]
    <3>1. /\ me' = c /\ pc' = "ping" /\ asked' = me.next
          /\ UNCHANGED <<published, exited>>
      BY <1>1, <2>5 DEF Check, Sane
    <3>2. Sane(c) /\ c.tunnel = me.tunnel
      BY <1>1 DEF Sane, Fields
    <3> HIDE DEF c
    <3> QED
      BY <2>4, <3>1, <3>2 DEF Recovered, Sane
  <2>6. CASE Rest(me)
    <3>1. Sync(me) /\ pc' = "idle"
      BY <2>6 DEF Rest, Ends
    <3> QED
      BY <1>1, <2>4, <3>1, SyncRecovered
  <2> QED
    BY <1>1, <2>3, <2>5, <2>6 DEF Connect, Connecting, Sane
<1>3. CASE Pinged
  <2>1. pc = "ping" /\ asked = "Usual" /\ UNCHANGED input
    BY <1>3 DEF Pinged, Recovered
  <2>2. CASE Passed([me EXCEPT !.pinged = TRUE])
    <3> DEFINE m == [me EXCEPT !.pinged = TRUE]
    <3>1. m \in Fields /\ Sane(m) /\ m.tunnel = me.tunnel
      BY <1>1 DEF Sane, Fields
    <3> HIDE DEF m
    <3>2. Passed(m)
      BY <2>2 DEF m
    <3> QED
      BY <2>1, <3>1, <3>2, PassedRecovered
  <2>3. CASE /\ IF me.pinged /\ me.health = "Up"
                THEN Sync([me EXCEPT !.health = "Suspect"])
                ELSE UNCHANGED <<me, published, exited>>
             /\ Waits("tls")
    <3> DEFINE m == [me EXCEPT !.health = "Suspect"]
    <3>1. Sane(m) /\ m.tunnel = me.tunnel
      BY <1>1 DEF Sane, Fields
    <3>2. pc' = "tls" /\ asked' = "Usual"
      BY <2>1, <2>3 DEF Waits
    <3>3. CASE Sync(m)
      <4> HIDE DEF m
      <4> QED
        BY <2>1, <3>1, <3>2, <3>3, SyncRecovered DEF input, Recovered
    <3>4. CASE UNCHANGED <<me, published, exited>>
      BY <2>1, <3>2, <3>4 DEF Recovered, Sane, input
    <3> QED
      BY <2>3, <3>3, <3>4
  <2> QED
    BY <1>3, <2>1, <2>2, <2>3 DEF Pinged
<1>4. CASE TriedTls
  <2>1. Passed(me) /\ UNCHANGED input
    BY <1>4 DEF TriedTls, Recovered
  <2> QED
    BY <1>1, <2>1, PassedRecovered
<1>5. CASE PauseEnds \/ CheckDue \/ Ages \/ Degrades
  <2>1. UNCHANGED <<published, pc, asked, input, exited>>
    BY <1>5 DEF PauseEnds, CheckDue, Ages, Degrades, Clocked
  <2>2. \/ me' = [me EXCEPT !.checkAt = "now"]
        \/ me' = [me EXCEPT !.young = FALSE]
        \/ me' = [me EXCEPT !.degradation = D!Older(@)]
    BY <1>5 DEF PauseEnds, CheckDue, Ages, Degrades, Clocked, Recovered, Sane
  <2>3. me'.tunnel = me.tunnel /\ me'.connectAt = me.connectAt
        /\ me'.next = me.next /\ me'.health = me.health
        /\ me'.works = me.works /\ me'.network = me.network
    BY <1>1, <2>2 DEF Fields
  <2> QED
    BY <2>1, <2>3 DEF Recovered, Sane, input
<1>6. CASE UNCHANGED vars
  BY <1>6 DEF vars, Recovered, Sane
<1>7. ~Stop /\ ~Unwanted /\ ~Raised /\ ~Confirmed /\ ~LeaveAlone
      /\ ~Unconfirmed /\ ~Direct /\ ~CutShort
      /\ ~Wakes /\ ~Moves /\ ~Exits /\ ~Calms
  BY DEF Recovered, Stop, Unwanted, Raised, Confirmed, LeaveAlone, Unconfirmed,
         Direct, CutShort, Wakes, Moves, Exits, Calms
<1> QED
  BY <1>2, <1>3, <1>4, <1>5, <1>6, <1>7 DEF Next, Runs

(* Once nothing goes wrong any more, a tunnel that carries, with no wake,  *)
(* network or exit left to see, carries for good: no check, no ping        *)
(* without an answer and no clock takes it down or holds its names back.   *)
THEOREM RecoveredForGood == Spec => [](Recovered => []Carries)
<1>1. IInv /\ Recovered => Carries
  BY DEF IInv, KeptInformed, Recovered, Sane, Carries
<1>2. IInv /\ Recovered /\ [Next]_vars => Recovered'
  BY RecoveredStep
<1> QED
  BY <1>1, <1>2, Inductive, PTL DEF Spec
=============================================================================
