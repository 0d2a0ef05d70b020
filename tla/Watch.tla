------------------------------- MODULE Watch --------------------------------
(***************************************************************************)
(* The watch and the network tracker of daemon.rs: how the daemon learns   *)
(* on which network the Mac is, in which country, and whether the          *)
(* resolver of that network answers with fake addresses.                   *)
(*                                                                         *)
(* The runtime has one thread, so that a stretch of code between two       *)
(* awaits is one action.  The tracker looks at the network and tells it    *)
(* to the resolver and to the watch at once (Track).  A step of the watch  *)
(* is Begin, then Detected when it asked the network for a fake address,   *)
(* and FollowCountry; the country is asked by a task of its own, Answered. *)
(* In between the Mac moves, and the owner sets and removes the country.   *)
(*                                                                         *)
(* An answer is that of the network the question goes out by: it is bound  *)
(* to the interface, so that after a move to another interface none comes, *)
(* and after a move on the same one, the new network answers.              *)
(*                                                                         *)
(* What else a step of the watch does is in KillSwitch (its pf), Routing   *)
(* (reconcile), Link (what it tells them), Lifecycle and Sources.          *)
(***************************************************************************)
EXTENDS Naturals, FiniteSets

CONSTANTS
    Networks,     \* networks the Mac may be on
    NoNetwork,
    Iface,        \* [Networks -> interfaces]
    Faking,       \* networks whose DNS answers with fake addresses
    Codes,        \* countries
    NoCode,
    CountryOf,    \* [Networks -> Codes], what the services should answer
    OwnerCodes,   \* countries the owner sets
    COUNTRY_DEFAULT,
    Services,     \* geo::SERVICES
    use_fakeip    \* the setting

ASSUME WatchAssumption ==
    /\ NoNetwork \notin Networks
    /\ NoCode \notin Codes
    /\ "pending" \notin Codes \cup {NoCode}
    /\ Faking \subseteq Networks
    /\ CountryOf \in [Networks -> Codes]
    /\ DOMAIN Iface = Networks
    /\ OwnerCodes \subseteq Codes
    /\ COUNTRY_DEFAULT \in Codes
    /\ IsFiniteSet(Services)
    /\ use_fakeip \in BOOLEAN

VARIABLES
    mac,        \* the network the Mac is on
    net,        \* as the tracker found it last, and told the resolver
    unseen,     \* and the watch has not looked
    network,    \* Watch::network
    fakeip,     \* the resolver takes fake addresses for the network's own
    fakeipDue,  \* fakeip_at has come
    pc,         \* where the step of the watch is
    flag,       \* COUNTRY_FLAG: what the owner's file says
    owner,      \* Country::owner, as read last
    seen,       \* Country::seen, the code
    seenOn,     \* Country::seen_on
    countryAt,  \* country_at
    asking,     \* the task that asks, and its answer
    rules       \* the country that the rules in force are for

tracked == <<net, unseen>>
detection == <<fakeip, fakeipDue>>
country == <<owner, seen, seenOn, countryAt, asking, rules>>
vars == <<mac, flag, tracked, network, detection, pc, country>>

Maybe == Networks \cup {NoNetwork}
CodesOrNone == Codes \cup {NoCode}
NotAsking == [on |-> NoNetwork, answer |-> NoCode]
Pending == "pending"

-----------------------------------------------------------------------------
(* geo::majority, of what each service said.  A code or none.              *)

(* Mutant: half of the answers will do. *)
HalfOfThem(answers) ==
    LET given == {s \in Services : answers[s] # NoCode}
        most == {c \in Codes :
                    Cardinality({s \in given : answers[s] = c}) * 2
                        >= Cardinality(given)}
    IN  IF given # {} /\ most # {} THEN CHOOSE c \in most : TRUE ELSE NoCode

Majority(answers) ==
    LET given == {s \in Services : answers[s] # NoCode}
        most == {c \in Codes :
                    Cardinality({s \in given : answers[s] = c}) * 2
                        > Cardinality(given)}
    IN  IF most = {} THEN NoCode ELSE CHOOSE c \in most : TRUE

(* Whether a question sent for network n is answered, which is then by the *)
(* network that the Mac is on.                                             *)
Reaches(n) == mac # NoNetwork /\ Iface[mac] = Iface[n]

(* What the services say: each its country or nothing, and those that are  *)
(* wrong about the network are no more than those that are right.          *)
Said(n) ==
    {answers \in [Services -> CodesOrNone] :
        LET right == {s \in Services : answers[s] = CountryOf[mac]}
            none == {s \in Services : answers[s] = NoCode}
        IN  Cardinality(Services \ (right \cup none)) <= Cardinality(right)}

(* Country::now *)
CountryNow(o, s) ==
    CASE o # NoCode -> o
      [] o = NoCode /\ s # NoCode -> s
      [] OTHER -> COUNTRY_DEFAULT

-----------------------------------------------------------------------------
Init ==
    /\ mac \in Maybe
    /\ flag \in OwnerCodes \cup {NoCode}
    /\ net = NoNetwork
    /\ unseen = FALSE
    /\ network = NoNetwork
    /\ fakeip = FALSE
    /\ fakeipDue = TRUE
    /\ pc = "idle"
    /\ owner = flag
    /\ seen \in CodesOrNone
    /\ seenOn = NoNetwork
    /\ countryAt = "never"
    /\ asking = NotAsking
    /\ rules = CountryNow(owner, seen)

-----------------------------------------------------------------------------
(* track_network: what it found differs from what it told last. *)
Track ==
    /\ net # mac
    /\ net' = mac
    /\ unseen' = TRUE
    /\ fakeip' = FALSE
    /\ UNCHANGED <<mac, flag, network, fakeipDue, pc, country>>

-----------------------------------------------------------------------------
(* Watch::follow_network: another network than the watch was on. *)
NewNetwork == unseen /\ net # network

(* Mutant: the answer about the network before stays. *)
NotForgotten(fake) == fake

(* What is known of fake addresses when the network is new: nothing. *)
Forgotten(fake) == FALSE

(* Mutant: on a new network, too, only an old answer is asked again. *)
AsksWhenOld(old) == net # NoNetwork /\ old

(* Whether the country is asked for a new network: back on the one of the  *)
(* last answer, only when that is old.                                     *)
AsksAnew(old) == net # NoNetwork /\ (net # seenOn \/ old)

(* Country::stale, which is so when nothing was seen. *)
MayBeOld == {TRUE} \cup (IF seen = NoCode THEN {} ELSE {FALSE})

(* Watch::step, from its start to the question for a fake address: a wake, *)
(* which only old answers follow up, and the network.                      *)
Begin ==
    /\ pc = "idle"
    /\ \E woke \in BOOLEAN, old \in MayBeOld :
          countryAt' =
            IF (woke /\ old) \/ (NewNetwork /\ AsksAnew(old))
            THEN "now" ELSE countryAt
    /\ unseen' = FALSE
    /\ IF NewNetwork
       THEN network' = net /\ fakeip' = Forgotten(fakeip)
       ELSE UNCHANGED <<network, fakeip>>
    /\ LET due == fakeipDue \/ NewNetwork
       IN  IF due /\ use_fakeip
           THEN pc' = "detect"
           ELSE pc' = "country"
    /\ fakeipDue' = FALSE
    /\ UNCHANGED <<mac, flag, net, owner, seen, seenOn, asking, rules>>

(* Watch::detect_upstream_fakeip, when its answer is there; without a      *)
(* network it asks nothing.                                                *)
DetectedNone ==
    /\ network = NoNetwork
    /\ fakeip' = FALSE

Detects ==
    /\ network # NoNetwork
    /\ Reaches(network)
    /\ fakeip' = (mac \in Faking)

DetectFails ==
    /\ network # NoNetwork
    /\ UNCHANGED fakeip

Detected ==
    /\ pc = "detect"
    /\ DetectedNone \/ Detects \/ DetectFails
    /\ pc' = "country"
    /\ UNCHANGED <<mac, flag, net, unseen, network, fakeipDue, country>>

(* Mutant: only a network seen to answer so is asked again. *)
FakeipDueWhileFaking ==
    /\ ~fakeipDue
    /\ fakeip
    /\ fakeipDue' = TRUE
    /\ UNCHANGED <<mac, flag, tracked, network, fakeip, pc, country>>

(* fakeip_at comes. *)
FakeipDue ==
    /\ ~fakeipDue
    /\ fakeipDue' = TRUE
    /\ UNCHANGED <<mac, flag, tracked, network, fakeip, pc, country>>

-----------------------------------------------------------------------------
(* Watch::take_country: what comes of an answer.  A record of the fields   *)
(* it sets.                                                                *)
Kept == [seen |-> seen, seenOn |-> seenOn, countryAt |-> countryAt]

(* Mutant: the answer counts for whatever network the Mac is on now. *)
TakenAnywhere(asked) ==
    IF asked.answer = NoCode THEN [Kept EXCEPT !.countryAt = "later"]
    ELSE [Kept EXCEPT !.seen = asked.answer, !.seenOn = network]

Taken(asked) ==
    CASE asked.on # network -> Kept
      [] asked.on = network /\ asked.answer = NoCode ->
            [Kept EXCEPT !.countryAt = "later"]
      [] OTHER -> [Kept EXCEPT !.seen = asked.answer, !.seenOn = asked.on]

Finished == asking # NotAsking /\ asking.answer # Pending

(* Watch::follow_country: the owner's file, an answer that came, the next  *)
(* question, and the rules.  The step ends here.                           *)
FollowCountry ==
    /\ pc = "country"
    /\ owner' = flag
    /\ LET after == IF Finished THEN Taken(asking) ELSE Kept
           free == Finished \/ asking = NotAsking
           asks == free /\ after.countryAt = "now" /\ network # NoNetwork
       IN  /\ seen' = after.seen
           /\ seenOn' = after.seenOn
           /\ countryAt' = IF asks THEN "never" ELSE after.countryAt
           /\ asking' =
                CASE asks -> [on |-> network, answer |-> Pending]
                  [] free /\ ~asks -> NotAsking
                  [] OTHER -> asking
    /\ rules' = CountryNow(owner', seen')
    /\ pc' = "idle"
    /\ UNCHANGED <<mac, flag, tracked, network, detection>>

(* geo::country: the services have answered, or the time is up. *)
Answered ==
    /\ asking.answer = Pending
    /\ \E code \in IF Reaches(asking.on)
                   THEN {Majority(a) : a \in Said(asking.on)} \cup {NoCode}
                   ELSE {NoCode} :
          asking' = [asking EXCEPT !.answer = code]
    /\ UNCHANGED <<mac, flag, tracked, network, detection, pc, owner, seen,
                   seenOn, countryAt, rules>>

(* COUNTRY_RETRY has passed. *)
CountryDue ==
    /\ countryAt = "later"
    /\ countryAt' = "now"
    /\ UNCHANGED <<mac, flag, tracked, network, detection, pc, owner, seen,
                   seenOn, asking, rules>>

-----------------------------------------------------------------------------
(* The Mac moves, and the owner changes the country. *)
Moves ==
    /\ mac' \in Maybe \ {mac}
    /\ UNCHANGED <<flag, tracked, network, detection, pc, country>>

OwnerSets ==
    /\ flag' \in (OwnerCodes \cup {NoCode}) \ {flag}
    /\ UNCHANGED <<mac, tracked, network, detection, pc, country>>

Next ==
    \/ Track
    \/ Begin \/ Detected \/ FakeipDue
    \/ FollowCountry \/ Answered \/ CountryDue
    \/ Moves \/ OwnerSets

Spec == Init /\ [][Next]_vars

(* The tracker polls, the watch ticks, the questions have time limits, and *)
(* a network asked again and again answers at last.                        *)
Fairness ==
    /\ WF_vars(Track)
    /\ WF_vars(Begin)
    /\ WF_vars(Detected)
    /\ SF_vars(pc = "detect" /\ Detects /\ Detected)
    /\ WF_vars(FakeipDue)
    /\ WF_vars(FollowCountry)
    /\ WF_vars(Answered)
    /\ SF_vars(Answered /\ asking'.answer # NoCode)
    /\ WF_vars(CountryDue)

FairSpec == Spec /\ Fairness

-----------------------------------------------------------------------------
TypeOK ==
    /\ mac \in Maybe
    /\ net \in Maybe
    /\ unseen \in BOOLEAN
    /\ network \in Maybe
    /\ fakeip \in BOOLEAN
    /\ fakeipDue \in BOOLEAN
    /\ pc \in {"idle", "detect", "country"}
    /\ flag \in OwnerCodes \cup {NoCode}
    /\ owner \in OwnerCodes \cup {NoCode}
    /\ seen \in CodesOrNone
    /\ seenOn \in Maybe
    /\ countryAt \in {"never", "now", "later"}
    /\ asking \in [on : Maybe, answer : CodesOrNone \cup {Pending}]
    /\ rules \in Codes

(* A fake address is taken for an answer of the network's own only where   *)
(* the network answers so; an answer that came late, from the network      *)
(* before, lasts until the watch begins its next step and no longer.       *)
FakeipKnown == fakeip => net \in Faking \/ unseen

(* The country seen on a network is that network's, so that the return to  *)
(* it may take the answer as it is: with an interface for each network.    *)
SeenOnItsNetwork == seenOn # NoNetwork => seen = CountryOf[seenOn]

(* Once the Mac stays and the owner leaves the country alone, the rules in *)
(* force are those of the owner's country, or of the network's.            *)
Stays(n, f) == mac = n /\ flag = f
CountrySettles ==
    \A n \in Networks, f \in OwnerCodes \cup {NoCode} :
        <>[]Stays(n, f)
            => <>[](rules = IF f # NoCode THEN f ELSE CountryOf[n])

(* And the resolver knows of the network's fake addresses, or that it has  *)
(* none.                                                                   *)
FakeipSettles ==
    \A n \in Networks :
        <>[](mac = n) => <>[](fakeip = (use_fakeip /\ n \in Faking))
=============================================================================
