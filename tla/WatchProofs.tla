----------------------------- MODULE WatchProofs -----------------------------
(***************************************************************************)
(* What holds of Watch for any networks, countries and services.           *)
(***************************************************************************)
EXTENDS Watch, FiniteSetTheorems, TLAPS

(* Each network has an interface of its own.                               *)
EachItsOwn == \A n, m \in Networks : Iface[n] = Iface[m] => n = m

-----------------------------------------------------------------------------
(* The types. *)

LEMMA CountryNowIs ==
    ASSUME NEW o \in OwnerCodes \cup {NoCode}, NEW s \in CodesOrNone
    PROVE  CountryNow(o, s) \in Codes
BY WatchAssumption DEF CountryNow, CodesOrNone

LEMMA MajorityIs ==
    ASSUME NEW answers
    PROVE  Majority(answers) \in CodesOrNone
<1> DEFINE given == {s \in Services : answers[s] # NoCode}
           most == {c \in Codes :
                        Cardinality({s \in given : answers[s] = c}) * 2
                            > Cardinality(given)}
<1>1. Majority(answers) =
        IF most = {} THEN NoCode ELSE CHOOSE c \in most : TRUE
  BY DEF Majority
<1>2. most \subseteq Codes
  OBVIOUS
<1> HIDE DEF most
<1>3. most # {} => (CHOOSE c \in most : TRUE) \in most
  OBVIOUS
<1> QED
  BY <1>1, <1>2, <1>3 DEF CodesOrNone

LEMMA TakenIs ==
    ASSUME TypeOK, Finished
    PROVE  Taken(asking) \in [seen : CodesOrNone, seenOn : Maybe,
                              countryAt : {"never", "now", "later"}]
<1>1. Kept \in [seen : CodesOrNone, seenOn : Maybe,
                countryAt : {"never", "now", "later"}]
  BY DEF TypeOK, Kept
<1>2. asking.answer \in CodesOrNone /\ asking.on \in Maybe
  BY DEF TypeOK, Finished
<1> QED
  BY <1>1, <1>2 DEF Taken

LEMMA DetectsTyped == Detects => fakeip' \in BOOLEAN
BY DEF Detects

LEMMA FollowCountryTyped ==
    ASSUME TypeOK, FollowCountry
    PROVE  TypeOK'
<1> DEFINE after == IF Finished THEN Taken(asking) ELSE Kept
           free == Finished \/ asking = NotAsking
           asks == free /\ after.countryAt = "now" /\ network # NoNetwork
<1>1. after \in [seen : CodesOrNone, seenOn : Maybe,
                 countryAt : {"never", "now", "later"}]
  BY TakenIs DEF TypeOK, Kept
<1>2. /\ owner' = flag
      /\ seen' = after.seen
      /\ seenOn' = after.seenOn
      /\ countryAt' = IF asks THEN "never" ELSE after.countryAt
      /\ asking' = CASE asks -> [on |-> network, answer |-> Pending]
                     [] free /\ ~asks -> NotAsking
                     [] OTHER -> asking
      /\ rules' = CountryNow(owner', seen')
      /\ pc' = "idle"
      /\ UNCHANGED <<mac, flag, tracked, network, detection>>
  BY DEF FollowCountry
<1> HIDE DEF after, free
<1>3. /\ seen' \in CodesOrNone /\ seenOn' \in Maybe
      /\ countryAt' \in {"never", "now", "later"}
  BY <1>1, <1>2
<1>4. [on |-> network, answer |-> Pending]
          \in [on : Maybe, answer : CodesOrNone \cup {Pending}]
  BY DEF TypeOK
<1>5. NotAsking \in [on : Maybe, answer : CodesOrNone \cup {Pending}]
  BY DEF NotAsking, Maybe, CodesOrNone
<1>6. asking' \in [on : Maybe, answer : CodesOrNone \cup {Pending}]
  BY <1>2, <1>4, <1>5 DEF TypeOK
<1>7. owner' \in OwnerCodes \cup {NoCode}
  BY <1>2 DEF TypeOK
<1>8. rules' \in Codes
  BY <1>2, <1>3, <1>7, CountryNowIs
<1> QED
  BY <1>2, <1>3, <1>6, <1>7, <1>8 DEF TypeOK, tracked, detection

LEMMA AnsweredTyped ==
    ASSUME TypeOK, Answered
    PROVE  TypeOK'
<1>1. PICK code \in IF Reaches(asking.on)
                    THEN {Majority(a) : a \in Said(asking.on)} \cup {NoCode}
                    ELSE {NoCode} :
            asking' = [asking EXCEPT !.answer = code]
  BY DEF Answered
<1>2. code \in CodesOrNone
  BY <1>1, MajorityIs DEF CodesOrNone
<1>3. asking' \in [on : Maybe, answer : CodesOrNone \cup {Pending}]
  BY <1>1, <1>2 DEF TypeOK
<1> QED
  BY <1>3 DEF Answered, TypeOK, tracked, detection, country

LEMMA TypeStep == TypeOK /\ [Next]_vars => TypeOK'
<1> SUFFICES ASSUME TypeOK, [Next]_vars PROVE TypeOK'
  OBVIOUS
<1> USE DEF TypeOK, tracked, detection, country
<1>1. CASE Track
  BY <1>1 DEF Track
<1>2. CASE Begin
  <2>1. /\ countryAt' \in {"never", "now", "later"}
        /\ fakeip' \in BOOLEAN
        /\ network' \in Maybe
        /\ pc' \in {"idle", "detect", "country"}
    BY <1>2 DEF Begin, Forgotten
  <2> QED
    BY <1>2, <2>1 DEF Begin
<1>3. CASE Detected
  <2>1. fakeip' \in BOOLEAN
    <3>1. CASE Detects
      BY <3>1, DetectsTyped
    <3>2. CASE DetectedNone \/ DetectFails
      BY <3>2 DEF DetectedNone, DetectFails
    <3> QED
      BY <1>3, <3>1, <3>2 DEF Detected
  <2> QED
    BY <1>3, <2>1 DEF Detected
<1>4. CASE FakeipDue
  BY <1>4 DEF FakeipDue
<1>5. CASE FollowCountry
  BY <1>5, FollowCountryTyped
<1>6. CASE Answered
  BY <1>6, AnsweredTyped
<1>7. CASE CountryDue
  BY <1>7 DEF CountryDue
<1>8. CASE Moves \/ OwnerSets
  BY <1>8 DEF Moves, OwnerSets
<1>9. CASE UNCHANGED vars
  BY <1>9 DEF vars
<1> QED
  BY <1>1, <1>2, <1>3, <1>4, <1>5, <1>6, <1>7, <1>8, <1>9 DEF Next

(* The variables keep their types. *)
THEOREM TypeCorrect == Spec => []TypeOK
<1>1. Init => TypeOK
  <2> SUFFICES ASSUME Init PROVE TypeOK
    OBVIOUS
  <2>1. rules \in Codes
    BY CountryNowIs DEF Init
  <2> QED
    BY <2>1 DEF Init, TypeOK, Maybe, CodesOrNone, NotAsking
<1> QED
  BY <1>1, TypeStep, PTL DEF Spec

-----------------------------------------------------------------------------
(* Fake addresses. *)

(* What the watch knows of fake addresses is about its own network, which  *)
(* is the tracker's unless the watch has not looked.                       *)
FakeipInv ==
    /\ fakeip => network \in Faking
    /\ ~unseen => net = network

LEMMA FakeipStep ==
    ASSUME EachItsOwn
    PROVE  TypeOK /\ FakeipInv /\ [Next]_vars => FakeipInv'
<1> SUFFICES ASSUME TypeOK, FakeipInv, [Next]_vars PROVE FakeipInv'
  OBVIOUS
<1> USE DEF FakeipInv, tracked, detection, country
<1>1. CASE Track
  BY <1>1 DEF Track
<1>2. CASE Begin
  BY <1>2 DEF Begin, NewNetwork, Forgotten
<1>3. CASE Detected
  <2>1. CASE DetectedNone \/ DetectFails
    BY <1>3, <2>1 DEF Detected, DetectedNone, DetectFails
  <2>2. CASE Detects
    <3>1. mac = network
      BY <2>2 DEF Detects, Reaches, EachItsOwn, TypeOK, Maybe
    <3> QED
      BY <1>3, <2>2, <3>1 DEF Detected, Detects
  <2> QED
    BY <1>3, <2>1, <2>2 DEF Detected
<1>4. CASE FakeipDue \/ FollowCountry \/ Answered \/ CountryDue
  BY <1>4 DEF FakeipDue, FollowCountry, Answered, CountryDue
<1>5. CASE Moves \/ OwnerSets
  BY <1>5 DEF Moves, OwnerSets
<1>6. CASE UNCHANGED vars
  BY <1>6 DEF vars
<1> QED
  BY <1>1, <1>2, <1>3, <1>4, <1>5, <1>6 DEF Next

(* The resolver takes fake addresses for a network's own only where it     *)
(* answers with them, but for what came late until the watch's next step.  *)
THEOREM FakeipAlwaysKnown ==
    ASSUME EachItsOwn
    PROVE  Spec => []FakeipKnown
<1>1. Init => FakeipInv
  BY DEF Init, FakeipInv
<1>2. FakeipInv => FakeipKnown
  BY DEF FakeipInv, FakeipKnown
<1> QED
  BY <1>1, <1>2, FakeipStep, TypeCorrect, PTL DEF Spec

-----------------------------------------------------------------------------
(* The country. *)

(* However many services there are: when those that are wrong are no more  *)
(* than those that are right, the majority is right, or there is none.     *)
LEMMA MajorityRight ==
    ASSUME mac \in Networks, NEW n, NEW a \in Said(n)
    PROVE  Majority(a) \in {NoCode, CountryOf[mac]}
<1> DEFINE c == CountryOf[mac]
           right == {s \in Services : a[s] = c}
           none == {s \in Services : a[s] = NoCode}
           wrong == Services \ (right \cup none)
           given == {s \in Services : a[s] # NoCode}
           For(x) == {s \in given : a[s] = x}
           most == {x \in Codes : Cardinality(For(x)) * 2 > Cardinality(given)}
<1>1. c \in Codes /\ c # NoCode
  BY WatchAssumption
<1>2. Cardinality(wrong) <= Cardinality(right)
  BY DEF Said
<1>3. /\ IsFiniteSet(right) /\ IsFiniteSet(wrong)
      /\ Cardinality(right) \in Nat /\ Cardinality(wrong) \in Nat
  <2>1. right \in SUBSET Services /\ wrong \in SUBSET Services
    OBVIOUS
  <2>2. IsFiniteSet(Services)
    BY WatchAssumption
  <2> HIDE DEF right, wrong
  <2>3. IsFiniteSet(right) /\ IsFiniteSet(wrong)
    BY <2>1, <2>2, FS_Subset
  <2> QED
    BY <2>3, FS_CardinalityType
<1>4. given = right \cup wrong /\ right \cap wrong = {}
  BY <1>1
<1>5. Cardinality(given) = Cardinality(right) + Cardinality(wrong)
  <2> HIDE DEF right, wrong, given
  <2>1. Cardinality(right \cup wrong) =
            Cardinality(right) + Cardinality(wrong)
                - Cardinality(right \cap wrong)
    BY <1>3, FS_Union
  <2>2. Cardinality(right \cap wrong) = 0
    BY <1>4, FS_EmptySet
  <2>3. Cardinality(given) = Cardinality(right \cup wrong)
    BY <1>4
  <2> QED
    BY <1>3, <2>1, <2>2, <2>3
<1>6. ASSUME NEW x \in most PROVE x = c
  <2> SUFFICES ASSUME x # c PROVE FALSE
    OBVIOUS
  <2>1. For(x) \in SUBSET wrong
    <3>1. x # NoCode
      BY WatchAssumption
    <3> QED
      BY <3>1
  <2>2. Cardinality(For(x)) * 2 > Cardinality(given)
    OBVIOUS
  <2> DEFINE votes == For(x)
  <2> HIDE DEF For, wrong, right, given, most
  <2>3. Cardinality(votes) <= Cardinality(wrong) /\ Cardinality(votes) \in Nat
    BY <1>3, <2>1, FS_Subset, FS_CardinalityType
  <2> QED
    BY <1>2, <1>3, <1>5, <2>2, <2>3
<1>7. Majority(a) = IF most = {} THEN NoCode ELSE CHOOSE x \in most : TRUE
  BY DEF Majority
<1> HIDE DEF most, c
<1>8. most # {} => (CHOOSE x \in most : TRUE) \in most
  OBVIOUS
<1>9. Majority(a) \in {NoCode, c}
  BY <1>6, <1>7, <1>8
<1> QED
  BY <1>9 DEF c

(* An answer is that of the network it was asked for. *)
CountryInv ==
    /\ SeenOnItsNetwork
    /\ asking = NotAsking \/ asking.on \in Networks
    /\ asking.answer \in Codes => asking.answer = CountryOf[asking.on]

LEMMA CountryStep ==
    ASSUME EachItsOwn
    PROVE  TypeOK /\ CountryInv /\ [Next]_vars => CountryInv'
<1> SUFFICES ASSUME TypeOK, CountryInv, [Next]_vars PROVE CountryInv'
  OBVIOUS
<1>1. CASE FollowCountry
  <2> DEFINE after == IF Finished THEN Taken(asking) ELSE Kept
             free == Finished \/ asking = NotAsking
             asks == free /\ after.countryAt = "now" /\ network # NoNetwork
  <2>1. /\ seen' = after.seen
        /\ seenOn' = after.seenOn
        /\ asking' = CASE asks -> [on |-> network, answer |-> Pending]
                       [] free /\ ~asks -> NotAsking
                       [] OTHER -> asking
    BY <1>1 DEF FollowCountry
  <2>2. \/ after.seen = seen /\ after.seenOn = seenOn
        \/ /\ Finished /\ asking.answer # NoCode
           /\ after.seen = asking.answer /\ after.seenOn = asking.on
    BY DEF Taken, Kept
  <2>3. SeenOnItsNetwork'
    <3>1. CASE after.seen = seen /\ after.seenOn = seenOn
      BY <2>1, <3>1 DEF CountryInv, SeenOnItsNetwork
    <3>2. CASE /\ Finished /\ asking.answer # NoCode
               /\ after.seen = asking.answer /\ after.seenOn = asking.on
      <4>1. asking.answer \in Codes
        BY <3>2 DEF Finished, TypeOK, CodesOrNone
      <4> QED
        BY <2>1, <3>2, <4>1 DEF CountryInv, SeenOnItsNetwork
    <3> QED
      BY <2>2, <3>1, <3>2
  <2> HIDE DEF after, free
  <2>4. CASE asks
    <3>1. asking' = [on |-> network, answer |-> Pending]
      BY <2>1, <2>4
    <3>2. asking'.on \in Networks /\ asking'.answer = Pending
      BY <2>4, <3>1 DEF TypeOK, Maybe
    <3>3. Pending \notin Codes
      BY WatchAssumption DEF Pending
    <3> QED
      BY <2>3, <3>2, <3>3 DEF CountryInv
  <2>5. CASE free /\ ~asks
    <3>1. asking' = NotAsking /\ asking'.answer = NoCode
      BY <2>1, <2>5 DEF NotAsking
    <3> QED
      BY <2>3, <3>1, WatchAssumption DEF CountryInv, NotAsking
  <2>6. CASE ~free
    <3>1. asking' = asking
      BY <2>1, <2>6
    <3> QED
      BY <2>3, <3>1 DEF CountryInv
  <2> QED
    BY <2>4, <2>5, <2>6
<1>2. CASE Answered
  <2>1. PICK code \in IF Reaches(asking.on)
                      THEN {Majority(a) : a \in Said(asking.on)} \cup {NoCode}
                      ELSE {NoCode} :
              asking' = [asking EXCEPT !.answer = code]
    BY <1>2 DEF Answered
  <2>2. asking.on \in Networks
    <3>1. asking.answer = Pending
      BY <1>2 DEF Answered
    <3>2. asking # NotAsking
      BY <3>1, WatchAssumption DEF NotAsking, Pending
    <3> QED
      BY <3>2 DEF CountryInv
  <2>3. code \in Codes => code = CountryOf[asking.on]
    <3>1. CASE Reaches(asking.on)
      <4>1. mac = asking.on
        BY <2>2, <3>1 DEF Reaches, EachItsOwn, TypeOK, Maybe
      <4>2. mac \in Networks
        BY <2>2, <4>1
      <4>3. \A a \in Said(asking.on) : Majority(a) \in {NoCode, CountryOf[mac]}
        BY <4>2, MajorityRight
      <4> QED
        BY <2>1, <3>1, <4>1, <4>3, WatchAssumption
    <3>2. CASE ~Reaches(asking.on)
      BY <2>1, <3>2, WatchAssumption
    <3> QED
      BY <3>1, <3>2
  <2>4. asking'.on = asking.on /\ asking'.answer = code
    BY <2>1 DEF TypeOK
  <2> QED
    BY <1>2, <2>2, <2>3, <2>4 DEF CountryInv, SeenOnItsNetwork, Answered
<1>3. CASE \/ Track \/ Begin \/ Detected \/ FakeipDue \/ CountryDue
           \/ Moves \/ OwnerSets \/ UNCHANGED vars
  <2>1. UNCHANGED <<seen, seenOn, asking>>
    BY <1>3 DEF Track, Begin, Detected, FakeipDue, CountryDue, Moves,
        OwnerSets, vars, country
  <2> QED
    BY <2>1 DEF CountryInv, SeenOnItsNetwork
<1> QED
  BY <1>1, <1>2, <1>3 DEF Next

(* The country kept for a network is that network's: no answer counts for  *)
(* a network it did not come from, wherever the Mac went meanwhile.        *)
THEOREM CountryAlwaysOfItsNetwork ==
    ASSUME EachItsOwn
    PROVE  Spec => []SeenOnItsNetwork
<1>1. Init => CountryInv
  BY WatchAssumption DEF Init, CountryInv, SeenOnItsNetwork, NotAsking
<1>2. CountryInv => SeenOnItsNetwork
  BY DEF CountryInv
<1> QED
  BY <1>1, <1>2, CountryStep, TypeCorrect, PTL DEF Spec

-----------------------------------------------------------------------------
(* What of CountrySettles and FakeipSettles is safety: what has settled    *)
(* stays so.  That it settles is for TLC.                                  *)

(* The tracker and the watch are on the network n, and the rules are those *)
(* of the owner's country f, or of the network's, which has been seen.     *)
CountrySettled(n, f) ==
    /\ net = n
    /\ network = n
    /\ IF f # NoCode THEN rules = f
       ELSE seen = CountryOf[n] /\ rules = CountryOf[n]

LEMMA CountrySettledStep ==
    ASSUME NEW n \in Networks, NEW f \in OwnerCodes \cup {NoCode}
    PROVE  /\ TypeOK /\ CountryInv
           /\ Stays(n, f) /\ CountrySettled(n, f)
           /\ [Next]_vars
           => CountrySettled(n, f)'
<1> SUFFICES ASSUME TypeOK, CountryInv, Stays(n, f), CountrySettled(n, f), [Next]_vars
             PROVE  CountrySettled(n, f)'
  OBVIOUS
<1> USE DEF CountrySettled
<1>1. CASE FollowCountry
  <2> DEFINE after == IF Finished THEN Taken(asking) ELSE Kept
  <2>1. /\ owner' = f
        /\ seen' = after.seen
        /\ rules' = CountryNow(owner', seen')
        /\ UNCHANGED <<net, network>>
    BY <1>1 DEF FollowCountry, Stays, tracked
  <2>2. \/ after.seen = seen
        \/ /\ Finished /\ asking.answer # NoCode /\ asking.on = network
           /\ after.seen = asking.answer
    BY DEF Taken, Kept
  <2>3. f = NoCode => seen' = CountryOf[n]
    <3>1. CASE after.seen = seen
      BY <2>1, <3>1
    <3>2. CASE /\ Finished /\ asking.answer # NoCode /\ asking.on = network
               /\ after.seen = asking.answer
      <4>1. asking.answer \in Codes
        BY <3>2 DEF Finished, TypeOK, CodesOrNone
      <4> QED
        BY <2>1, <3>2, <4>1 DEF CountryInv
    <3> QED
      BY <2>2, <3>1, <3>2
  <2>4. CountryOf[n] # NoCode
    BY WatchAssumption
  <2> QED
    BY <2>1, <2>3, <2>4 DEF CountryNow
<1>2. CASE Track
  BY <1>2 DEF Track, Stays
<1>3. CASE Begin
  BY <1>3 DEF Begin, NewNetwork
<1>4. CASE Detected \/ FakeipDue \/ Answered \/ CountryDue
  BY <1>4 DEF Detected, FakeipDue, Answered, CountryDue, tracked, country
<1>5. CASE Moves \/ OwnerSets \/ UNCHANGED vars
  BY <1>5 DEF Moves, OwnerSets, vars, tracked, country
<1> QED
  BY <1>1, <1>2, <1>3, <1>4, <1>5 DEF Next

(* Once the watch has the country of a network, and for as long as the Mac *)
(* and the owner's file stay, the rules in force are those of that         *)
(* country: no late answer, retry or wake changes them.                    *)
THEOREM CountryStaysSettled ==
    ASSUME EachItsOwn, NEW n \in Networks, NEW f \in OwnerCodes \cup {NoCode}
    PROVE  Spec => [](CountrySettled(n, f) /\ []Stays(n, f)
                        => [](rules = IF f # NoCode THEN f ELSE CountryOf[n]))
<1>1. Init => CountryInv
  BY WatchAssumption DEF Init, CountryInv, SeenOnItsNetwork, NotAsking
<1>2. CountrySettled(n, f) => rules = IF f # NoCode THEN f ELSE CountryOf[n]
  BY DEF CountrySettled
<1> QED
  BY <1>1, <1>2, CountryStep, CountrySettledStep, TypeCorrect, PTL DEF Spec

(* The tracker and the watch are on the network n, and the resolver has    *)
(* been told of its fake addresses.                                        *)
FakeipSettled(n) ==
    /\ net = n
    /\ network = n
    /\ fakeip = (use_fakeip /\ n \in Faking)

(* Nothing is detected unless the setting asks for it. *)
AsksBySetting == pc = "detect" => use_fakeip

LEMMA AsksBySettingStep == AsksBySetting /\ [Next]_vars => AsksBySetting'
<1> USE DEF AsksBySetting
<1>1. CASE Begin
  <2>1. pc' = "detect" => use_fakeip
    BY <1>1 DEF Begin
  <2> QED
    BY <2>1
<1>2. CASE \/ Track \/ FakeipDue \/ Answered \/ CountryDue
           \/ Moves \/ OwnerSets \/ UNCHANGED vars
  BY <1>2 DEF Track, FakeipDue, Answered, CountryDue, Moves, OwnerSets, vars
<1>3. CASE Detected \/ FollowCountry
  BY <1>3 DEF Detected, FollowCountry
<1> QED
  BY <1>1, <1>2, <1>3 DEF Next

LEMMA FakeipSettledStep ==
    ASSUME NEW n \in Networks
    PROVE  /\ AsksBySetting
           /\ mac = n /\ FakeipSettled(n)
           /\ [Next]_vars
           => FakeipSettled(n)'
<1> SUFFICES ASSUME AsksBySetting, mac = n, FakeipSettled(n), [Next]_vars
             PROVE  FakeipSettled(n)'
  OBVIOUS
<1> USE DEF FakeipSettled
<1>1. CASE Track
  BY <1>1 DEF Track
<1>2. CASE Begin
  BY <1>2 DEF Begin, NewNetwork
<1>3. CASE Detected
  <2>1. UNCHANGED <<net, network>>
    BY <1>3 DEF Detected
  <2>2. n # NoNetwork
    BY WatchAssumption
  <2>3. fakeip' = fakeip \/ (fakeip' = (n \in Faking) /\ use_fakeip)
    BY <1>3, <2>2 DEF Detected, DetectedNone, Detects, DetectFails, AsksBySetting
  <2> QED
    BY <2>1, <2>3
<1>4. CASE FollowCountry \/ FakeipDue \/ Answered \/ CountryDue
  BY <1>4 DEF FollowCountry, FakeipDue, Answered, CountryDue, tracked, detection
<1>5. CASE Moves \/ OwnerSets \/ UNCHANGED vars
  BY <1>5 DEF Moves, OwnerSets, vars, tracked, detection
<1> QED
  BY <1>1, <1>2, <1>3, <1>4, <1>5 DEF Next

(* Once the resolver knows of the fake addresses of a network, it knows of *)
(* them until the Mac leaves: neither a detection that fails nor one that  *)
(* was under way undoes it.  Two networks on one interface make no         *)
(* difference here.                                                        *)
THEOREM FakeipStaysSettled ==
    ASSUME NEW n \in Networks
    PROVE  Spec => [](FakeipSettled(n) /\ [](mac = n)
                        => [](fakeip = (use_fakeip /\ n \in Faking)))
<1>1. Init => AsksBySetting
  BY DEF Init, AsksBySetting
<1>2. FakeipSettled(n) => fakeip = (use_fakeip /\ n \in Faking)
  BY DEF FakeipSettled
<1> QED
  BY <1>1, <1>2, AsksBySettingStep, FakeipSettledStep, PTL DEF Spec
=============================================================================
