---------------------------- MODULE PicksProofs ----------------------------
(* What pick promises, for any links in any state and any order.           *)
EXTENDS Picks, WellFoundedInduction, TLAPS

LEMMA LeastOf ==
    ASSUME NEW S \in SUBSET Nat, S # {}
    PROVE  Min(S) \in S /\ \A n \in S : Min(S) <= n
<1> DEFINE R == OpToRel(<, Nat)
<1>1. IsWellFoundedOn(R, Nat)
  BY NatLessThanWellFounded
<1>2. \A x, y \in Nat : x < y => <<x, y>> \in R
  BY DEF OpToRel
<1> HIDE DEF R
<1>3. PICK m \in S : \A n \in S : ~ (<<n, m>> \in R)
  BY <1>1, WFMin
<1>4. \A n \in S : ~ (n < m)
  BY <1>2, <1>3
<1>5. \E k \in S : \A n \in S : k =< n
  BY <1>4
<1> QED
  BY <1>5 DEF Min

(* The first of an order in a set is in that set and in the order, with    *)
(* none of the set before it.                                              *)
LEMMA FirstInOrder ==
    ASSUME NEW order \in Seq(Links), NEW S, NEW i \in DOMAIN order, order[i] \in S
    PROVE  \E j \in DOMAIN order :
              /\ order[j] \in S
              /\ FirstIn(order, S) = order[j]
              /\ \A k \in DOMAIN order : order[k] \in S => j <= k
<1> DEFINE I == {k \in DOMAIN order : order[k] \in S}
<1>1. I \in SUBSET Nat /\ I # {}
  OBVIOUS
<1>2. Min(I) \in I /\ \A n \in I : Min(I) <= n
  BY <1>1, LeastOf
<1> QED
  BY <1>2 DEF FirstIn

(* The rule takes the first tunnel of the first wish that can be granted.  *)
LEMMA PickGrants ==
    ASSUME NEW links \in [Links -> LinkStates], NEW order \in Seq(Links), NEW c
    PROVE  \/ /\ Pick(links, order, c) = NoLink
              /\ Granted(links, order, c) = {}
           \/ \E k \in Granted(links, order, c), j \in DOMAIN order :
                 /\ Pick(links, order, c) = order[j]
                 /\ order[j] \in Wishes(links, order, c)[k]
                 /\ \A n \in DOMAIN order :
                       order[n] \in Wishes(links, order, c)[k] => j <= n
                 /\ \A m \in Granted(links, order, c) : k <= m
<1> DEFINE G == Granted(links, order, c)
           W == Wishes(links, order, c)
<1>1. CASE G = {}
  BY <1>1 DEF Pick
<1>2. CASE G # {}
  <2>1. G \in SUBSET Nat
    BY DEF Granted
  <2>2. Min(G) \in G /\ \A m \in G : Min(G) <= m
    BY <1>2, <2>1, LeastOf
  <2>3. PICK i \in DOMAIN order : order[i] \in W[Min(G)]
    BY <2>2 DEF Granted
  <2>4. PICK j \in DOMAIN order :
              /\ order[j] \in W[Min(G)]
              /\ FirstIn(order, W[Min(G)]) = order[j]
              /\ \A n \in DOMAIN order : order[n] \in W[Min(G)] => j <= n
    BY <2>3, FirstInOrder
  <2> HIDE DEF W, G
  <2>5. Pick(links, order, c) = order[j]
    BY <1>2, <2>4 DEF Pick, G, W
  <2> QED
    BY <2>2, <2>4, <2>5 DEF G, W
<1> QED
  BY <1>1, <1>2

LEMMA WishesHaveIface ==
    ASSUME NEW links, NEW order, NEW c, NEW k \in 1 .. 6,
           NEW t \in Wishes(links, order, c)[k]
    PROVE  t \in Links /\ HasIface(links[t])
<1>1. k = 1 \/ k = 2 \/ k = 3 \/ k = 4 \/ k = 5 \/ k = 6
  OBVIOUS
<1> QED
  BY <1>1 DEF Wishes, WithIface, Carrying, Stood, Fit, Settled, Good

(* A rule takes only tunnels of its order that have an interface, and it   *)
(* has none only while none of them has: "With none carrying, the rule     *)
(* stays where it is, or takes the first tunnel that has an interface".    *)
THEOREM PickHasIface ==
    ASSUME NEW links \in [Links -> LinkStates], NEW order \in Seq(Links), NEW c
    PROVE  LET p == Pick(links, order, c)
           IN  \/ /\ p = NoLink
                  /\ \A i \in DOMAIN order : ~HasIface(links[order[i]])
               \/ /\ \E i \in DOMAIN order : p = order[i]
                  /\ p \in Links
                  /\ HasIface(links[p])
<1>1. CASE Granted(links, order, c) = {}
  <2>1. \A i \in DOMAIN order : order[i] \notin Wishes(links, order, c)[6]
    BY <1>1 DEF Granted
  <2>2. \A i \in DOMAIN order : order[i] \in Links
    OBVIOUS
  <2> QED
    BY <1>1, <2>1, <2>2 DEF Wishes, Pick, WithIface
<1>2. CASE Granted(links, order, c) # {}
  BY <1>2, PickGrants, WishesHaveIface DEF Granted
<1> QED
  BY <1>1, <1>2

(* A tunnel that carries is left only for one earlier in the order that    *)
(* has carried for RETURN.                                                 *)
THEOREM PickKeepsFit ==
    ASSUME NEW links \in [Links -> LinkStates], NEW order \in Seq(Links),
           NEW i \in DOMAIN order, Fit(links[order[i]])
    PROVE  LET p == Pick(links, order, order[i])
           IN  \/ p = order[i]
               \/ p \in Before(order, order[i]) /\ Settled(links[p])
<1> DEFINE c == order[i]
           W == Wishes(links, order, c)
<1>1. c \in Links /\ c \in W[3] /\ W[1] = {} /\ W[2] \subseteq Before(order, c)
      /\ \A t \in W[2] : Settled(links[t])
  BY DEF Wishes, WithIface, Carrying, Stood, Fit
<1>2. 3 \in Granted(links, order, c)
  BY <1>1 DEF Granted
<1>3. PICK k \in Granted(links, order, c) :
            /\ Pick(links, order, c) \in W[k]
            /\ k <= 3
  BY <1>2, PickGrants
<1>4. k = 2 \/ k = 3
  BY <1>1, <1>3 DEF Granted
<1>5. W[3] \subseteq {c}
  BY DEF Wishes
<1> QED
  BY <1>1, <1>3, <1>4, <1>5

(* While a tunnel of the order carries, the rule takes one that does,      *)
(* unless the one it has is being waited for after a wake.                 *)
THEOREM PickTakesFit ==
    ASSUME NEW links \in [Links -> LinkStates], NEW order \in Seq(Links), NEW c,
           NEW i \in DOMAIN order, Fit(links[order[i]]),
           ~(c \in Links /\ HasIface(links[c]) /\ links[c].works)
    PROVE  Fit(links[Pick(links, order, c)])
<1> DEFINE W == Wishes(links, order, c)
<1>1. W[1] = {} /\ order[i] \in W[4]
  BY DEF Wishes, WithIface, Carrying
<1>2. 4 \in Granted(links, order, c)
  BY <1>1 DEF Granted
<1>3. PICK k \in Granted(links, order, c) :
            Pick(links, order, c) \in W[k] /\ k <= 4
  BY <1>2, PickGrants
<1>4. k = 2 \/ k = 3 \/ k = 4
  BY <1>1, <1>3 DEF Granted
<1> QED
  BY <1>3, <1>4 DEF Wishes, Carrying, Stood, Settled

LEMMA BeforeIsEarlier ==
    ASSUME NEW order \in Seq(Links),
           \A n, m \in DOMAIN order : order[n] = order[m] => n = m,
           NEW i \in DOMAIN order
    PROVE  Before(order, order[i]) = {order[n] : n \in {m \in DOMAIN order : m < i}}
<1>1. \A n \in DOMAIN order :
        (\A k \in 1 .. n : order[k] # order[i]) <=> n < i
  OBVIOUS
<1> QED
  BY <1>1 DEF Before

(* If it would have its pick, a rule keeps it: nothing moves between two   *)
(* changes of the links, however often reconcile runs.                     *)
THEOREM PickStays ==
    ASSUME NEW links \in [Links -> LinkStates], NEW order \in Seq(Links),
           \A n, m \in DOMAIN order : order[n] = order[m] => n = m,
           NEW c \in Links
    PROVE  Pick(links, order, Pick(links, order, c)) = Pick(links, order, c)
           \/ Pick(links, order, c) = NoLink
<1> SUFFICES ASSUME Pick(links, order, c) # NoLink
             PROVE  Pick(links, order, Pick(links, order, c)) = Pick(links, order, c)
  OBVIOUS
<1> DEFINE W == Wishes(links, order, c)
<1>1. PICK k \in Granted(links, order, c), j \in DOMAIN order :
         /\ Pick(links, order, c) = order[j]
         /\ order[j] \in W[k]
         /\ \A n \in DOMAIN order : order[n] \in W[k] => j <= n
         /\ \A m \in Granted(links, order, c) : k <= m
  BY PickGrants
<1> DEFINE p == order[j]
           V == Wishes(links, order, p)
<1>2. p \in Links /\ k \in 1 .. 6 /\ j \in Nat
  BY DEF Granted
<1>3. CASE k = 1 \/ k = 3 \/ k = 5
  BY <1>1, <1>3 DEF Wishes
<1>4. ASSUME NEW n \in 1 .. 6, p \in V[n], V[n] \subseteq {p},
             \A m \in 1 .. n - 1, i \in DOMAIN order : order[i] \notin V[m]
      PROVE  Pick(links, order, p) = p
  <2>1. n \in Granted(links, order, p)
    BY <1>4 DEF Granted
  <2>2. PICK m \in Granted(links, order, p) :
              Pick(links, order, p) \in V[m] /\ m <= n
    BY <2>1, PickGrants
  <2>3. m = n
    BY <1>4, <2>2 DEF Granted
  <2> QED
    BY <1>4, <2>2, <2>3
<1>5. CASE k = 2 \/ k = 4
  <2>1. p \in Carrying(links)
    BY <1>1, <1>5 DEF Wishes, Stood, Carrying, Settled
  <2>2. \A i \in DOMAIN order :
          i < j => order[i] \notin Stood(links)
    <3>1. CASE k = 4
      BY <1>1, <3>1 DEF Wishes, Stood, Carrying, Settled
    <3>2. CASE k = 2
      <4>1. p \in Before(order, c)
        BY <1>1, <3>2 DEF Wishes
      <4>2. PICK b \in DOMAIN order :
                  order[b] = order[j] /\ \A n \in 1 .. b : order[n] # c
        BY <4>1 DEF Before
      <4>3. \A i \in DOMAIN order : i < j => order[i] \in Before(order, c)
        BY <4>2, <1>2 DEF Before
      <4> QED
        BY <1>1, <3>2, <4>3 DEF Wishes
    <3> QED
      BY <1>5, <3>1, <3>2
  <2>3. p \in V[3] /\ V[3] \subseteq {p} /\ V[1] = {}
    BY <2>1 DEF Wishes, Carrying, Fit
  <2>4. \A i \in DOMAIN order : order[i] \notin V[2]
    BY <2>2, BeforeIsEarlier DEF Wishes
  <2> HIDE DEF V, p
  <2>5. Pick(links, order, p) = p
    BY <2>3, <2>4, <1>4
  <2> QED
    BY <1>1, <2>5 DEF p
<1>6. CASE k = 6
  <2>1. \A i \in DOMAIN order : order[i] \notin Carrying(links)
    BY <1>1, <1>6 DEF Granted, Wishes
  <2>2. p \in WithIface(links)
    BY <1>1, <1>6 DEF Wishes
  <2>3. CASE links[p].works
    <3>1. p \in V[1] /\ V[1] \subseteq {p}
      BY <2>2, <2>3 DEF Wishes
    <3> HIDE DEF V, p
    <3>2. Pick(links, order, p) = p
      BY <3>1, <1>4
    <3> QED
      BY <1>1, <3>2 DEF p
  <2>4. CASE ~links[p].works
    <3>1. /\ p \in V[5] /\ V[5] \subseteq {p}
          /\ V[1] = {} /\ V[2] = {} /\ V[3] = {}
          /\ \A i \in DOMAIN order : order[i] \notin V[4]
      BY <2>1, <2>2, <2>4 DEF Wishes
    <3> HIDE DEF V, p
    <3>2. Pick(links, order, p) = p
      BY <3>1, <1>4
    <3> QED
      BY <1>1, <3>2 DEF p
  <2> QED
    BY <2>3, <2>4
<1> QED
  BY <1>2, <1>3, <1>5, <1>6
=============================================================================
