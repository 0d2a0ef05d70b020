----------------------------- MODULE HostTable ------------------------------
(***************************************************************************)
(* What the kill switch promises of its tables: the abstract specification *)
(* of the resolver's hosts and what pf holds back, as if pf had no lock,   *)
(* no queue and no pfctl that takes its time.                              *)
(*                                                                         *)
(* An answer is held for its rule in the step that makes its addresses     *)
(* hosts of it, a sweep lets go in the step that forgets.  What cannot be  *)
(* said of pf is said to be unknown, and a reload makes it known.          *)
(***************************************************************************)
CONSTANTS
    Rules,
    Addrs,
    NoRule,   \* the rule of an address nobody holds
    Unknown   \* what pf holds is not known

VARIABLES
    active,   \* the rules in force
    hosts,    \* address -> the rule that holds it, or NoRule
    held      \* rule -> the addresses pf holds back for it, or Unknown

table == <<active, hosts, held>>

AsHosts ==
    [r \in Rules |-> IF r \in active THEN {a \in Addrs : hosts[a] = r} ELSE {}]

Init ==
    /\ active \in SUBSET Rules
    /\ hosts \in [Addrs -> Rules \cup {NoRule}]
    /\ held = AsHosts

(* The addresses of an answer go to a rule in force; of those it takes     *)
(* from another rule, pf may still have the old entry.                     *)
Answer(r, as) ==
    /\ r \in active
    /\ hosts' = [a \in Addrs |-> IF a \in as THEN r ELSE hosts[a]]
    /\ held' = IF held = Unknown \/ \E a \in as : hosts[a] \notin {NoRule, r} THEN Unknown
               ELSE [held EXCEPT ![r] = @ \cup as]
    /\ UNCHANGED active

(* Hosts of a rule are forgotten, and let go. *)
Sweep(r, gone) ==
    /\ \A a \in gone : hosts[a] = r
    /\ hosts' = [a \in Addrs |-> IF a \in gone THEN NoRule ELSE hosts[a]]
    /\ held' = IF held = Unknown THEN Unknown ELSE [held EXCEPT ![r] = @ \ gone]
    /\ UNCHANGED active

(* Other rules are in force; the hosts of those that are not are dropped.  *)
Switch(A) ==
    /\ active' = A
    /\ hosts' = [a \in Addrs |-> IF hosts[a] \in A THEN hosts[a] ELSE NoRule]
    /\ held' = IF A = active /\ hosts' = hosts THEN held ELSE Unknown

(* pfctl fails, or the lists change. *)
Forget ==
    /\ held' = Unknown
    /\ UNCHANGED <<active, hosts>>

Reload ==
    /\ held = Unknown
    /\ held' = AsHosts
    /\ UNCHANGED <<active, hosts>>

Next ==
    \/ \E r \in Rules, as \in SUBSET Addrs : Answer(r, as) \/ Sweep(r, as)
    \/ \E A \in SUBSET Rules : Switch(A)
    \/ Forget
    \/ Reload

(* What is unknown does not stay so. *)
Spec == Init /\ [][Next]_table /\ WF_table(Reload)
=============================================================================
