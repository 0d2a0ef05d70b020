---------------------------- MODULE Degradation ----------------------------
(***************************************************************************)
(* The patience with a degraded tunnel: degraded.rs.  A tunnel is degraded *)
(* when no probe gets through it while its peer still answers.  It is left *)
(* alone for `patience`, then given one reconnect; when that does not      *)
(* help, the next wait is twice as long, up to GROWTH times the setting.   *)
(*                                                                         *)
(* Time is counted in units of the setting, and `since` holds the age of   *)
(* the degradation instead of the moment it began: a clock that runs       *)
(* (Older) takes the place of Instant::now.                                *)
(***************************************************************************)
EXTENDS Integers

CONSTANT GROWTH  \* how many times the setting the patience grows to, 1 or more

NotDegraded == -1

(* Degradation: the setting, the patience now, the age of the degradation. *)
Degradations ==
    [grace : Nat, patience : Nat, since : Nat \cup {NotDegraded}]

New(grace) == [grace |-> grace, patience |-> grace, since |-> NotDegraded]

(* Degradation::failed with a tunnel that does not carry: Verdict::Down.    *)
(* The clock stops, the grown patience stays.                              *)
Down(d) == [d EXCEPT !.since = NotDegraded]

(* since.get_or_insert(now) *)
Since(d) == IF d.since = NotDegraded THEN 0 ELSE d.since

(* Verdict::Left; otherwise Verdict::Restart. *)
Left(d) == d.patience = 0 \/ Since(d) < d.patience

(* Degradation::failed with a tunnel that carries. *)
Carrying(d) ==
    [d EXCEPT !.since = IF Left(d) THEN Since(d) ELSE NotDegraded]

Passed(d) == [d EXCEPT !.since = NotDegraded, !.patience = d.grace]

(* Mutant: no limit. *)
HarderWithoutEnd(d) == [d EXCEPT !.patience = 2 * @]

Harder(d) ==
    LET most == d.grace * GROWTH IN
    [d EXCEPT !.patience = IF 2 * @ < most THEN 2 * @ ELSE most]

(* The clock.  Past the patience nothing depends on the age any more. *)
Older(d) ==
    [d EXCEPT !.since = IF @ # NotDegraded /\ @ < d.patience THEN @ + 1 ELSE @]

(* The patience is never below the setting, nor above GROWTH times it, and *)
(* a setting of zero, which is patience without end, stays zero.           *)
PatienceBounded(d) ==
    /\ d.grace <= d.patience
    /\ d.patience <= d.grace * GROWTH
=============================================================================
