----------------------------- MODULE DeliveryLog -----------------------------
(***************************************************************************)
(* What claiming deliveries before processing them promises: every event   *)
(* is applied at most once, and a sender that has been told `received' can *)
(* stop, because the delivery is on record.  It does not promise that the  *)
(* event is ever applied: whoever claimed it may abandon it.               *)
(*                                                                         *)
(* A log that is not strict may also mistake a delivery for one that is on *)
(* record, and tell its sender so.                                         *)
(***************************************************************************)
CONSTANT Deliveries    \* delivery ids

VARIABLES
  strict,              \* nothing but a duplicate is taken for one
  status,              \* what has become of the delivery
  told                 \* deliveries the sender has had a 2xx for

vars == <<strict, status, told>>

TypeOK ==
  /\ strict \in BOOLEAN
  /\ status \in [Deliveries -> {"new", "mistaken", "claimed", "applied", "abandoned"}]
  /\ told \subseteq Deliveries

Init ==
  /\ strict \in BOOLEAN
  /\ status = [d \in Deliveries |-> "new"]
  /\ told = {}

Move(d, from, to) ==
  /\ status[d] \in from
  /\ status' = [status EXCEPT ![d] = to]
  /\ UNCHANGED <<strict, told>>

Mistake(d) == ~strict /\ Move(d, {"new"}, "mistaken")
Claim(d)   == Move(d, {"new", "mistaken"}, "claimed")
Apply(d)   == Move(d, {"claimed"}, "applied")
Abandon(d) == Move(d, {"new", "mistaken", "claimed"}, "abandoned")

Tell(d) ==
  /\ status[d] # "new"
  /\ told' = told \cup {d}
  /\ UNCHANGED <<strict, status>>

Next == \E d \in Deliveries : Mistake(d) \/ Claim(d) \/ Apply(d) \/ Abandon(d) \/ Tell(d)

Spec == Init /\ [][Next]_vars
=============================================================================
