----------------------------- MODULE OneShotOrder -----------------------------
(***************************************************************************)
(* What the order flow promises about one prepared order, whatever happens  *)
(* inside: it is offered once, it is claimed at most once, only a claimed   *)
(* order is sent to the exchange, it is sent at most once, and an order     *)
(* that was withdrawn (cancelled, expired or forgotten) is never sent.      *)
(***************************************************************************)
CONSTANT Ids
VARIABLE phase

Phases == {"none", "offered", "claimed", "filled", "withdrawn"}

TypeOK == phase \in [Ids -> Phases]

Init == phase = [id \in Ids |-> "none"]

Move(id, from, to) ==
  /\ phase[id] = from
  /\ phase' = [phase EXCEPT ![id] = to]

Offer(id)    == Move(id, "none", "offered")
Claim(id)    == Move(id, "offered", "claimed")
Fill(id)     == Move(id, "claimed", "filled")
Withdraw(id) == Move(id, "offered", "withdrawn")

Next == \E id \in Ids : Offer(id) \/ Claim(id) \/ Fill(id) \/ Withdraw(id)

Spec == Init /\ [][Next]_phase
=============================================================================
