--------------------------- MODULE MCChargePlans ---------------------------
(***************************************************************************)
(* Small instances of ChargePlans for TLC: days of four slots, clocks that *)
(* go forward during day 1 and back during day 3, the job in the last slot *)
(* of the day.                                                             *)
(***************************************************************************)
EXTENDS ChargePlansProperties

Overnight == [start |-> 3, end |-> 1, slots |-> 2]
Morning   == [start |-> 1, end |-> 2, slots |-> 1]

BothOffers == {Overnight, Morning}
OneOffer == {Overnight}
EarlyOffer == {Morning}
=============================================================================
