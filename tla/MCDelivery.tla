----------------------------- MODULE MCDelivery -----------------------------
(***************************************************************************)
(* Two orders that go from one driver to another and back, while two       *)
(* settlements close the drivers' earnings.                                *)
(***************************************************************************)
EXTENDS Delivery, TLC

MCSymmetry ==
  Permutations(Orders) \cup Permutations(Drivers)
    \cup Permutations(Dispatchers) \cup Permutations(Settlers)
=============================================================================
