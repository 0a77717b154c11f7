----------------------------- MODULE MCInventory -----------------------------
(* Three bookings compete for at most two slots: a third is sold out, and a *)
(* slot below another can be freed while the quantity changes.              *)
EXTENDS Inventory, TLC

CONSTANTS b1, b2, b3

MCBookings   == {b1, b2, b3}
MCQuantities == -1 .. 3
MCFees       == {-1, 0, 1}
MCTimes      == 0 .. 2
MCDate       == 1

Symmetry == Permutations(MCBookings)
=============================================================================
