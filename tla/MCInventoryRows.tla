--------------------------- MODULE MCInventoryRows ---------------------------
(* Columns of three bits, -4 .. 3: 4 wraps to -4 and is refused, 9 wraps to 1. *)
(* A microsecond is two ticks.                                               *)
EXTENDS InventoryRows, TLC

CONSTANTS b1, b2, b3, h1, h2, h3

MCBookings == {b1, b2, b3}
MCHoldIds  == {h1, h2, h3}
MCAmounts  == {-1, 0, 2, 3, 4, 9}
MCTimes    == 0 .. 5

Symmetry == Permutations(MCBookings) \cup Permutations(MCHoldIds)
=============================================================================
