---------------------------- MODULE MCInventoryTx ----------------------------
(* Three transactions for two bookings and at most two slots: a lost update, *)
(* a doubled slot, and two waiting for the row a third one holds.            *)
EXTENDS InventoryTx

CONSTANTS b1, b2, r1, r2, r3

MCBookings   == {b1, b2}
MCRequests   == {r1, r2, r3}
MCQuantities == -1 .. 2
MCFees       == {-1, 1}
MCTimes      == 0 .. 2
MCDate       == 1
=============================================================================
