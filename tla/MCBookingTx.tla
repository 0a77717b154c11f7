----------------------------- MODULE MCBookingTx -----------------------------
(* Three requests on one booking: Book's last save, or a payment, meets a    *)
(* change of the guests.  Three ids let a list, Book's list and a new one    *)
(* be disjoint.                                                              *)
EXTENDS BookingTx

CONSTANTS g1, g2, g3, r1, r2, r3

MCGuests   == {g1, g2, g3}
MCRequests == {r1, r2, r3}
=============================================================================
