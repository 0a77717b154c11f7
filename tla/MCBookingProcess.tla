-------------------------- MODULE MCBookingProcess --------------------------
(***************************************************************************)
(* Two guests compete for the one room: b1 stays two nights, b2 only the   *)
(* second, so b1 can get its first night and be refused the second.  The   *)
(* operator of the runs that have one changes the second night, too.       *)
(***************************************************************************)
EXTENDS BookingProcess, TLC

CONSTANTS b1, b2, c1, c2

MCBookings == {b1, b2}
MCNights   == 1 .. 2
MCStay     == b1 :> <<1, 2>> @@ b2 :> <<2>>
SoloStay   == b1 :> <<1, 2>>
MCRequests == {c1, c2}
OneRequest == {c1}

Symmetry == Permutations(MCRequests)
=============================================================================
