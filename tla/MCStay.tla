-------------------------------- MODULE MCStay --------------------------------
(* Nine days, and columns of four bits, -8 .. 7: a total of 10 wraps to -6 and *)
(* is refused, one of 21 wraps to 5.                                           *)
EXTENDS Stay

MCZones   == {-6, 0, 9}
MCDates   == {7, 8, 9}
MCTotals  == {0, 5, 10, 21}
MCHorizon == 9 * Day
=============================================================================
