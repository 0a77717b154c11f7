------------------------------ MODULE MCSearch ------------------------------
(* Two room types over two nights: a stay of one or two nights, one type that *)
(* is too small, or elsewhere, or too dear.  Columns of three bits, -4 .. 3:   *)
(* two nights for 3 are out of range, 5 guests wrap to -3, a limit of 9 to 1   *)
(* and one of -8 to none.                                                      *)
EXTENDS Search, TLC

CONSTANTS b1, single, double, tokyo, kyoto, guest

MCBookings     == {b1}
MCRoomTypes    == {single, double}
MCPrefectures  == {tokyo, kyoto}
MCPrefectureOf == single :> tokyo @@ double :> kyoto
MCCapacityOf   == single :> 1 @@ double :> 2

MCAsked == [checkin : {1, 2}, checkout : {2, 3}, guests : {1, 2, 5},
            prefecture : {tokyo, Anywhere}, maxFee : {-8, NoLimit, 2, 9}]
=============================================================================
