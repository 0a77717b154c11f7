------------------------------- MODULE Search -------------------------------
(***************************************************************************)
(* The vacancy search of internal/search: one SQL query (db/queries/search *)
(* /search.sql) over the rows that the inventory service keeps, next to    *)
(* the aggregates that decide what can be booked.  The query counts, joins *)
(* and groups rows; Book holds night after night through the aggregate.    *)
(* The two share no code and have to agree in every state the service can  *)
(* reach.                                                                  *)
(*                                                                         *)
(* The criteria and the sum of the fees pass through 32 bits on their way; *)
(* so does the number of nights, which four digits of a year keep small.   *)
(*                                                                         *)
(* Rows of room types and accommodations do not change here: the program   *)
(* inserts them once, and nothing in it deletes a room type.               *)
(***************************************************************************)
EXTENDS InventoryDomain, Widths

CONSTANTS RoomTypes,
          Dates,          \* consecutive dates, as numbers
          Prefectures,
          PrefectureOf,   \* PrefectureOf[rt]: of the room type's accommodation
          CapacityOf,     \* CapacityOf[rt]: the room type's capacity
          Quantities, Fees,
          Guest,          \* a booking that holds nothing yet
          Asked           \* searches that are made

ASSUME DatesAssumption == Dates \subseteq Nat
ASSUME RoomTypesAssumption == /\ PrefectureOf \in [RoomTypes -> Prefectures]
                              /\ CapacityOf \in [RoomTypes -> Nat \ {0}]
ASSUME GuestAssumption == Guest \notin Bookings
ASSUME OperatorAssumption == Quantities \subseteq Int /\ Fees \subseteq Int
\* What is larger does not reach a column: see InventoryRows.
ASSUME ColumnsAssumption == /\ \A n \in Quantities \cup Fees : n < Half
                            /\ \A rt \in RoomTypes : CapacityOf[rt] < Half

VARIABLE inventories      \* by room type and date: the aggregate, or none
searchVars == <<inventories>>

NoNight == NewInventory(-1, -1)
HasRow(rt, d) == d \in Dates /\ inventories[rt][d] # NoNight

SearchTypeOK == \A rt \in RoomTypes, d \in Dates :
                   HasRow(rt, d) => inventories[rt][d] \in InventoryType

SearchInit == inventories = [rt \in RoomTypes |-> [d \in Dates |-> NoNight]]

-----------------------------------------------------------------------------
(* What the service does to an inventory.  Expiry plays no part: neither the  *)
(* query nor Hold looks at it, and a collected hold is a released one.  The    *)
(* names set these actions apart from those of InventoryRows.              *)

Put(rt, d, v) == inventories' = [inventories EXCEPT ![rt][d] = v]

RegisterNight(rt, d) ==
    /\ ~HasRow(rt, d)
    /\ \E q \in Quantities, f \in Fees :
          validQuantity(q) /\ validFee(f) /\ Put(rt, d, NewInventory(q, f))

OperateNight(rt, d) ==
    LET v == inventories[rt][d] IN
    /\ HasRow(rt, d)
    /\ \/ \E q \in Quantities : CanChangeQuantity(v, q) /\ Put(rt, d, AfterChangeQuantity(v, q))
       \/ \E f \in Fees : validFee(f) /\ Put(rt, d, AfterChangeFee(v, f))
       \/ CanClose(v) /\ Put(rt, d, AfterClose(v))
       \/ CanReopen(v) /\ Put(rt, d, AfterReopen(v))

HoldNight(rt, d, b) ==
    LET v == inventories[rt][d] IN
    HasRow(rt, d) /\ CanHold(v, b, 1, 0) /\ Put(rt, d, AfterHold(v, b, 1))

ReleaseNight(rt, d, b) ==
    LET v == inventories[rt][d] IN
    HasRow(rt, d) /\ CanRelease(v, b) /\ Put(rt, d, AfterRelease(v, b))

SearchNext ==
    \E rt \in RoomTypes, d \in Dates :
        \/ RegisterNight(rt, d)
        \/ OperateNight(rt, d)
        \/ \E b \in Bookings : HoldNight(rt, d, b) \/ ReleaseNight(rt, d, b)

SearchSpec == SearchInit /\ [][SearchNext]_searchVars

-----------------------------------------------------------------------------
(* The queries *)

\* COUNT(h.id) over the LEFT JOIN: a night nobody holds has one row, without id.
HeldCount_Rows(v) == IF v.holds = {} THEN 1 ELSE Cardinality(v.holds)
HeldCount(v) == Cardinality(v.holds)

Anywhere == "anywhere"    \* the empty prefecture of the form
NoLimit == 0              \* an absent max_fee

Criteria == [checkin : Dates, checkout : Nat, guests : Int,
             prefecture : Prefectures \cup {Anywhere}, maxFee : Int]

ASSUME AskedAssumption == Asked \subseteq Criteria

\* Others are refused with ErrInvalidPeriod or ErrInvalidGuests.
validCriteria(c) == c.checkout > c.checkin /\ c.guests >= 1

Nights(c) == {d \in Dates : c.checkin <= d /\ d < c.checkout}

\* The rows of WITH available of one room type.
available_WithClosed(rt, c) ==
    {d \in Nights(c) : /\ HasRow(rt, d)
                       /\ inventories[rt][d].quantityAvailable
                            - HeldCount(inventories[rt][d]) > 0}
available(rt, c) ==
    {d \in Nights(c) : /\ HasRow(rt, d)
                       /\ ~inventories[rt][d].isClosed
                       /\ inventories[rt][d].quantityAvailable
                            - HeldCount(inventories[rt][d]) > 0}

\* SUM of INT is BIGINT.
Fee(rt, c) == MapThenSumSet(LAMBDA d : inventories[rt][d].fee, available(rt, c))

\* HAVING COUNT(av.date) = nights, and the limit on the sum.
EveryNight(rt, c) == Cardinality(available(rt, c)) = c.checkout - c.checkin

\* The parameters of the query are narrowed after validCriteria.
selected(c) ==
    {rt \in RoomTypes :
        /\ EveryNight(rt, c)
        /\ CapacityOf[rt] >= Int32(c.guests)
        /\ c.prefecture \in {Anywhere, PrefectureOf[rt]}
        /\ Int32(c.maxFee) = NoLimit \/ Fee(rt, c) <= Int32(c.maxFee)}

\* SUM(av.fee)::int fails for the whole query.
OutOfRange(c) == \E rt \in selected(c) : Fee(rt, c) >= Half

SearchRoomTypes(c) ==
    IF OutOfRange(c) THEN {}
    ELSE {[roomType |-> rt, totalFee |-> Fee(rt, c)] : rt \in selected(c)}

-----------------------------------------------------------------------------
(* What Book would do if it ran now and alone *)

CanHoldStay(rt, c) ==
    \A d \in c.checkin .. c.checkout - 1 :
        HasRow(rt, d) /\ CanHold(inventories[rt][d], Guest, 1, 0)

\* Hold answers the fee of the night and Book adds them up.
Price(rt, c) ==
    LET sum[d \in c.checkin .. c.checkout] ==
          IF d = c.checkout THEN 0 ELSE inventories[rt][d].fee + sum[d + 1]
    IN  sum[c.checkin]

-----------------------------------------------------------------------------
(* Properties *)

FitsColumn(n) == n \in Columns

\* What search offers can be booked and paid for: no night of it is missing, closed
\* or sold out, the fee shown is what Book will add up and fits its column.  The
\* room is large enough and the limit is kept unless the number asked for does not
\* fit 32 bits: then search may offer what Book refuses, or what exceeds the limit.
OffersCanBeBooked ==
    \A c \in Asked : validCriteria(c) =>
        \A offer \in SearchRoomTypes(c) :
            /\ CanHoldStay(offer.roomType, c)
            /\ offer.totalFee = Price(offer.roomType, c)
            /\ offer.totalFee < Half
            /\ FitsColumn(c.guests) => CapacityOf[offer.roomType] >= c.guests
            /\ c.maxFee # NoLimit /\ FitsColumn(c.maxFee) => offer.totalFee <= c.maxFee

\* A stay that Book can price and that the criteria let through.
Suits(rt, c) ==
    /\ CanHoldStay(rt, c)
    /\ CapacityOf[rt] >= c.guests
    /\ c.prefecture \in {Anywhere, PrefectureOf[rt]}
    /\ c.maxFee = NoLimit \/ Price(rt, c) <= c.maxFee

\* No stay that can be booked is hidden, unless the form excludes it, or another
\* stay that the form lets through costs more than a column holds and makes the
\* whole search fail.  A limit of 2^31 or more may wrap to a lower one.
StaysAreOffered ==
    \A c \in Asked : validCriteria(c) /\ c.maxFee < Half =>
        \/ \A rt \in RoomTypes :
              Suits(rt, c) => \E offer \in SearchRoomTypes(c) : offer.roomType = rt
        \/ \E rt \in RoomTypes : Suits(rt, c) /\ Price(rt, c) >= Half

=============================================================================
