------------------------------- MODULE LoadSeed -------------------------------
(***************************************************************************)
(* src/server/cmd/loadseed/main.go: replaces the rows of the load test by  *)
(* SQL that goes around the domain model.  Thirteen statements, each       *)
(* committed by itself; the first that fails ends the run, and a killed    *)
(* run leaves what it did.  The API goes on working beside it.             *)
(*                                                                         *)
(* A faulty statement is S_Fault, as elsewhere.                            *)
(***************************************************************************)
EXTENDS Registry, FiniteSetsExt

CONSTANTS
    Inns,              \* -accommodations
    RoomTypesPerInn,   \* -room-types
    SeedMembers,       \* the members' subjects by number: 'loadtest-booker-' || i
    SeedQuantities     \* quantities that random() draws

ASSUME LoadSeedAssumption ==
    /\ Inns \in Nat /\ RoomTypesPerInn \in Nat
    /\ SeedQuantities \subseteq Nat /\ IsFiniteSet(SeedQuantities) /\ SeedQuantities # {}
    /\ SeedMembers \in Seq(Range(SeedMembers)) /\ IsInjective(SeedMembers)

VARIABLE seed          \* the statement to come

marker == "loadtest"

\* The members' ids are fixed: c0000000-...-i.  Ids drawn by the API are positive.
SeedMemberId(i) == 0 - i
SeedMemberIds == {SeedMemberId(i) : i \in DOMAIN SeedMembers}

SeedRooms == RoomTypesOf(marker)
SeedBookings == BookingsIn(SeedRooms)

Statements ==
    <<"delete_holds", "delete_bookings", "delete_inventories", "delete_room_types",
      "delete_accommodations", "delete_bookers",
      "insert_accommodations", "insert_room_types", "insert_inventories",
      "insert_bookers", "insert_bookings", "insert_holds", "insert_guests">>

SeedRuns == seed \in Range(Statements)

\* The statement `name` is next; when the database refuses it, the run is over.
Exec(name, accepted) ==
    \E i \in DOMAIN Statements :
        /\ Statements[i] = name
        /\ seed = name
        /\ seed' = IF ~accepted THEN "failed"
                   ELSE IF i = Len(Statements) THEN "done" ELSE Statements[i + 1]

StartSeed == ~SeedRuns /\ seed' = Statements[1] /\ UNCHANGED tables

SeedKilled == SeedRuns /\ seed' = "killed" /\ UNCHANGED tables

-----------------------------------------------------------------------------
(* deleteStatements.  Each is refused by a foreign key of rows that stay.  *)

Without(table, ids) == Restrict(table, DOMAIN table \ ids)

DeleteHolds ==
    /\ Exec("delete_holds", TRUE)
    /\ inventories' = [t \in DOMAIN inventories |->
                          IF t \in SeedRooms THEN [inventories[t] EXCEPT !.holds = {}]
                          ELSE inventories[t]]
    /\ UNCHANGED <<bookers, accommodations, roomTypes, bookings>>

DeleteBookings_SeededOnly ==
    LET gone == {b \in SeedBookings : bookings[b].booker \in SeedMemberIds} IN
    /\ Exec("delete_bookings", TRUE)
    /\ bookings' = Without(bookings, gone)
    /\ UNCHANGED <<bookers, accommodations, roomTypes, inventories>>

\* Their guests go with them.
DeleteBookings ==
    LET accepted == HeldIn(DOMAIN inventories) \cap SeedBookings = {} IN
    /\ Exec("delete_bookings", accepted)
    /\ bookings' = IF accepted THEN Without(bookings, SeedBookings) ELSE bookings
    /\ UNCHANGED <<bookers, accommodations, roomTypes, inventories>>

DeleteInventories ==
    LET accepted == HeldIn(SeedRooms) = {} IN
    /\ Exec("delete_inventories", accepted)
    /\ inventories' = IF accepted THEN Without(inventories, SeedRooms) ELSE inventories
    /\ UNCHANGED <<bookers, accommodations, roomTypes, bookings>>

DeleteRoomTypes ==
    LET accepted == SeedBookings = {} /\ SeedRooms \cap DOMAIN inventories = {} IN
    /\ Exec("delete_room_types", accepted)
    /\ roomTypes' = IF accepted THEN Without(roomTypes, SeedRooms) ELSE roomTypes
    /\ UNCHANGED <<bookers, accommodations, inventories, bookings>>

DeleteAccommodations ==
    LET accepted == SeedRooms = {} IN
    /\ Exec("delete_accommodations", accepted)
    /\ accommodations' = IF accepted THEN Without(accommodations, InnsOf(marker))
                         ELSE accommodations
    /\ UNCHANGED <<bookers, roomTypes, inventories, bookings>>

\* subject LIKE 'loadtest-booker-%'
DeleteBookers ==
    LET gone == {m \in DOMAIN bookers : bookers[m] \in Range(SeedMembers)}
        accepted == \A b \in DOMAIN bookings : bookings[b].booker \notin gone IN
    /\ Exec("delete_bookers", accepted)
    /\ bookers' = IF accepted THEN Without(bookers, gone) ELSE bookers
    /\ UNCHANGED <<accommodations, roomTypes, inventories, bookings>>

DeleteStatement ==
    \/ DeleteHolds
    \/ DeleteBookings
    \/ DeleteInventories
    \/ DeleteRoomTypes
    \/ DeleteAccommodations
    \/ DeleteBookers

-----------------------------------------------------------------------------
(* The statements that insert *)

\* A table with a new row for each element of a sequence.
WithNew(table, used, rows) ==
    LET ids == NewIds(used, Len(rows)) IN
    [i \in DOMAIN table \cup Range(ids) |->
        IF i \in DOMAIN table THEN table[i] ELSE rows[CHOOSE j \in DOMAIN ids : ids[j] = i]]

InsertAccommodations ==
    LET rows == [j \in 1 .. Inns |-> marker] IN
    /\ Exec("insert_accommodations", TRUE)
    /\ accommodations' = WithNew(accommodations, usedInns, rows)
    /\ UNCHANGED <<bookers, roomTypes, inventories, bookings>>

InsertRoomTypes ==
    LET crossJoin == SetToSeq(InnsOf(marker) \X (1 .. RoomTypesPerInn))
        rows == [j \in DOMAIN crossJoin |->
                    [accommodation |-> crossJoin[j][1], capacity |-> 1]] IN
    /\ Exec("insert_room_types", TRUE)
    /\ roomTypes' = WithNew(roomTypes, usedRoomTypes, rows)
    /\ UNCHANGED <<bookers, accommodations, inventories, bookings>>

\* The primary key refuses a second inventory of a room type and date.
InsertInventories ==
    LET accepted == SeedRooms \cap DOMAIN inventories = {} IN
    /\ Exec("insert_inventories", accepted)
    /\ IF accepted
       THEN \E quantity \in [SeedRooms -> SeedQuantities] :
               inventories' = [t \in DOMAIN inventories \cup SeedRooms |->
                                  IF t \in SeedRooms THEN Inv!NewInventory(quantity[t], 1)
                                  ELSE inventories[t]]
       ELSE UNCHANGED inventories
    /\ UNCHANGED <<bookers, accommodations, roomTypes, bookings>>

InsertBookers ==
    LET accepted == /\ SeedMemberIds \cap DOMAIN bookers = {}
                    /\ \A i \in DOMAIN SeedMembers : SubjectIsFree(SeedMembers[i]) IN
    /\ Exec("insert_bookers", accepted)
    /\ bookers' = IF ~accepted THEN bookers
                  ELSE [m \in DOMAIN bookers \cup SeedMemberIds |->
                           IF m \in SeedMemberIds THEN SeedMembers[0 - m] ELSE bookers[m]]
    /\ UNCHANGED <<accommodations, roomTypes, inventories, bookings>>

HeldCounts_OneMore(quantity) == 0 .. quantity + 1
\* (random() * quantity_available)::int
HeldCounts(quantity) == 0 .. quantity

\* held confirmed bookings for every inventory, closed or not
InsertBookings ==
    /\ Exec("insert_bookings", TRUE)
    /\ \E m \in SeedMemberIds, held \in [SeedRooms -> 0 .. Max(SeedQuantities) + 1] :
          LET target == SeedRooms \cap DOMAIN inventories
              crossJoin == SetToSeq({p \in target \X (1 .. Max(SeedQuantities) + 1) :
                                        p[2] <= held[p[1]]})
              rows == [j \in DOMAIN crossJoin |->
                          [booker |-> m, roomType |-> crossJoin[j][1], guests |-> 0,
                           status |-> Domain!Confirmed]] IN
          /\ \A t \in SeedRooms : IF t \in target
                                  THEN held[t] \in HeldCounts(inventories[t].quantityAvailable)
                                  ELSE held[t] = 0
          /\ bookings' = WithNew(bookings, usedBookings, rows)
    /\ UNCHANGED <<bookers, accommodations, roomTypes, inventories>>

\* row_number() OVER (PARTITION BY room_type_id, checkin_date ORDER BY id): the
\* ids are random, so the order within a room type may be any.
RowNumbers ==
    {n \in [SeedBookings -> 1 .. Cardinality(SeedBookings)] :
        \A t \in SeedRooms :
            {n[b] : b \in BookingsIn({t})} = 1 .. Cardinality(BookingsIn({t}))}

\* Every booking of these room types, whatever its status and whoever made it.
InsertHolds ==
    \E slot \in RowNumbers :
        LET new(t) == {[bookingId |-> b, slotNo |-> slot[b], status |-> Inv!HoldConfirmed,
                        expiredAt |-> Inv!NoExpiry] : b \in BookingsIn({t})}
            accepted == \A t \in SeedRooms :
                           /\ BookingsIn({t}) # {} => Registered(t)       \* fk_holds_inventory
                           /\ Registered(t) => {slot[b] : b \in BookingsIn({t})} \cap
                                                 Inv!UsedSlots(inventories[t]) = {}  \* uq_slot
        IN /\ Exec("insert_holds", accepted)
           /\ inventories' = IF ~accepted THEN inventories
                             ELSE [t \in DOMAIN inventories |->
                                     IF t \in SeedRooms
                                     THEN [inventories[t] EXCEPT !.holds = @ \cup new(t)]
                                     ELSE inventories[t]]
           /\ UNCHANGED <<bookers, accommodations, roomTypes, bookings>>

InsertGuests ==
    /\ Exec("insert_guests", TRUE)
    /\ bookings' = [b \in DOMAIN bookings |->
                       IF b \in SeedBookings THEN [bookings[b] EXCEPT !.guests = @ + 1]
                       ELSE bookings[b]]
    /\ UNCHANGED <<bookers, accommodations, roomTypes, inventories>>

InsertStatement ==
    \/ InsertAccommodations
    \/ InsertRoomTypes
    \/ InsertInventories
    \/ InsertBookers
    \/ InsertBookings
    \/ InsertHolds
    \/ InsertGuests

SeedStep == DeleteStatement \/ InsertStatement \/ SeedKilled

=============================================================================
