------------------------------- MODULE LoadPrep -------------------------------
(***************************************************************************)
(* src/server/cmd/loadprep/main.go: finds or creates one inn with its room *)
(* types and gives the date's inventories a number of vacant rooms before  *)
(* a load test.  It works through the domain model, a statement or a       *)
(* transaction at a time, may be killed anywhere and is run again.         *)
(***************************************************************************)
EXTENDS Registry

CONSTANTS
    PrepRoomTypes,   \* -room-types
    Vacancies        \* -vacancy: a run may be asked for any of these

ASSUME LoadPrepAssumption == PrepRoomTypes \in Nat /\ Vacancies \subseteq Nat

VARIABLE prep        \* the run

rush == "loadtest-rush"

NoPrep == [pc |-> "idle"]
PrepRuns == prep.pc \notin {"idle", "done", "failed", "killed"}

PrepFailed == prep' = [prep EXCEPT !.pc = "failed"]

StartPrep(v) ==
    /\ ~PrepRuns
    /\ prep' = [pc |-> "list_inns", vacancy |-> v]
    /\ UNCHANGED tables

PrepKilled == PrepRuns /\ prep' = [prep EXCEPT !.pc = "killed"] /\ UNCHANGED tables

\* The first of the list; the property below says that there is no second.
ListInns ==
    /\ prep.pc = "list_inns"
    /\ IF InnsOf(rush) # {}
       THEN \E a \in InnsOf(rush) :
               prep' = [pc |-> "list_room_types", vacancy |-> prep.vacancy, inn |-> a]
       ELSE prep' = [prep EXCEPT !.pc = "create_inn"]
    /\ UNCHANGED tables

CreateInn ==
    /\ prep.pc = "create_inn"
    /\ accommodations' = Put(accommodations, NewId(usedInns), rush)
    /\ prep' = [pc |-> "list_room_types", vacancy |-> prep.vacancy, inn |-> NewId(usedInns)]
    /\ UNCHANGED <<bookers, roomTypes, inventories, bookings>>

\* The next room type to prepare, the first `PrepRoomTypes` of the list only.
PrepareFrom(i, rooms) ==
    [pc |-> IF i > PrepRoomTypes THEN "done" ELSE "register",
     vacancy |-> prep.vacancy, inn |-> prep.inn, rooms |-> rooms, i |-> i]

ListRooms ==
    LET rooms == SetToSeq({t \in DOMAIN roomTypes : roomTypes[t].accommodation = prep.inn}) IN
    /\ prep.pc = "list_room_types"
    /\ prep' = IF Len(rooms) < PrepRoomTypes
               THEN [pc |-> "create_room_types", vacancy |-> prep.vacancy, inn |-> prep.inn,
                     rooms |-> rooms]
               ELSE PrepareFrom(1, rooms)
    /\ UNCHANGED tables

CreateRoom ==
    LET rooms == Append(prep.rooms, NewId(usedRoomTypes)) IN
    /\ prep.pc = "create_room_types"
    /\ roomTypes' = Put(roomTypes, NewId(usedRoomTypes), [accommodation |-> prep.inn, capacity |-> 2])
    /\ prep' = IF Len(rooms) < PrepRoomTypes THEN [prep EXCEPT !.rooms = rooms] ELSE PrepareFrom(1, rooms)
    /\ UNCHANGED <<bookers, accommodations, inventories, bookings>>

RegisterVacancy ==
    LET t == prep.rooms[prep.i] IN
    /\ prep.pc = "register"
    /\ IF Registered(t)
       THEN prep' = [prep EXCEPT !.pc = "list_summaries"] /\ UNCHANGED inventories
       ELSE /\ inventories' = Put(inventories, t, Inv!NewInventory(prep.vacancy, 1))
            /\ prep' = PrepareFrom(prep.i + 1, prep.rooms)
    /\ UNCHANGED <<bookers, accommodations, roomTypes, bookings>>

HeldCount_Confirmed(inv) == Cardinality({h \in inv.holds : h.status = Inv!HoldConfirmed})
HeldCount(inv) == Cardinality(inv.holds)

ListSummaries ==
    /\ prep.pc = "list_summaries"
    /\ prep' = [pc |-> "change_quantity", vacancy |-> prep.vacancy, inn |-> prep.inn,
                rooms |-> prep.rooms, i |-> prep.i,
                held |-> HeldCount(inventories[prep.rooms[prep.i]])]
    /\ UNCHANGED tables

\* The number held may no longer be the one that was listed.
ChangeVacancy ==
    LET t == prep.rooms[prep.i]
        n == prep.held + prep.vacancy IN
    /\ prep.pc = "change_quantity"
    /\ IF Inv!CanChangeQuantity(inventories[t], n)
       THEN /\ inventories' = Put(inventories, t, Inv!AfterChangeQuantity(inventories[t], n))
            /\ prep' = PrepareFrom(prep.i + 1, prep.rooms)
       ELSE PrepFailed /\ UNCHANGED inventories
    /\ UNCHANGED <<bookers, accommodations, roomTypes, bookings>>

PrepStep ==
    \/ ListInns
    \/ CreateInn
    \/ ListRooms
    \/ CreateRoom
    \/ RegisterVacancy
    \/ ListSummaries
    \/ ChangeVacancy
    \/ PrepKilled

=============================================================================
