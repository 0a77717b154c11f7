------------------------------ MODULE Registry ------------------------------
(***************************************************************************)
(* The tables behind the API and the requests that read and write them:    *)
(* members (internal/booker), inns and room types with the ownership       *)
(* checks in front of the operator's routes (internal/accommodation), and  *)
(* the way of a booking through these tables (internal/booking).           *)
(*                                                                         *)
(* What a request found out in one statement it uses in a later one: an    *)
(* ownership check, the id of the member, the capacity of the room type.   *)
(* LoadSeed and LoadPrep run beside the API on the same tables, and the    *)
(* first deletes rows.                                                     *)
(*                                                                         *)
(* One date is modelled.  Names, addresses and fees are left out, and with *)
(* them the refusals that depend on nothing else.  The foreign keys and    *)
(* the unique index are the database's, checked by every statement.        *)
(***************************************************************************)
EXTENDS Integers, FiniteSets, Functions, SequencesExt

CONSTANTS
    Guests,        \* subjects of the guests' realm
    Operators,     \* subjects of the operators' realm
    Capacities,    \* capacities an operator may ask for, zero too
    GuestCounts,   \* numbers of guests a booking may be asked for
    Quantities,    \* quantities an operator may ask for
    Requests,      \* API requests that may run at the same time
    MaxRequests    \* bound on the requests begun

ASSUME RegistryAssumption ==
    /\ Capacities \subseteq Int /\ GuestCounts \subseteq Nat /\ Quantities \subseteq Int
    /\ IsFiniteSet(Requests) /\ MaxRequests \in Nat /\ Operators # {}

Inv == INSTANCE InventoryDomain WITH Bookings <- Nat
Domain == INSTANCE BookingDomain

VARIABLES
    bookers,         \* id -> subject
    accommodations,  \* id -> operator_subject
    roomTypes,       \* id -> accommodation_id and capacity
    inventories,     \* room type id -> the inventory of the date
    bookings,        \* id -> booker_id, room_type_id, status and number of guests
    requests,        \* the API's requests
    begun            \* number of requests begun

tables == <<bookers, accommodations, roomTypes, inventories, bookings>>
registryVars == <<tables, requests, begun>>

\* operator_subject of an inn from before the column was added: NULL
Nobody == "nobody"

IdleRequest == [pc |-> "idle"]

\* An operator's inn with a room type, and one from before the column.
Init ==
    /\ bookers = <<>>
    /\ accommodations \in {<<s, Nobody>> : s \in Operators}
    /\ roomTypes = <<[accommodation |-> 1, capacity |-> 1]>>
    /\ inventories = <<>>
    /\ bookings = <<>>
    /\ requests = [r \in Requests |-> IdleRequest]
    /\ begun = 0

-----------------------------------------------------------------------------
(* Rows *)

Put(table, id, row) == [i \in DOMAIN table \cup {id} |-> IF i = id THEN row ELSE table[i]]

(***************************************************************************)
(* uuid.New and gen_random_uuid never draw an id twice.  Here an id may be *)
(* given again once neither a row nor a request knows it: nobody can tell, *)
(* and the states stay few.                                                *)
(***************************************************************************)
Known(field) == {requests[r][field] : r \in {q \in Requests : field \in DOMAIN requests[q]}}

usedInns == DOMAIN accommodations \cup Known("accommodation")
usedRoomTypes == DOMAIN roomTypes \cup Known("roomType") \cup {k.roomType : k \in Known("row")}
usedBookings == DOMAIN bookings \cup Known("booking")

NewIds(used, n) ==
    CHOOSE ids \in [1 .. n -> (1 .. Cardinality(used) + n) \ used] : IsInjective(ids)
NewId(used) == NewIds(used, 1)[1]

InnsOf(s) == {a \in DOMAIN accommodations : accommodations[a] = s}
RoomTypesOf(s) == {t \in DOMAIN roomTypes : roomTypes[t].accommodation \in InnsOf(s)}
BookingsIn(rooms) == {b \in DOMAIN bookings : bookings[b].roomType \in rooms}
MembersOf(s) == {m \in DOMAIN bookers : bookers[m] = s}

HeldIn(rooms) ==
    UNION {{h.bookingId : h \in inventories[t].holds} : t \in rooms \cap DOMAIN inventories}

SubjectIsFree_NoIndex(s) == s \notin {}
\* uq_bookers_subject
SubjectIsFree(s) == MembersOf(s) = {}

\* bookings_booker_id_fkey and bookings_room_type_id_fkey
BookingReferences(k) == k.booker \in DOMAIN bookers /\ k.roomType \in DOMAIN roomTypes

-----------------------------------------------------------------------------
(* Requests *)

Become(r, request) == requests' = [requests EXCEPT ![r] = request]
EndRequest(r) == Become(r, IdleRequest)

At(r, pc) == requests[r].pc = pc

Arrives == begun < MaxRequests /\ begun' = begun + 1

\* A request that will come back to the tables after a first look.
Begin(r, request) ==
    /\ At(r, "idle")
    /\ Arrives
    /\ Become(r, request)
    /\ UNCHANGED tables

\* POST bookers/me, one statement: a second registration is answered 409.
CreateBooker(s) ==
    /\ SubjectIsFree(s)
    /\ Arrives
    /\ bookers' = Put(bookers, NewId(DOMAIN bookers), s)
    /\ UNCHANGED <<accommodations, roomTypes, inventories, bookings, requests>>

\* POST accommodations, one statement
CreateAccommodation(s) ==
    /\ Arrives
    /\ accommodations' = Put(accommodations, NewId(usedInns), s)
    /\ UNCHANGED <<bookers, roomTypes, inventories, bookings, requests>>

OwnsAccommodation(s, a) == a \in InnsOf(s)

\* POST room-types passes RequireAccommodationOwner.
BeginRoomType(r, s, a) ==
    /\ OwnsAccommodation(s, a)
    /\ Begin(r, [pc |-> "room_type", subject |-> s, accommodation |-> a])

CreateRoomType(r, capacity) ==
    LET a == requests[r].accommodation IN
    /\ At(r, "room_type")
    /\ IF capacity >= 1 /\ a \in DOMAIN accommodations
       THEN roomTypes' = Put(roomTypes, NewId(usedRoomTypes),
                             [accommodation |-> a, capacity |-> capacity])
       ELSE UNCHANGED roomTypes
    /\ EndRequest(r)
    /\ UNCHANGED <<bookers, accommodations, inventories, bookings, begun>>

OwnsRoomType(s, t) == t \in RoomTypesOf(s)

\* The routes of a room type's inventories pass RequireRoomTypeOwner.
BeginInventory(r, s, t) ==
    /\ OwnsRoomType(s, t)
    /\ Begin(r, [pc |-> "inventory", subject |-> s, roomType |-> t])

Registered(t) == t \in DOMAIN inventories

\* Register and ChangeQuantity; the other operations of the service have the
\* same way in and the same transaction.
OperateInventory(r, quantity) ==
    LET t == requests[r].roomType IN
    /\ At(r, "inventory")
    /\ \/ /\ ~Registered(t) /\ t \in DOMAIN roomTypes /\ Inv!validQuantity(quantity)
          /\ inventories' = Put(inventories, t, Inv!NewInventory(quantity, 1))
       \/ /\ Registered(t) /\ Inv!CanChangeQuantity(inventories[t], quantity)
          /\ inventories' = Put(inventories, t, Inv!AfterChangeQuantity(inventories[t], quantity))
       \/ UNCHANGED inventories      \* refused, or fails
    /\ EndRequest(r)
    /\ UNCHANGED <<bookers, accommodations, roomTypes, bookings, begun>>

-----------------------------------------------------------------------------
(* Book: a stay of one night *)

\* currentBooker; the id of the room type comes with the request.
BeginBook(r, s, t, n) ==
    \E m \in MembersOf(s) :
        Begin(r, [pc |-> "capacity", subject |-> s,
                  row |-> [booker |-> m, roomType |-> t, guests |-> n,
                           status |-> Domain!TemporaryHold]])

ReadCapacity(r) ==
    LET k == requests[r].row IN
    /\ At(r, "capacity")
    /\ IF /\ k.roomType \in DOMAIN roomTypes
          /\ k.guests \in 1 .. roomTypes[k.roomType].capacity
       THEN Become(r, [requests[r] EXCEPT !.pc = "create"])
       ELSE EndRequest(r)
    /\ UNCHANGED <<tables, begun>>

\* The id is new: UpsertBooking can only insert.
CreateBooking(r) ==
    LET k == requests[r].row
        b == NewId(usedBookings) IN
    /\ At(r, "create")
    /\ IF BookingReferences(k)
       THEN /\ bookings' = Put(bookings, b, k)
            /\ Become(r, [pc |-> "hold", subject |-> requests[r].subject,
                          booking |-> b, row |-> k])
       ELSE EndRequest(r) /\ UNCHANGED bookings
    /\ UNCHANGED <<bookers, accommodations, roomTypes, inventories, begun>>

\* The expiry of a hold is left to BookingProcess: 1 is some instant to come.
CanHold(t, b) ==
    /\ Registered(t)
    /\ b \in DOMAIN bookings           \* holds_booking_id_fkey
    /\ Inv!CanHold(inventories[t], b, 1, 0)

HoldNight(r) ==
    LET b == requests[r].booking
        t == requests[r].row.roomType IN
    /\ At(r, "hold")
    /\ IF CanHold(t, b)
       THEN /\ inventories' = Put(inventories, t, Inv!AfterHold(inventories[t], b, 1))
            /\ Become(r, [requests[r] EXCEPT !.pc = "save"])
       ELSE \* compensate: no night was held, the booking in memory is cancelled
            /\ Become(r, [requests[r] EXCEPT !.pc = "save", !.row.status = Domain!Cancelled])
            /\ UNCHANGED inventories
    /\ UNCHANGED <<bookers, accommodations, roomTypes, bookings, begun>>

\* The last save writes the booking in memory, and inserts it again when its row
\* is gone.
SaveBooking(r) ==
    LET b == requests[r].booking
        k == requests[r].row IN
    /\ At(r, "save")
    /\ bookings' = IF b \in DOMAIN bookings \/ BookingReferences(k)
                   THEN Put(bookings, b, k) ELSE bookings
    /\ EndRequest(r)
    /\ UNCHANGED <<bookers, accommodations, roomTypes, inventories, begun>>

-----------------------------------------------------------------------------
(* Cancel *)

OwnsBooking_Any(s, b) == b \in DOMAIN bookings /\ MembersOf(s) # {}

\* ownBooking: the routes of one booking answer 404 to everyone else.
OwnsBooking(s, b) == b \in DOMAIN bookings /\ bookings[b].booker \in MembersOf(s)

BeginCancel(r, s, b) ==
    /\ OwnsBooking(s, b)
    /\ Begin(r, [pc |-> "cancel", subject |-> s, booking |-> b])

CancelBooking(r) ==
    LET b == requests[r].booking IN
    /\ At(r, "cancel")
    /\ IF b \in DOMAIN bookings        \* ErrBookingNotFound otherwise
       THEN /\ bookings' = [bookings EXCEPT ![b].status = Domain!Cancelled]
            /\ Become(r, [pc |-> "release", subject |-> requests[r].subject,
                          booking |-> b, roomType |-> bookings[b].roomType])
       ELSE EndRequest(r) /\ UNCHANGED bookings
    /\ UNCHANGED <<bookers, accommodations, roomTypes, inventories, begun>>

ReleaseNight(r) ==
    LET b == requests[r].booking
        t == requests[r].roomType IN
    /\ At(r, "release")
    /\ inventories' = IF Registered(t) /\ Inv!CanRelease(inventories[t], b)
                      THEN Put(inventories, t, Inv!AfterRelease(inventories[t], b))
                      ELSE inventories
    /\ EndRequest(r)
    /\ UNCHANGED <<bookers, accommodations, roomTypes, bookings, begun>>

\* A statement fails at the request's deadline, or the process is killed.
Cut(r) ==
    /\ ~At(r, "idle")
    /\ EndRequest(r)
    /\ UNCHANGED <<tables, begun>>

Request(r) ==
    \/ \E s \in Operators : \/ \E a \in DOMAIN accommodations : BeginRoomType(r, s, a)
                            \/ \E t \in DOMAIN roomTypes : BeginInventory(r, s, t)
    \/ \E s \in Guests : \/ \E t \in DOMAIN roomTypes, n \in GuestCounts : BeginBook(r, s, t, n)
                         \/ \E b \in DOMAIN bookings : BeginCancel(r, s, b)
    \/ \E capacity \in Capacities : CreateRoomType(r, capacity)
    \/ \E quantity \in Quantities : OperateInventory(r, quantity)
    \/ ReadCapacity(r)
    \/ CreateBooking(r)
    \/ HoldNight(r)
    \/ SaveBooking(r)
    \/ CancelBooking(r)
    \/ ReleaseNight(r)
    \/ Cut(r)

API ==
    \/ \E s \in Guests : CreateBooker(s)
    \/ \E s \in Operators : CreateAccommodation(s)
    \/ \E r \in Requests : Request(r)

=============================================================================
