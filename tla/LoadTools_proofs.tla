--------------------------- MODULE LoadTools_proofs ---------------------------
(***************************************************************************)
(* Theorems of LoadTools: the API and the two commands beside it.  OwnInv  *)
(* says that rows refer to rows, that a request knows only what belongs to *)
(* its login, and that a run of a command knows its own rows.  PrepInv and *)
(* SeedInv say how far an undisturbed run of each command has come.        *)
(***************************************************************************)
EXTENDS LoadTools, TLAPS, FiniteSetTheorems, FunctionTheorems

P == INSTANCE InventoryDomain_proofs WITH Bookings <- Nat

-----------------------------------------------------------------------------
(* Finite sets and new ids *)

\* A finite set can be counted through.
LEMMA Enumerated ==
    ASSUME NEW S, IsFiniteSet(S)
    PROVE  /\ Cardinality(S) \in Nat
           /\ SetToSeq(S) \in [1 .. Cardinality(S) -> S]
           /\ IsInjective(SetToSeq(S))
           /\ \A x \in S : \E i \in 1 .. Cardinality(S) : SetToSeq(S)[i] = x
<1> DEFINE n == Cardinality(S)
           F == [1 .. n -> S]
<1>1. n \in Nat /\ ExistsBijection(1 .. n, S)
    BY FS_CardinalityType
<1>2. \E f \in F : IsInjective(f)
    BY <1>1 DEF ExistsBijection, Bijection, Injection
<1>3. SetToSeq(S) \in F /\ IsInjective(SetToSeq(S))
    BY <1>2 DEF SetToSeq
<1>4. SetToSeq(S) \in Injection(1 .. n, S)
    BY <1>3 DEF Injection
<1>5. IsFiniteSet(1 .. n) /\ Cardinality(1 .. n) = n
    BY <1>1, FS_Interval
<1>6. SetToSeq(S) \in Surjection(1 .. n, S)
    BY <1>4, <1>5, FS_Injection
<1> QED
    BY <1>1, <1>3, <1>6 DEF Surjection

\* The ids that are drawn are positive, unused and distinct.
LEMMA NewIdsAreNew ==
    ASSUME NEW used, IsFiniteSet(used), NEW n \in Nat
    PROVE  /\ NewIds(used, n) \in [1 .. n -> (Nat \ {0}) \ used]
           /\ IsInjective(NewIds(used, n))
<1> DEFINE c == Cardinality(used)
           k == c + n
           I == 1 .. k
           D == I \ used
<1>1. c \in Nat /\ k \in Nat
    BY FS_CardinalityType
<1> HIDE DEF c, k, I, D
<1>2. IsFiniteSet(I) /\ Cardinality(I) = k
    BY <1>1, FS_Interval DEF I
<1>3. IsFiniteSet(D) /\ Cardinality(D) = k - Cardinality(I \cap used)
    BY <1>2, FS_Difference DEF D
<1>4. Cardinality(I \cap used) <= c /\ Cardinality(I \cap used) \in Nat
    BY FS_Intersection, FS_CardinalityType DEF c
<1>5. Cardinality(D) \in Nat /\ Cardinality(D) >= n
    BY <1>1, <1>3, <1>4, FS_CardinalityType DEF k
<1>6. PICK f \in [1 .. Cardinality(D) -> D] : IsInjective(f)
    <2>1. /\ SetToSeq(D) \in [1 .. Cardinality(D) -> D]
          /\ IsInjective(SetToSeq(D))
        BY <1>3, Enumerated
    <2> QED
        BY <2>1
<1> DEFINE g == [i \in 1 .. n |-> f[i]]
<1>7. g \in [1 .. n -> D] /\ IsInjective(g)
    <2>1. \A i \in 1 .. n : i \in 1 .. Cardinality(D)
        BY <1>5
    <2>2. \A i \in 1 .. n : f[i] \in D
        BY <1>6, <2>1
    <2> QED
        BY <1>6, <2>1, <2>2 DEF IsInjective
<1>8. NewIds(used, n) \in [1 .. n -> D] /\ IsInjective(NewIds(used, n))
    BY <1>7 DEF NewIds, c, k, I, D
<1>9. D \subseteq (Nat \ {0}) \ used
    BY <1>1 DEF I, D
<1> QED
    BY <1>8, <1>9

LEMMA NewIdIsNew ==
    ASSUME NEW used, IsFiniteSet(used)
    PROVE  NewId(used) \in (Nat \ {0}) /\ NewId(used) \notin used
BY NewIdsAreNew DEF NewId

\* A set of one value for each element of a finite set is finite.
LEMMA ImageIsFinite ==
    ASSUME NEW S, IsFiniteSet(S), NEW f, DOMAIN f = S
    PROVE  /\ IsFiniteSet({f[x] : x \in S})
           /\ Cardinality({f[x] : x \in S}) <= Cardinality(S)
<1> DEFINE T == {f[x] : x \in S}
           g == [x \in S |-> f[x]]
<1>1. g \in Surjection(S, T)
    BY DEF Surjection
<1> QED
    BY <1>1, FS_Surjection

\* A finite set of numbers has a largest one, and Max names it.
LEMMA FiniteMax ==
    ASSUME NEW S \in SUBSET Nat, IsFiniteSet(S), S # {}
    PROVE  /\ Max(S) \in S
           /\ \A y \in S : Max(S) >= y
<1>0. PICK n, f : n = Cardinality(S) /\ f = SetToSeq(S)
    OBVIOUS
<1>1. /\ n \in Nat /\ f \in [1 .. n -> S]
      /\ \A x \in S : \E i \in 1 .. n : f[i] = x
    BY <1>0, Enumerated
<1> DEFINE Bounded(k) == \E u \in Nat : \A i \in 1 .. k : f[i] <= u
           C == {k \in 0 .. n : ~Bounded(k)}
<1>2. C = {}
    <2>1. SUFFICES ASSUME C # {} PROVE FALSE
        OBVIOUS
    <2>2. C \in SUBSET Nat
        BY <1>1
    <2>3. PICK k \in C : \A y \in C : k <= y
        <3>1. P!Min(C) \in C /\ \A y \in C : P!Min(C) <= y
            BY <2>1, <2>2, P!NatMin
        <3> QED
            BY <3>1
    <2>4. k \in Nat /\ k <= n
        BY <1>1, <2>3
    <2>5. ~Bounded(k)
        BY <2>3
    <2>6. k # 0
        <3>1. Bounded(0)
            OBVIOUS
        <3> QED
            BY <2>5, <3>1
    <2>7. k - 1 \in 0 .. n
        BY <1>1, <2>4, <2>6
    <2>8. k - 1 \notin C
        <3> HIDE DEF C
        <3> QED
            BY <2>3, <2>4
    <2>9. Bounded(k - 1)
        BY <2>7, <2>8
    <2>10. PICK u \in Nat : \A i \in 1 .. k - 1 : f[i] <= u
        BY <2>9
    <2>11. \A i \in 1 .. k : f[i] \in Nat
        <3>1. f \in [1 .. n -> Nat]
            <4> HIDE DEF C
            <4> QED
                BY <1>1
        <3> HIDE DEF C
        <3>2. n \in Nat
            BY <1>1
        <3>3. \A i \in 1 .. k : i \in 1 .. n
            BY <2>4, <3>2
        <3> QED
            BY <3>1, <3>3
    <2>12. f[k] \in Nat
        BY <2>4, <2>6, <2>11
    <2>13. PICK w \in Nat : w = u + f[k]
        BY <2>10, <2>12
    <2>14. ASSUME NEW i \in 1 .. k
           PROVE  f[i] <= w
        <3>1. f[i] \in Nat
            BY <2>11
        <3>2. CASE i = k
            BY <2>10, <2>12, <2>13, <3>2
        <3>3. CASE i # k
            <4>1. i \in 1 .. k - 1
                BY <2>4, <3>3
            <4> QED
                BY <2>10, <2>12, <2>13, <3>1, <4>1
        <3> QED
            BY <3>2, <3>3
    <2>15. Bounded(k)
        BY <2>13, <2>14
    <2> QED
        BY <2>5, <2>15
<1>3. Bounded(n)
    <2>1. n \in 0 .. n
        BY <1>1
    <2>2. n \notin C
        <3> HIDE DEF C
        <3> QED
            BY <1>2
    <2> QED
        BY <2>1, <2>2
<1>4. PICK u \in Nat : \A i \in 1 .. n : f[i] <= u
    BY <1>3
<1>5. \A y \in S : y <= u
    BY <1>1, <1>4
<1>6. P!Max(S) \in S /\ \A y \in S : P!Max(S) >= y
    BY <1>5, P!NatMax
<1> QED
    BY <1>6 DEF P!Max, Max

-----------------------------------------------------------------------------
(* The inductive invariant *)

BookingRow == [booker : Int, roomType : Nat, guests : Nat, status : Domain!Status]

BookersOK ==
    /\ IsFiniteSet(DOMAIN bookers)
    /\ DOMAIN bookers \subseteq Int
    /\ IsInjective(bookers)
    /\ \A m \in DOMAIN bookers : /\ bookers[m] \in Guests \cup Range(SeedMembers)
                                 /\ m \in SeedMemberIds <=> bookers[m] \in Range(SeedMembers)

InnsOK ==
    /\ IsFiniteSet(DOMAIN accommodations)
    /\ DOMAIN accommodations \subseteq Nat

RoomTypesOK ==
    /\ IsFiniteSet(DOMAIN roomTypes)
    /\ DOMAIN roomTypes \subseteq Nat
    /\ \A t \in DOMAIN roomTypes :
          roomTypes[t] \in [accommodation : DOMAIN accommodations, capacity : Nat \ {0}]

BookingsOK ==
    /\ IsFiniteSet(DOMAIN bookings)
    /\ DOMAIN bookings \subseteq Nat
    /\ \A b \in DOMAIN bookings : /\ bookings[b] \in BookingRow
                                  /\ BookingReferences(bookings[b])
                                  /\ bookings[b].booker \in SeedMemberIds =>
                                        bookings[b].roomType \in SeedRooms

InventoriesOK ==
    /\ DOMAIN inventories \subseteq DOMAIN roomTypes
    /\ \A t \in DOMAIN inventories :
          /\ inventories[t] \in Inv!InventoryType
          /\ IsFiniteSet(inventories[t].holds)
          /\ \A h \in inventories[t].holds : /\ h.bookingId \in DOMAIN bookings
                                             /\ bookings[h.bookingId].roomType = t

TablesOK == BookersOK /\ InnsOK /\ RoomTypesOK /\ BookingsOK /\ InventoriesOK

RoomTypeRequest == [pc : {"room_type"}, subject : Operators, accommodation : Nat]
InventoryRequest == [pc : {"inventory"}, subject : Operators, roomType : Nat]
BookRequest == [pc : {"capacity", "create"}, subject : Guests, row : BookingRow]
HoldRequest == [pc : {"hold", "save"}, subject : Guests, booking : Nat, row : BookingRow]
CancelRequest == [pc : {"cancel"}, subject : Guests, booking : Nat]
ReleaseRequest == [pc : {"release"}, subject : Guests, booking : Nat, roomType : Nat]
RequestType == {IdleRequest} \cup RoomTypeRequest \cup InventoryRequest \cup BookRequest
                 \cup HoldRequest \cup CancelRequest \cup ReleaseRequest

\* What a request found out before belongs to its login, if it is still there.
Owned(q) ==
    /\ q.pc = "room_type" =>
          (q.accommodation \in DOMAIN accommodations => q.accommodation \in InnsOf(q.subject))
    /\ q.pc = "inventory" =>
          (q.roomType \in DOMAIN roomTypes => q.roomType \in RoomTypesOf(q.subject))
    /\ q.pc \in {"capacity", "create", "hold", "save"} => q.row.booker \in MembersOf(q.subject)
    /\ q.pc \in {"hold", "save"} =>
          (q.booking \in DOMAIN bookings =>
              /\ bookings[q.booking].booker = q.row.booker
              /\ bookings[q.booking].roomType = q.row.roomType)
    /\ q.pc \in {"cancel", "release"} => (q.booking \in DOMAIN bookings => OwnsBooking(q.subject, q.booking))

\* A booking under way is one request's; others that cancel it are its guest's.
Agree(q, o) ==
    (q.pc \in {"hold", "save"} /\ o.pc \in {"hold", "save", "cancel", "release"}
       /\ o.booking = q.booking) =>
          o.pc \in {"cancel", "release"} /\ q.row.booker \in MembersOf(o.subject)

RequestsOK ==
    /\ requests \in [Requests -> RequestType]
    /\ \A r \in Requests : Owned(requests[r])
    /\ \A r, o \in Requests : r # o => Agree(requests[r], requests[o])

PrepForms ==
    [pc : {"list_inns", "create_inn"}, vacancy : Vacancies]
    \cup [pc : {"list_room_types"}, vacancy : Vacancies, inn : Nat]
    \cup [pc : {"create_room_types"}, vacancy : Vacancies, inn : Nat, rooms : Seq(Nat)]
    \cup [pc : {"register", "list_summaries"}, vacancy : Vacancies, inn : Nat,
          rooms : Seq(Nat), i : Nat]
    \cup [pc : {"change_quantity"}, vacancy : Vacancies, inn : Nat,
          rooms : Seq(Nat), i : Nat, held : Nat]

PrepOK ==
    PrepRuns =>
        /\ prep \in PrepForms
        /\ prep.pc \notin {"list_inns", "create_inn"} => prep.inn \in InnsOf(rush)
        /\ prep.pc \in {"create_room_types", "register", "list_summaries", "change_quantity"} =>
              \A j \in 1 .. Len(prep.rooms) : prep.rooms[j] \in RoomTypesOf(rush)
        /\ prep.pc = "create_room_types" => Len(prep.rooms) < PrepRoomTypes
        /\ prep.pc \in {"register", "list_summaries", "change_quantity"} =>
              prep.i \in 1 .. PrepRoomTypes /\ PrepRoomTypes <= Len(prep.rooms)
        /\ prep.pc \in {"list_summaries", "change_quantity"} => Registered(prep.rooms[prep.i])

RunsOK ==
    /\ SeedRuns => ~PrepRuns
    /\ seed \in {"insert_bookings", "insert_holds", "insert_guests", "done"} =>
          SeedMemberIds \subseteq DOMAIN bookers

OwnInv == TablesOK /\ RequestsOK /\ PrepOK /\ RunsOK

-----------------------------------------------------------------------------
(* A statement writes to one table: what the others need of it *)

LEMMA PutRow ==
    ASSUME NEW table, NEW id, NEW row
    PROVE  /\ DOMAIN Put(table, id, row) = DOMAIN table \cup {id}
           /\ Put(table, id, row)[id] = row
           /\ \A i \in DOMAIN table : i # id => Put(table, id, row)[i] = table[i]
BY DEF Put

LEMMA WithoutRows ==
    ASSUME NEW table, NEW ids
    PROVE  /\ DOMAIN Without(table, ids) = DOMAIN table \ ids
           /\ \A i \in DOMAIN table \ ids : Without(table, ids)[i] = table[i]
BY DEF Without, Restrict

\* Rows that stay refer to the same rows as before.
LEMMA BookersWritten ==
    ASSUME TablesOK, BookersOK',
           UNCHANGED <<accommodations, roomTypes, inventories, bookings>>,
           \A b \in DOMAIN bookings : bookings[b].booker \in DOMAIN bookers'
    PROVE  TablesOK'
<1>1. BookingsOK'
    BY DEF TablesOK, BookingsOK, BookingReferences, SeedRooms, RoomTypesOf, InnsOf
<1>2. InnsOK' /\ RoomTypesOK' /\ InventoriesOK'
    BY DEF TablesOK, InnsOK, RoomTypesOK, InventoriesOK
<1> QED
    BY <1>1, <1>2 DEF TablesOK

LEMMA InnsWritten ==
    ASSUME TablesOK, InnsOK',
           UNCHANGED <<bookers, roomTypes, inventories, bookings>>,
           \A t \in DOMAIN roomTypes :
              /\ roomTypes[t].accommodation \in DOMAIN accommodations'
              /\ accommodations'[roomTypes[t].accommodation] =
                    accommodations[roomTypes[t].accommodation]
    PROVE  /\ TablesOK'
           /\ \A s : RoomTypesOf(s)' = RoomTypesOf(s)
<1>1. ASSUME NEW s
      PROVE  RoomTypesOf(s)' = RoomTypesOf(s)
    BY DEF RoomTypesOf, InnsOf, TablesOK, RoomTypesOK
<1>2. SeedRooms' = SeedRooms
    BY <1>1 DEF SeedRooms
<1>3. BookingsOK'
    BY <1>2 DEF TablesOK, BookingsOK, BookingReferences
<1>4. RoomTypesOK'
    BY DEF TablesOK, RoomTypesOK
<1>5. BookersOK' /\ InventoriesOK'
    BY DEF TablesOK, BookersOK, InventoriesOK
<1> QED
    BY <1>1, <1>3, <1>4, <1>5 DEF TablesOK

LEMMA RoomTypesWritten ==
    ASSUME TablesOK, RoomTypesOK',
           UNCHANGED <<bookers, accommodations, inventories, bookings>>,
           \A b \in DOMAIN bookings : bookings[b].roomType \in DOMAIN roomTypes',
           DOMAIN inventories \subseteq DOMAIN roomTypes',
           \A t \in DOMAIN roomTypes \cap DOMAIN roomTypes' : roomTypes'[t] = roomTypes[t]
    PROVE  TablesOK'
<1>1. BookingsOK'
    BY DEF TablesOK, BookingsOK, BookingReferences, SeedRooms, RoomTypesOf, InnsOf
<1>2. BookersOK' /\ InnsOK' /\ InventoriesOK'
    BY DEF TablesOK, BookersOK, InnsOK, InventoriesOK
<1> QED
    BY <1>1, <1>2 DEF TablesOK

LEMMA BookingsWritten ==
    ASSUME TablesOK, BookingsOK',
           UNCHANGED <<bookers, accommodations, roomTypes, inventories>>,
           \A t \in DOMAIN inventories : \A h \in inventories[t].holds :
              /\ h.bookingId \in DOMAIN bookings'
              /\ bookings'[h.bookingId].roomType = bookings[h.bookingId].roomType
    PROVE  TablesOK'
<1>1. InventoriesOK'
    BY DEF TablesOK, InventoriesOK
<1>2. BookersOK' /\ InnsOK' /\ RoomTypesOK'
    BY DEF TablesOK, BookersOK, InnsOK, RoomTypesOK
<1> QED
    BY <1>1, <1>2 DEF TablesOK

LEMMA InventoriesWritten ==
    ASSUME TablesOK, InventoriesOK',
           UNCHANGED <<bookers, accommodations, roomTypes, bookings>>
    PROVE  TablesOK'
<1>1. BookersOK' /\ InnsOK' /\ RoomTypesOK'
    BY DEF TablesOK, BookersOK, InnsOK, RoomTypesOK
<1>2. BookingsOK'
    BY DEF TablesOK, BookingsOK, BookingReferences, SeedRooms, RoomTypesOf, InnsOf
<1> QED
    BY <1>1, <1>2 DEF TablesOK

-----------------------------------------------------------------------------
(* Ids in use *)

LEMMA KnownIsFinite ==
    ASSUME NEW field
    PROVE  IsFiniteSet(Known(field))
<1> DEFINE Q == {q \in Requests : field \in DOMAIN requests[q]}
           f == [q \in Q |-> requests[q][field]]
<1>1. IsFiniteSet(Q)
    BY RegistryAssumption, FS_Subset
<1>2. IsFiniteSet({f[q] : q \in Q})
    BY <1>1, ImageIsFinite
<1>3. Known(field) = {f[q] : q \in Q}
    BY DEF Known
<1> QED
    BY <1>2, <1>3

LEMMA UsedIdsAreFinite ==
    ASSUME TablesOK
    PROVE  IsFiniteSet(usedInns) /\ IsFiniteSet(usedRoomTypes) /\ IsFiniteSet(usedBookings)
<1> DEFINE rows == Known("row")
           f == [k \in rows |-> k.roomType]
<1>1. IsFiniteSet(Known("accommodation")) /\ IsFiniteSet(Known("roomType"))
         /\ IsFiniteSet(rows) /\ IsFiniteSet(Known("booking"))
    BY KnownIsFinite
<1>2. IsFiniteSet({f[k] : k \in rows})
    BY <1>1, ImageIsFinite
<1>3. {f[k] : k \in rows} = {k.roomType : k \in rows}
    OBVIOUS
<1>4. /\ IsFiniteSet(DOMAIN accommodations) /\ IsFiniteSet(DOMAIN roomTypes)
      /\ IsFiniteSet(DOMAIN bookings)
    BY DEF TablesOK, InnsOK, RoomTypesOK, BookingsOK
<1>5. IsFiniteSet(usedInns) /\ IsFiniteSet(usedBookings)
    BY <1>1, <1>4, FS_Union DEF usedInns, usedBookings
<1>6. IsFiniteSet(DOMAIN roomTypes \cup Known("roomType"))
    BY <1>1, <1>4, FS_Union
<1>7. IsFiniteSet(usedRoomTypes)
    BY <1>2, <1>3, <1>6, FS_Union DEF usedRoomTypes
<1> QED
    BY <1>5, <1>7

\* The ids of seeded members are not ids of the API.
LEMMA SeedIdsAreNotPositive ==
    ASSUME NEW m \in SeedMemberIds
    PROVE  m \in Int /\ ~(m > 0) /\ 0 - m \in DOMAIN SeedMembers /\ SeedMemberId(0 - m) = m
BY LoadSeedAssumption DEF SeedMemberIds, SeedMemberId

-----------------------------------------------------------------------------
(* What every step but SaveBooking leaves of the rows a request knows of *)

KeepsMembers ==
    \A m \in DOMAIN bookers : bookers[m] \in Guests =>
        m \in DOMAIN bookers' /\ bookers'[m] = bookers[m]

KeepsInns ==
    \A a \in DOMAIN accommodations' : a \in usedInns =>
        a \in DOMAIN accommodations /\ accommodations'[a] = accommodations[a]

KeepsRoomTypes ==
    \A t \in DOMAIN roomTypes' : t \in usedRoomTypes =>
        t \in DOMAIN roomTypes /\ roomTypes'[t] = roomTypes[t]

KeepsBookings ==
    \A b \in DOMAIN bookings' : b \in usedBookings =>
        /\ b \in DOMAIN bookings
        /\ bookings'[b].booker = bookings[b].booker
        /\ bookings'[b].roomType = bookings[b].roomType

Keeps == KeepsMembers /\ KeepsInns /\ KeepsRoomTypes /\ KeepsBookings

\* A table that is not written keeps its rows.
LEMMA UnwrittenKeeps ==
    /\ UNCHANGED bookers => KeepsMembers
    /\ UNCHANGED accommodations => KeepsInns
    /\ UNCHANGED roomTypes => KeepsRoomTypes
    /\ UNCHANGED bookings => KeepsBookings
BY DEF KeepsMembers, KeepsInns, KeepsRoomTypes, KeepsBookings

\* The API and loadprep delete no row that another row refers to.
Grows ==
    /\ \A m \in DOMAIN bookers : m \in DOMAIN bookers' /\ bookers'[m] = bookers[m]
    /\ \A a \in DOMAIN accommodations :
          a \in DOMAIN accommodations' /\ accommodations'[a] = accommodations[a]
    /\ \A t \in DOMAIN roomTypes : t \in DOMAIN roomTypes' /\ roomTypes'[t] = roomTypes[t]
    /\ DOMAIN inventories \subseteq DOMAIN inventories'

\* An operator's request leaves the inns of the commands alone.
LeavesAlone(s) == InnsOf(s)' = InnsOf(s) /\ RoomTypesOf(s)' = RoomTypesOf(s)

-----------------------------------------------------------------------------
(* Inns and room types *)

\* One more inn.
LEMMA InnAdded ==
    ASSUME TablesOK, NEW s,
           accommodations' = Put(accommodations, NewId(usedInns), s),
           UNCHANGED <<bookers, roomTypes, inventories, bookings>>
    PROVE  /\ TablesOK' /\ Keeps /\ Grows
           /\ \A o : o # s => LeavesAlone(o)
           /\ \A o : RoomTypesOf(o)' = RoomTypesOf(o)
           /\ InnsOf(s)' = InnsOf(s) \cup {NewId(usedInns)}
           /\ NewId(usedInns) \in Nat
           /\ Changed(accommodations, accommodations') \subseteq InnsOf(s)'
<1> DEFINE id == NewId(usedInns)
<1>0. accommodations' = Put(accommodations, id, s)
    OBVIOUS
<1>1. id \in Nat /\ id \notin usedInns
    BY UsedIdsAreFinite, NewIdIsNew
<1>2. id \notin DOMAIN accommodations
    BY <1>1 DEF usedInns
<1> HIDE DEF id
<1>3. /\ DOMAIN accommodations' = DOMAIN accommodations \cup {id}
      /\ accommodations'[id] = s
      /\ \A a \in DOMAIN accommodations : accommodations'[a] = accommodations[a]
    BY <1>0, <1>2 DEF Put
<1>4. InnsOK'
    BY <1>1, <1>3, FS_AddElement DEF TablesOK, InnsOK
<1>5. TablesOK' /\ \A o : RoomTypesOf(o)' = RoomTypesOf(o)
    BY <1>3, <1>4, InnsWritten DEF TablesOK, RoomTypesOK
<1>6. KeepsInns
    BY <1>1, <1>3 DEF KeepsInns
<1>7. Grows
    BY <1>3 DEF Grows
<1>8. InnsOf(s)' = InnsOf(s) \cup {id} /\ \A o : o # s => InnsOf(o)' = InnsOf(o)
    BY <1>2, <1>3 DEF InnsOf
<1>9. Changed(accommodations, accommodations') \subseteq InnsOf(s)'
    BY <1>3, <1>8 DEF Changed
<1> QED
    BY <1>1, <1>5, <1>6, <1>7, <1>8, <1>9, UnwrittenKeeps DEF LeavesAlone, Keeps, id

\* One more room type of an inn.
LEMMA RoomTypeAdded ==
    ASSUME TablesOK, NEW s, NEW a \in InnsOf(s), NEW capacity \in Nat \ {0},
           roomTypes' = Put(roomTypes, NewId(usedRoomTypes),
                            [accommodation |-> a, capacity |-> capacity]),
           UNCHANGED <<bookers, accommodations, inventories, bookings>>
    PROVE  /\ TablesOK' /\ Keeps /\ Grows
           /\ \A o : o # s => LeavesAlone(o)
           /\ RoomTypesOf(s)' = RoomTypesOf(s) \cup {NewId(usedRoomTypes)}
           /\ NewId(usedRoomTypes) \in Nat
           /\ NewId(usedRoomTypes) \notin usedRoomTypes
           /\ Changed(roomTypes, roomTypes') \subseteq RoomTypesOf(s)'
<1> DEFINE id == NewId(usedRoomTypes)
           row == [accommodation |-> a, capacity |-> capacity]
<1>0. roomTypes' = Put(roomTypes, id, row)
    OBVIOUS
<1>1. id \in Nat /\ id \notin usedRoomTypes
    BY UsedIdsAreFinite, NewIdIsNew
<1>2. id \notin DOMAIN roomTypes
    BY <1>1 DEF usedRoomTypes
<1>3. /\ DOMAIN roomTypes' = DOMAIN roomTypes \cup {id}
      /\ roomTypes'[id] = row
      /\ \A t \in DOMAIN roomTypes : roomTypes'[t] = roomTypes[t]
    BY <1>0, <1>2 DEF Put
<1>4. row \in [accommodation : DOMAIN accommodations, capacity : Nat \ {0}]
         /\ row.accommodation = a
    BY DEF InnsOf
<1> HIDE DEF id, row
<1>5. RoomTypesOK'
    BY <1>1, <1>3, <1>4, FS_AddElement DEF TablesOK, RoomTypesOK
<1>6. TablesOK'
    BY <1>3, <1>5, RoomTypesWritten DEF TablesOK, BookingsOK, BookingReferences, InventoriesOK
<1>7. KeepsRoomTypes
    BY <1>1, <1>3 DEF KeepsRoomTypes
<1>8. Grows
    BY <1>3 DEF Grows
<1>9. \A o : InnsOf(o)' = InnsOf(o)
    BY DEF InnsOf
<1>10. RoomTypesOf(s)' = RoomTypesOf(s) \cup {id}
    BY <1>3, <1>4, <1>9 DEF RoomTypesOf
<1>11. \A o : o # s => a \notin InnsOf(o)
    BY DEF InnsOf
<1>12. \A o : o # s => RoomTypesOf(o)' = RoomTypesOf(o)
    BY <1>2, <1>3, <1>4, <1>9, <1>11 DEF RoomTypesOf
<1>13. Changed(roomTypes, roomTypes') \subseteq RoomTypesOf(s)'
    BY <1>3, <1>10 DEF Changed
<1> QED
    BY <1>1, <1>6, <1>7, <1>8, <1>9, <1>10, <1>12, <1>13, UnwrittenKeeps
    DEF LeavesAlone, Keeps, id

-----------------------------------------------------------------------------
(* OnlyRowsOf, for a statement that writes to one table *)

LEMMA NothingIsChanged ==
    ASSUME NEW S, UNCHANGED tables
    PROVE  OnlyRowsOf(S)
BY DEF OnlyRowsOf, Changed, tables

LEMMA BookersOfOwn ==
    ASSUME NEW S, UNCHANGED <<accommodations, roomTypes, inventories, bookings>>,
           \A m \in Changed(bookers, bookers') :
              \E s \in S : m \in MembersOf(s) \cup MembersOf(s)'
    PROVE  OnlyRowsOf(S)
BY DEF OnlyRowsOf, Changed

LEMMA InnsOfOwn ==
    ASSUME NEW S, UNCHANGED <<bookers, roomTypes, inventories, bookings>>,
           \A a \in Changed(accommodations, accommodations') :
              \E s \in S : a \in InnsOf(s) \cup InnsOf(s)'
    PROVE  OnlyRowsOf(S)
BY DEF OnlyRowsOf, Changed

LEMMA RoomTypesOfOwn ==
    ASSUME NEW S, UNCHANGED <<bookers, accommodations, inventories, bookings>>,
           \A t \in Changed(roomTypes, roomTypes') :
              \E s \in S : t \in RoomTypesOf(s) \cup RoomTypesOf(s)'
    PROVE  OnlyRowsOf(S)
BY DEF OnlyRowsOf, Changed, Rooms

LEMMA BookingsOfOwn ==
    ASSUME NEW S, UNCHANGED <<bookers, accommodations, roomTypes, inventories>>,
           \A b \in Changed(bookings, bookings') : b \in Stays(S) \cup Stays(S)'
    PROVE  OnlyRowsOf(S)
BY DEF OnlyRowsOf, Changed

LEMMA InventoriesOfOwn ==
    ASSUME NEW S, UNCHANGED <<bookers, accommodations, roomTypes, bookings>>,
           \A t \in Changed(inventories, inventories') :
              \/ \E s \in S : t \in RoomTypesOf(s)
              \/ /\ Registered(t) /\ Registered(t)'
                 /\ inventories'[t] = [inventories[t] EXCEPT !.holds = HoldsOf(t)']
                 /\ \A h \in (HoldsOf(t) \cup HoldsOf(t)') \ (HoldsOf(t) \cap HoldsOf(t)') :
                       h.bookingId \in Stays(S)
    PROVE  OnlyRowsOf(S)
<1>1. ASSUME NEW t \in Changed(inventories, inventories'), t \notin Rooms(S) \cup Rooms(S)'
      PROVE  /\ Registered(t) /\ Registered(t)'
             /\ inventories'[t] = [inventories[t] EXCEPT !.holds = HoldsOf(t)']
             /\ {h.bookingId : h \in (HoldsOf(t) \cup HoldsOf(t)') \ (HoldsOf(t) \cap HoldsOf(t)')}
                   \subseteq Stays(S) \cup Stays(S)'
    <2>1. ~ \E s \in S : t \in RoomTypesOf(s)
        BY <1>1 DEF Rooms
    <2> QED
        BY <2>1
<1>2. /\ Changed(bookers, bookers') = {} /\ Changed(accommodations, accommodations') = {}
      /\ Changed(roomTypes, roomTypes') = {} /\ Changed(bookings, bookings') = {}
    BY DEF Changed
<1> QED
    BY <1>1, <1>2 DEF OnlyRowsOf

-----------------------------------------------------------------------------
(* What a request knows stays its login's *)

\* The ids that requests know.
LEMMA KnownIds ==
    ASSUME RequestsOK, NEW r \in Requests
    PROVE  /\ requests[r] \in RequestType
           /\ requests[r].pc = "room_type" => requests[r].accommodation \in usedInns
           /\ requests[r].pc = "inventory" => requests[r].roomType \in usedRoomTypes
           /\ requests[r].pc \in {"hold", "save", "cancel", "release"} =>
                 requests[r].booking \in usedBookings
<1>1. requests[r] \in RequestType
    BY DEF RequestsOK
<1>2. ASSUME requests[r].pc = "room_type"
      PROVE  requests[r].accommodation \in usedInns
    <2>1. requests[r] \in RoomTypeRequest
        BY <1>1, <1>2 DEF RequestType, IdleRequest, InventoryRequest, BookRequest, HoldRequest,
                          CancelRequest, ReleaseRequest
    <2>2. "accommodation" \in DOMAIN requests[r]
        BY <2>1 DEF RoomTypeRequest
    <2> QED
        BY <2>2 DEF Known, usedInns
<1>3. ASSUME requests[r].pc = "inventory"
      PROVE  requests[r].roomType \in usedRoomTypes
    <2>1. requests[r] \in InventoryRequest
        BY <1>1, <1>3 DEF RequestType, IdleRequest, RoomTypeRequest, BookRequest, HoldRequest,
                          CancelRequest, ReleaseRequest
    <2>2. "roomType" \in DOMAIN requests[r]
        BY <2>1 DEF InventoryRequest
    <2> QED
        BY <2>2 DEF Known, usedRoomTypes
<1>4. ASSUME requests[r].pc \in {"hold", "save", "cancel", "release"}
      PROVE  requests[r].booking \in usedBookings
    <2>1. requests[r] \in HoldRequest \cup CancelRequest \cup ReleaseRequest
        BY <1>1, <1>4 DEF RequestType, IdleRequest, RoomTypeRequest, InventoryRequest, BookRequest
    <2>2. "booking" \in DOMAIN requests[r]
        BY <2>1 DEF HoldRequest, CancelRequest, ReleaseRequest
    <2> QED
        BY <2>2 DEF Known, usedBookings
<1> QED
    BY <1>1, <1>2, <1>3, <1>4

\* What stands in a request, by the statement it is at.
LEMMA RequestForms ==
    ASSUME NEW q \in RequestType
    PROVE  /\ q.pc = "idle" => q = IdleRequest
           /\ q.pc = "room_type" => q \in RoomTypeRequest
           /\ q.pc = "inventory" => q \in InventoryRequest
           /\ q.pc \in {"capacity", "create"} => q \in BookRequest
           /\ q.pc \in {"hold", "save"} => q \in HoldRequest
           /\ q.pc = "cancel" => q \in CancelRequest
           /\ q.pc = "release" => q \in ReleaseRequest
           /\ q.pc \in {"idle", "room_type", "inventory", "capacity", "create", "hold", "save",
                        "cancel", "release"}
BY DEF RequestType, IdleRequest, RoomTypeRequest, InventoryRequest, BookRequest, HoldRequest,
       CancelRequest, ReleaseRequest

LEMMA OwnedIsKept ==
    ASSUME TablesOK, TablesOK', Keeps, RequestsOK, NEW r \in Requests, requests'[r] = requests[r]
    PROVE  Owned(requests[r])'
<1> PICK q : q = requests[r]
    OBVIOUS
<1>1. q \in RequestType /\ Owned(q)
    BY DEF RequestsOK
<1>2. ASSUME q.pc = "room_type", q.accommodation \in DOMAIN accommodations'
      PROVE  (q.accommodation \in InnsOf(q.subject))'
    <2>1. q.accommodation \in usedInns
        BY <1>2, KnownIds
    <2> QED
        BY <1>1, <1>2, <2>1 DEF Keeps, KeepsInns, Owned, InnsOf
<1>3. ASSUME q.pc = "inventory", q.roomType \in DOMAIN roomTypes'
      PROVE  (q.roomType \in RoomTypesOf(q.subject))'
    <2> DEFINE t == q.roomType
               a == roomTypes[t].accommodation
    <2>1. t \in usedRoomTypes
        BY <1>3, KnownIds
    <2>2. t \in DOMAIN roomTypes /\ roomTypes'[t] = roomTypes[t]
        BY <1>3, <2>1 DEF Keeps, KeepsRoomTypes
    <2>3. a \in InnsOf(q.subject)
        BY <1>1, <1>3, <2>2 DEF Owned, RoomTypesOf
    <2>4. a \in DOMAIN accommodations'
        BY <1>3, <2>2 DEF TablesOK, RoomTypesOK
    <2>5. a \in InnsOf(q.subject)'
        BY <2>3, <2>4 DEF Keeps, KeepsInns, InnsOf, usedInns
    <2> QED
        BY <1>3, <2>2, <2>5 DEF RoomTypesOf
<1>4. ASSUME q.pc \in {"capacity", "create", "hold", "save"}
      PROVE  (q.row.booker \in MembersOf(q.subject))'
    <2>1. q.subject \in Guests
        BY <1>1, <1>4, RequestForms DEF BookRequest, HoldRequest
    <2> QED
        BY <1>1, <1>4, <2>1 DEF Keeps, KeepsMembers, Owned, MembersOf
<1>5. ASSUME q.pc \in {"hold", "save"}, q.booking \in DOMAIN bookings'
      PROVE  /\ bookings'[q.booking].booker = q.row.booker
             /\ bookings'[q.booking].roomType = q.row.roomType
    <2>1. q.booking \in usedBookings
        BY <1>5, KnownIds
    <2> QED
        BY <1>1, <1>5, <2>1 DEF Keeps, KeepsBookings, Owned
<1>6. ASSUME q.pc \in {"cancel", "release"}, q.booking \in DOMAIN bookings'
      PROVE  OwnsBooking(q.subject, q.booking)'
    <2>1. q.booking \in usedBookings
        BY <1>6, KnownIds
    <2>2. q.subject \in Guests
        BY <1>1, <1>6, RequestForms DEF CancelRequest, ReleaseRequest
    <2> QED
        BY <1>1, <1>6, <2>1, <2>2
        DEF Keeps, KeepsBookings, KeepsMembers, Owned, OwnsBooking, MembersOf
<1>7. Owned(q)'
    BY <1>2, <1>3, <1>4, <1>5, <1>6 DEF Owned
<1> QED
    BY <1>7 DEF Owned

LEMMA AgreeingIsKept ==
    ASSUME KeepsMembers, RequestsOK, NEW r \in Requests, NEW o \in Requests, r # o,
           requests'[r] = requests[r], requests'[o] = requests[o]
    PROVE  Agree(requests[r], requests[o])'
<1>1. requests[o] \in RequestType /\ Agree(requests[r], requests[o])
    BY DEF RequestsOK
<1>2. requests[o].pc \in {"cancel", "release"} => requests[o].subject \in Guests
    BY <1>1, RequestForms DEF CancelRequest, ReleaseRequest
<1> QED
    BY <1>1, <1>2 DEF Agree, KeepsMembers, MembersOf

\* Steps of others.
LEMMA RequestsAreKept ==
    ASSUME TablesOK, TablesOK', Keeps, RequestsOK, UNCHANGED requests
    PROVE  RequestsOK'
<1>1. \A r \in Requests : Owned(requests[r])'
    BY OwnedIsKept
<1>2. \A r, o \in Requests : r # o => Agree(requests[r], requests[o])'
    BY AgreeingIsKept DEF Keeps
<1>3. (requests \in [Requests -> RequestType])'
    BY DEF RequestsOK
<1> QED
    BY <1>1, <1>2, <1>3 DEF RequestsOK

\* A request's step.
LEMMA RequestSteps ==
    ASSUME TablesOK, TablesOK', Keeps, RequestsOK, NEW r \in Requests, NEW q \in RequestType,
           requests' = [requests EXCEPT ![r] = q], Owned(q)',
           \A o \in Requests : o # r => Agree(q, requests[o])' /\ Agree(requests[o], q)'
    PROVE  RequestsOK'
<1>1. /\ requests' \in [Requests -> RequestType]
      /\ requests'[r] = q
      /\ \A o \in Requests : o # r => requests'[o] = requests[o]
    BY DEF RequestsOK
<1>2. ASSUME NEW o \in Requests
      PROVE  Owned(requests[o])'
    <2>1. CASE o = r
        BY <1>1, <2>1
    <2>2. CASE o # r
        BY <1>1, <2>2, OwnedIsKept
    <2> QED
        BY <2>1, <2>2
<1>3. ASSUME NEW o \in Requests, NEW p \in Requests, o # p
      PROVE  Agree(requests[o], requests[p])'
    <2>1. CASE o = r
        BY <1>1, <1>3, <2>1
    <2>2. CASE p = r
        BY <1>1, <1>3, <2>2
    <2>3. CASE o # r /\ p # r
        BY <1>1, <1>3, <2>3, AgreeingIsKept DEF Keeps
    <2> QED
        BY <2>1, <2>2, <2>3
<1> QED
    BY <1>1, <1>2, <1>3 DEF RequestsOK

\* A request ends.
LEMMA RequestEnds ==
    ASSUME TablesOK, TablesOK', Keeps, RequestsOK, NEW r \in Requests, EndRequest(r)
    PROVE  RequestsOK'
<1>1. IdleRequest \in RequestType /\ IdleRequest.pc = "idle"
    BY DEF RequestType, IdleRequest
<1>2. Owned(IdleRequest)'
    BY <1>1 DEF Owned
<1>3. \A o \in Requests : Agree(IdleRequest, requests[o])' /\ Agree(requests[o], IdleRequest)'
    BY <1>1 DEF Agree
<1> QED
    BY <1>1, <1>2, <1>3, RequestSteps DEF EndRequest, Become

-----------------------------------------------------------------------------
(* Inventories *)

LEMMA NewInventoryIsEmpty ==
    ASSUME NEW q \in Nat
    PROVE  /\ Inv!NewInventory(q, 1) \in Inv!InventoryType
           /\ Inv!NewInventory(q, 1).holds = {}
           /\ Inv!NewInventory(q, 1).quantityAvailable = q
BY DEF Inv!NewInventory, Inv!InventoryType

LEMMA ChangedQuantity ==
    ASSUME NEW v \in Inv!InventoryType, NEW n \in Int, Inv!validQuantity(n)
    PROVE  /\ Inv!AfterChangeQuantity(v, n) \in Inv!InventoryType
           /\ Inv!AfterChangeQuantity(v, n).holds = v.holds
           /\ Inv!AfterChangeQuantity(v, n).quantityAvailable = n
BY DEF Inv!AfterChangeQuantity, Inv!InventoryType, Inv!validQuantity

\* w is v with one more hold, of the booking b in a slot that was free.
HoldAdded(v, w, b, new) ==
    /\ w = [v EXCEPT !.holds = v.holds \cup {new}]
    /\ w \in Inv!InventoryType
    /\ w.holds = v.holds \cup {new}
    /\ w.quantityAvailable = v.quantityAvailable
    /\ new.bookingId = b /\ new.status = Inv!TemporaryHold
    /\ new.slotNo \in 1 .. v.quantityAvailable
    /\ \A h \in v.holds : h.slotNo # new.slotNo

LEMMA HeldSlot ==
    ASSUME NEW v \in Inv!InventoryType, NEW b \in Nat, Inv!CanHold(v, b, 1, 0)
    PROVE  \E new : HoldAdded(v, Inv!AfterHold(v, b, 1), b, new)
<1> DEFINE new == [bookingId |-> b, slotNo |-> Inv!vacantSlotNo(v),
                   status |-> Inv!TemporaryHold, expiredAt |-> 1]
<1>1. /\ Inv!vacantSlotNo(v) \in 1 .. v.quantityAvailable
      /\ Inv!vacantSlotNo(v) \notin Inv!UsedSlots(v)
      /\ Inv!vacantSlotNo(v) \in Nat \ {0}
    <2>1. v \in P!InventoryType /\ P!VacantSlots(v) # {}
        BY DEF Inv!CanHold, Inv!VacantSlots, P!VacantSlots, Inv!UsedSlots, P!UsedSlots,
               Inv!InventoryType, P!InventoryType, Inv!HoldType, P!HoldType,
               Inv!HoldStatus, P!HoldStatus, Inv!TemporaryHold, P!TemporaryHold,
               Inv!ProcessingPayment, P!ProcessingPayment, Inv!HoldConfirmed, P!HoldConfirmed,
               Inv!NoExpiry, P!NoExpiry
    <2>2. /\ P!vacantSlotNo(v) \in 1 .. v.quantityAvailable
          /\ P!vacantSlotNo(v) \notin P!UsedSlots(v)
          /\ P!vacantSlotNo(v) \in Nat \ {0}
        BY <2>1, P!VacantSlotIsFree
    <2>3. P!vacantSlotNo(v) = Inv!vacantSlotNo(v) /\ P!UsedSlots(v) = Inv!UsedSlots(v)
        BY DEF P!vacantSlotNo, Inv!vacantSlotNo, P!VacantSlots, Inv!VacantSlots,
               P!UsedSlots, Inv!UsedSlots, P!Min, Inv!Min
    <2> QED
        BY <2>2, <2>3
<1>2. new \in Inv!HoldType
    BY <1>1 DEF Inv!HoldType, Inv!HoldStatus
<1>3. Inv!AfterHold(v, b, 1) = [v EXCEPT !.holds = v.holds \cup {new}]
    BY DEF Inv!AfterHold, Inv!InventoryType
<1>4. \A h \in v.holds : h.slotNo # new.slotNo
    BY <1>1 DEF Inv!UsedSlots
<1>5. new.bookingId = b /\ new.status = Inv!TemporaryHold /\ new.slotNo = Inv!vacantSlotNo(v)
    OBVIOUS
<1> HIDE DEF new
<1>6. /\ Inv!AfterHold(v, b, 1) \in Inv!InventoryType
      /\ Inv!AfterHold(v, b, 1).holds = v.holds \cup {new}
      /\ Inv!AfterHold(v, b, 1).quantityAvailable = v.quantityAvailable
    BY <1>2, <1>3 DEF Inv!InventoryType
<1> QED
    BY <1>1, <1>2, <1>3, <1>4, <1>5, <1>6 DEF HoldAdded

\* w is v without one hold of the booking b.
HoldRemoved(v, w, b, h) ==
    /\ h \in v.holds /\ h.bookingId = b
    /\ w = [v EXCEPT !.holds = v.holds \ {h}]
    /\ w \in Inv!InventoryType
    /\ w.holds = v.holds \ {h}
    /\ w.quantityAvailable = v.quantityAvailable

LEMMA ReleasedHold ==
    ASSUME NEW v \in Inv!InventoryType, NEW b, Inv!CanRelease(v, b)
    PROVE  \E h : HoldRemoved(v, Inv!AfterRelease(v, b), b, h)
<1> DEFINE h == Inv!holdOf(v, b)
<1>1. h \in v.holds /\ h.bookingId = b
    BY DEF Inv!CanRelease, Inv!HasHold, Inv!HoldsOf, Inv!holdOf
<1>2. Inv!AfterRelease(v, b) = [v EXCEPT !.holds = v.holds \ {h}]
    BY DEF Inv!AfterRelease, Inv!InventoryType
<1> HIDE DEF h
<1>3. /\ Inv!AfterRelease(v, b) \in Inv!InventoryType
      /\ Inv!AfterRelease(v, b).holds = v.holds \ {h}
      /\ Inv!AfterRelease(v, b).quantityAvailable = v.quantityAvailable
    BY <1>2 DEF Inv!InventoryType
<1> QED
    BY <1>1, <1>2, <1>3 DEF HoldRemoved

\* A new value for the inventory of one room type.
LEMMA InventoryPut ==
    ASSUME TablesOK, NEW t \in DOMAIN roomTypes, NEW v \in Inv!InventoryType,
           inventories' = Put(inventories, t, v), IsFiniteSet(v.holds),
           \A h \in v.holds : h.bookingId \in DOMAIN bookings /\ bookings[h.bookingId].roomType = t,
           UNCHANGED <<bookers, accommodations, roomTypes, bookings>>
    PROVE  /\ TablesOK' /\ Keeps /\ Grows
           /\ \A s : LeavesAlone(s)
           /\ DOMAIN inventories' = DOMAIN inventories \cup {t}
           /\ inventories'[t] = v
           /\ \A x \in DOMAIN inventories : x # t => inventories'[x] = inventories[x]
           /\ Changed(inventories, inventories') \subseteq {t}
<1>1. /\ DOMAIN inventories' = DOMAIN inventories \cup {t}
      /\ inventories'[t] = v
      /\ \A x \in DOMAIN inventories : x # t => inventories'[x] = inventories[x]
    BY DEF Put
<1>2. InventoriesOK'
    BY <1>1 DEF TablesOK, InventoriesOK
<1>3. TablesOK'
    BY <1>2, InventoriesWritten
<1>4. Grows
    BY <1>1 DEF Grows
<1>5. \A s : LeavesAlone(s)
    BY DEF LeavesAlone, RoomTypesOf, InnsOf
<1>6. Changed(inventories, inventories') \subseteq {t}
    BY <1>1 DEF Changed
<1> QED
    BY <1>1, <1>3, <1>4, <1>5, <1>6, UnwrittenKeeps DEF Keeps

-----------------------------------------------------------------------------
(* The requests of guests and operators *)

LeavesCommandsAlone == \A s : s \notin Operators => LeavesAlone(s)
OwnOnly(r) == \A s : requests[r].subject = s => OnlyRowsOf({s})
Effect(r) == TablesOK' /\ RequestsOK' /\ Grows /\ LeavesCommandsAlone /\ OwnOnly(r)
               /\ \A o \in Requests : o # r => requests'[o] = requests[o]

LEMMA UnwrittenTables ==
    ASSUME TablesOK, UNCHANGED tables
    PROVE  /\ TablesOK' /\ Keeps /\ Grows
           /\ \A s : LeavesAlone(s)
           /\ \A S : OnlyRowsOf(S)
<1>1. TablesOK'
    BY DEF TablesOK, BookersOK, InnsOK, RoomTypesOK, BookingsOK, InventoriesOK, tables,
           BookingReferences, SeedRooms, RoomTypesOf, InnsOf
<1>2. Keeps
    BY UnwrittenKeeps DEF Keeps, tables
<1>3. Grows /\ \A s : LeavesAlone(s)
    BY DEF Grows, LeavesAlone, tables, RoomTypesOf, InnsOf
<1> QED
    BY <1>1, <1>2, <1>3, NothingIsChanged

LEMMA CreateBookerEffect ==
    ASSUME TablesOK, NEW s \in Guests, CreateBooker(s)
    PROVE  TablesOK' /\ Keeps /\ Grows /\ LeavesCommandsAlone
<1> DEFINE id == NewId(DOMAIN bookers)
<1>1. id \in Nat \ {0} /\ id \notin DOMAIN bookers
    BY NewIdIsNew DEF TablesOK, BookersOK
<1>2. bookers' = Put(bookers, id, s) /\ MembersOf(s) = {}
    BY DEF CreateBooker, SubjectIsFree
<1>3. id \notin SeedMemberIds /\ s \notin Range(SeedMembers)
    BY <1>1, SeedIdsAreNotPositive, SubjectsAssumption
<1> HIDE DEF id
<1>4. /\ DOMAIN bookers' = DOMAIN bookers \cup {id}
      /\ bookers'[id] = s
      /\ \A m \in DOMAIN bookers : bookers'[m] = bookers[m]
    BY <1>1, <1>2 DEF Put
<1>5. IsFiniteSet(DOMAIN bookers') /\ DOMAIN bookers' \subseteq Int
    BY <1>1, <1>4, FS_AddElement DEF TablesOK, BookersOK
<1>6. IsInjective(bookers')
    BY <1>2, <1>4 DEF TablesOK, BookersOK, IsInjective, MembersOf
<1>7. BookersOK'
    BY <1>3, <1>4, <1>5, <1>6 DEF TablesOK, BookersOK, SeedMemberIds
<1>8. TablesOK'
    BY <1>4, <1>7, BookersWritten DEF CreateBooker, TablesOK, BookingsOK, BookingReferences
<1>9. Keeps
    BY <1>4, UnwrittenKeeps DEF Keeps, KeepsMembers, CreateBooker
<1>10. Grows /\ \A o : LeavesAlone(o)
    BY <1>4 DEF Grows, LeavesAlone, RoomTypesOf, InnsOf, CreateBooker
<1> QED
    BY <1>8, <1>9, <1>10 DEF LeavesCommandsAlone

LEMMA CreateAccommodationEffect ==
    ASSUME TablesOK, NEW s \in Operators, CreateAccommodation(s)
    PROVE  TablesOK' /\ Keeps /\ Grows /\ LeavesCommandsAlone
<1>1. /\ accommodations' = Put(accommodations, NewId(usedInns), s)
      /\ UNCHANGED <<bookers, roomTypes, inventories, bookings>>
    BY DEF CreateAccommodation
<1> QED
    BY <1>1, InnAdded DEF LeavesCommandsAlone

\* A request begins.
LEMMA BeginEffect ==
    ASSUME TablesOK, RequestsOK, NEW r \in Requests, NEW q \in RequestType, Begin(r, q),
           Owned(q), q.pc \notin {"hold", "save"},
           \A o \in Requests : o # r => Agree(requests[o], q)
    PROVE  /\ TablesOK' /\ RequestsOK' /\ Grows /\ LeavesCommandsAlone
           /\ \A o \in Requests : o # r => requests'[o] = requests[o]
<1>1. TablesOK' /\ Keeps /\ Grows /\ LeavesCommandsAlone
    BY UnwrittenTables DEF Begin, LeavesCommandsAlone
<1>2. requests' = [requests EXCEPT ![r] = q]
    BY DEF Begin, Become
<1>3. Owned(q)'
    BY DEF Begin, tables, Owned, InnsOf, RoomTypesOf, MembersOf, OwnsBooking
<1>4. \A o \in Requests : o # r => Agree(q, requests[o])'
    BY DEF Agree
<1>5. ASSUME NEW o \in Requests, o # r
      PROVE  Agree(requests[o], q)'
    <2>1. requests'[o] = requests[o]
        BY <1>2, <1>5 DEF RequestsOK
    <2>2. Agree(requests[o], q)
        BY <1>5
    <2> QED
        BY <2>1, <2>2 DEF Agree, Begin, tables, MembersOf
<1>6. RequestsOK'
    BY <1>1, <1>2, <1>3, <1>4, <1>5, RequestSteps
<1> QED
    BY <1>1, <1>2, <1>6 DEF RequestsOK

LEMMA BeginRoomTypeEffect ==
    ASSUME TablesOK, RequestsOK, NEW r \in Requests, NEW s \in Operators,
           NEW a \in DOMAIN accommodations, BeginRoomType(r, s, a)
    PROVE  Effect(r)
<1> DEFINE q == [pc |-> "room_type", subject |-> s, accommodation |-> a]
<1>1. q \in RequestType /\ q.pc = "room_type"
    BY DEF RequestType, RoomTypeRequest, TablesOK, InnsOK
<1>2. Owned(q)
    BY DEF Owned, BeginRoomType, OwnsAccommodation
<1>3. \A o \in Requests : Agree(requests[o], q)
    BY DEF Agree
<1>4. Begin(r, q)
    BY DEF BeginRoomType
<1> HIDE DEF q
<1>5. OwnOnly(r)
    BY <1>4, NothingIsChanged DEF Begin, OwnOnly
<1> QED
    BY <1>1, <1>2, <1>3, <1>4, <1>5, BeginEffect DEF Effect

LEMMA BeginInventoryEffect ==
    ASSUME TablesOK, RequestsOK, NEW r \in Requests, NEW s \in Operators,
           NEW t \in DOMAIN roomTypes, BeginInventory(r, s, t)
    PROVE  Effect(r)
<1> DEFINE q == [pc |-> "inventory", subject |-> s, roomType |-> t]
<1>1. q \in RequestType /\ q.pc = "inventory"
    BY DEF RequestType, InventoryRequest, TablesOK, RoomTypesOK
<1>2. Owned(q)
    BY DEF Owned, BeginInventory, OwnsRoomType
<1>3. \A o \in Requests : Agree(requests[o], q)
    BY DEF Agree
<1>4. Begin(r, q)
    BY DEF BeginInventory
<1> HIDE DEF q
<1>5. OwnOnly(r)
    BY <1>4, NothingIsChanged DEF Begin, OwnOnly
<1> QED
    BY <1>1, <1>2, <1>3, <1>4, <1>5, BeginEffect DEF Effect

LEMMA BeginBookEffect ==
    ASSUME TablesOK, RequestsOK, NEW r \in Requests, NEW s \in Guests,
           NEW t \in DOMAIN roomTypes, NEW n \in GuestCounts, BeginBook(r, s, t, n)
    PROVE  Effect(r)
<1> PICK m \in MembersOf(s) :
        Begin(r, [pc |-> "capacity", subject |-> s,
                  row |-> [booker |-> m, roomType |-> t, guests |-> n,
                           status |-> Domain!TemporaryHold]])
    BY DEF BeginBook
<1> DEFINE k == [booker |-> m, roomType |-> t, guests |-> n, status |-> Domain!TemporaryHold]
           q == [pc |-> "capacity", subject |-> s, row |-> k]
<1>1. k \in BookingRow /\ k.booker = m
    BY RegistryAssumption
    DEF BookingRow, MembersOf, TablesOK, BookersOK, RoomTypesOK, Domain!Status
<1>2. Begin(r, q)
    OBVIOUS
<1> HIDE DEF k
<1>3. q \in RequestType /\ q.pc = "capacity"
    BY <1>1 DEF RequestType, BookRequest
<1>4. Owned(q)
    BY <1>1 DEF Owned
<1>5. \A o \in Requests : Agree(requests[o], q)
    BY DEF Agree
<1> HIDE DEF q
<1>6. OwnOnly(r)
    BY <1>2, NothingIsChanged DEF Begin, OwnOnly
<1> QED
    BY <1>2, <1>3, <1>4, <1>5, <1>6, BeginEffect DEF Effect

LEMMA BeginCancelEffect ==
    ASSUME TablesOK, RequestsOK, NEW r \in Requests, NEW s \in Guests,
           NEW b \in DOMAIN bookings, BeginCancel(r, s, b)
    PROVE  Effect(r)
<1> DEFINE q == [pc |-> "cancel", subject |-> s, booking |-> b]
<1>1. q \in RequestType /\ q.pc = "cancel"
    BY DEF RequestType, CancelRequest, TablesOK, BookingsOK
<1>2. Owned(q)
    BY DEF Owned, BeginCancel
<1>3. \A o \in Requests : Agree(requests[o], q)
    BY DEF Agree, BeginCancel, OwnsBooking, RequestsOK, Owned
<1>4. Begin(r, q)
    BY DEF BeginCancel
<1> HIDE DEF q
<1>5. OwnOnly(r)
    BY <1>4, NothingIsChanged DEF Begin, OwnOnly
<1> QED
    BY <1>1, <1>2, <1>3, <1>4, <1>5, BeginEffect DEF Effect

LEMMA CreateRoomTypeEffect ==
    ASSUME TablesOK, RequestsOK, NEW r \in Requests, NEW capacity \in Capacities,
           CreateRoomType(r, capacity)
    PROVE  Effect(r)
<1> PICK a, s : a = requests[r].accommodation /\ s = requests[r].subject
    OBVIOUS
<1>1. requests[r] \in RoomTypeRequest /\ Owned(requests[r]) /\ requests[r].pc = "room_type"
    BY RequestForms DEF RequestsOK, CreateRoomType, At
<1>2. s \in Operators /\ (a \in DOMAIN accommodations => a \in InnsOf(s))
    BY <1>1 DEF Owned, RoomTypeRequest
<1>3. /\ EndRequest(r)
      /\ UNCHANGED <<bookers, accommodations, inventories, bookings>>
    BY DEF CreateRoomType
<1>4. CASE capacity >= 1 /\ a \in DOMAIN accommodations
    <2>1. roomTypes' = Put(roomTypes, NewId(usedRoomTypes),
                           [accommodation |-> a, capacity |-> capacity])
        BY <1>4 DEF CreateRoomType
    <2>2. capacity \in Nat \ {0} /\ a \in InnsOf(s)
        BY <1>2, <1>4, RegistryAssumption
    <2>3. /\ TablesOK' /\ Keeps /\ Grows
          /\ \A o : o # s => LeavesAlone(o)
          /\ Changed(roomTypes, roomTypes') \subseteq RoomTypesOf(s)'
        BY <1>3, <2>1, <2>2, RoomTypeAdded
    <2>4. OnlyRowsOf({s})
        BY <1>3, <2>3, RoomTypesOfOwn
    <2>5. RequestsOK'
        BY <1>3, <2>3, RequestEnds
    <2> QED
        BY <1>2, <1>3, <2>3, <2>4, <2>5
        DEF Effect, LeavesCommandsAlone, OwnOnly, EndRequest, Become, RequestsOK
<1>5. CASE ~(capacity >= 1 /\ a \in DOMAIN accommodations)
    <2>1. UNCHANGED tables
        BY <1>3, <1>5 DEF CreateRoomType, tables
    <2>2. /\ TablesOK' /\ Keeps /\ Grows
          /\ \A o : LeavesAlone(o)
          /\ \A S : OnlyRowsOf(S)
        BY <2>1, UnwrittenTables
    <2>3. RequestsOK'
        BY <1>3, <2>2, RequestEnds
    <2> QED
        BY <1>3, <2>2, <2>3
        DEF Effect, LeavesCommandsAlone, OwnOnly, EndRequest, Become, RequestsOK
<1> QED
    BY <1>4, <1>5

\* A request that ends without writing to a table.
LEMMA EndsQuietly ==
    ASSUME TablesOK, RequestsOK, NEW r \in Requests, EndRequest(r), UNCHANGED tables
    PROVE  Effect(r)
<1>1. /\ TablesOK' /\ Keeps /\ Grows
      /\ \A o : LeavesAlone(o)
      /\ \A S : OnlyRowsOf(S)
    BY UnwrittenTables
<1>2. RequestsOK'
    BY <1>1, RequestEnds
<1> QED
    BY <1>1, <1>2 DEF Effect, LeavesCommandsAlone, OwnOnly, EndRequest, Become, RequestsOK

LEMMA OperateInventoryEffect ==
    ASSUME TablesOK, RequestsOK, NEW r \in Requests, NEW quantity \in Quantities,
           OperateInventory(r, quantity)
    PROVE  Effect(r)
<1> PICK t, s : t = requests[r].roomType /\ s = requests[r].subject
    OBVIOUS
<1>1. requests[r] \in InventoryRequest /\ Owned(requests[r]) /\ requests[r].pc = "inventory"
    BY RequestForms DEF RequestsOK, OperateInventory, At
<1>2. t \in DOMAIN roomTypes => t \in RoomTypesOf(s)
    BY <1>1 DEF Owned
<1>3. /\ EndRequest(r)
      /\ UNCHANGED <<bookers, accommodations, roomTypes, bookings>>
    BY DEF OperateInventory
<1>4. quantity \in Int
    BY RegistryAssumption
<1>5. ASSUME NEW v \in Inv!InventoryType, inventories' = Put(inventories, t, v),
             t \in DOMAIN roomTypes, IsFiniteSet(v.holds),
             \A h \in v.holds : h.bookingId \in DOMAIN bookings /\ bookings[h.bookingId].roomType = t
      PROVE  Effect(r)
    <2>1. /\ TablesOK' /\ Keeps /\ Grows
          /\ \A o : LeavesAlone(o)
          /\ Changed(inventories, inventories') \subseteq {t}
        BY <1>3, <1>5, InventoryPut
    <2>2. OnlyRowsOf({s})
        BY <1>2, <1>3, <1>5, <2>1, InventoriesOfOwn
    <2>3. RequestsOK'
        BY <1>3, <2>1, RequestEnds
    <2> QED
        BY <1>3, <2>1, <2>2, <2>3
        DEF Effect, LeavesCommandsAlone, OwnOnly, EndRequest, Become, RequestsOK
<1>6. CASE /\ ~Registered(t) /\ t \in DOMAIN roomTypes /\ Inv!validQuantity(quantity)
           /\ inventories' = Put(inventories, t, Inv!NewInventory(quantity, 1))
    <2>1. quantity \in Nat
        BY <1>4, <1>6 DEF Inv!validQuantity
    <2>2. PICK v : v = Inv!NewInventory(quantity, 1)
        OBVIOUS
    <2>3. v \in Inv!InventoryType /\ v.holds = {}
        BY <2>1, <2>2, NewInventoryIsEmpty
    <2>4. IsFiniteSet(v.holds)
        BY <2>3, FS_EmptySet
    <2> QED
        BY <1>5, <1>6, <2>2, <2>3, <2>4
<1>7. CASE /\ Registered(t) /\ Inv!CanChangeQuantity(inventories[t], quantity)
           /\ inventories' = Put(inventories, t, Inv!AfterChangeQuantity(inventories[t], quantity))
    <2>1. /\ t \in DOMAIN roomTypes /\ inventories[t] \in Inv!InventoryType
          /\ IsFiniteSet(inventories[t].holds)
          /\ \A h \in inventories[t].holds :
                h.bookingId \in DOMAIN bookings /\ bookings[h.bookingId].roomType = t
        BY <1>7 DEF Registered, TablesOK, InventoriesOK
    <2>2. Inv!validQuantity(quantity)
        BY <1>7 DEF Inv!CanChangeQuantity
    <2> QED
        BY <1>4, <1>5, <1>7, <2>1, <2>2, ChangedQuantity
<1>8. CASE UNCHANGED inventories
    BY <1>3, <1>8, EndsQuietly DEF tables
<1> QED
    BY <1>6, <1>7, <1>8 DEF OperateInventory

\* A request goes on without writing to a table.
LEMMA ReadCapacityEffect ==
    ASSUME TablesOK, RequestsOK, NEW r \in Requests, ReadCapacity(r)
    PROVE  Effect(r)
<1>1. CASE EndRequest(r)
    BY <1>1, EndsQuietly DEF ReadCapacity
<1>2. CASE Become(r, [requests[r] EXCEPT !.pc = "create"])
    <2> PICK p : p = requests[r]
        OBVIOUS
    <2> DEFINE q == [p EXCEPT !.pc = "create"]
    <2>1. p \in BookRequest /\ Owned(p) /\ p.pc = "capacity"
        BY RequestForms DEF RequestsOK, ReadCapacity, At
    <2>2. /\ q \in BookRequest
          /\ q.pc = "create" /\ q.row = p.row /\ q.subject = p.subject
        BY <2>1 DEF BookRequest
    <2>3. requests' = [requests EXCEPT ![r] = q]
        BY <1>2 DEF Become
    <2> HIDE DEF q
    <2>4. UNCHANGED tables
        BY DEF ReadCapacity
    <2>5. /\ TablesOK' /\ Keeps /\ Grows
          /\ \A o : LeavesAlone(o)
          /\ \A S : OnlyRowsOf(S)
        BY <2>4, UnwrittenTables
    <2>6. Owned(q)'
        BY <2>1, <2>2, <2>4 DEF Owned, tables, MembersOf
    <2>7. \A o \in Requests : Agree(q, requests[o])' /\ Agree(requests[o], q)'
        BY <2>2 DEF Agree
    <2>8. q \in RequestType
        BY <2>2 DEF RequestType
    <2>9. RequestsOK'
        BY <2>3, <2>5, <2>6, <2>7, <2>8, RequestSteps
    <2> QED
        BY <2>3, <2>5, <2>9 DEF Effect, LeavesCommandsAlone, OwnOnly, RequestsOK
<1> QED
    BY <1>1, <1>2 DEF ReadCapacity

\* A row of a guest, new or written again.
LEMMA BookingPut ==
    ASSUME TablesOK, NEW b \in Nat, NEW k \in BookingRow, BookingReferences(k),
           NEW s \in Guests, k.booker \in MembersOf(s),
           b \in DOMAIN bookings => bookings[b].roomType = k.roomType,
           bookings' = Put(bookings, b, k),
           UNCHANGED <<bookers, accommodations, roomTypes, inventories>>
    PROVE  /\ TablesOK' /\ Grows
           /\ \A o : LeavesAlone(o)
           /\ OnlyRowsOf({s})
           /\ DOMAIN bookings' = DOMAIN bookings \cup {b}
           /\ bookings'[b] = k
           /\ \A x \in DOMAIN bookings : x # b => bookings'[x] = bookings[x]
<1>1. /\ DOMAIN bookings' = DOMAIN bookings \cup {b}
      /\ bookings'[b] = k
      /\ \A x \in DOMAIN bookings : x # b => bookings'[x] = bookings[x]
    BY DEF Put
<1>2. k.booker \notin SeedMemberIds
    BY SubjectsAssumption DEF MembersOf, TablesOK, BookersOK
<1>3. IsFiniteSet(DOMAIN bookings') /\ DOMAIN bookings' \subseteq Nat
    BY <1>1, FS_AddElement DEF TablesOK, BookingsOK
<1>4. SeedRooms' = SeedRooms
    BY DEF SeedRooms, RoomTypesOf, InnsOf
<1>5. BookingsOK'
    BY <1>1, <1>2, <1>3, <1>4 DEF TablesOK, BookingsOK, BookingReferences
<1>6. TablesOK'
    BY <1>1, <1>5, BookingsWritten DEF TablesOK, InventoriesOK
<1>7. Grows /\ \A o : LeavesAlone(o)
    BY DEF Grows, LeavesAlone, RoomTypesOf, InnsOf
<1>8. b \in Stays({s})'
    BY <1>1 DEF Stays, MembersOf
<1>9. OnlyRowsOf({s})
    BY <1>1, <1>8, BookingsOfOwn DEF Changed
<1> QED
    BY <1>1, <1>6, <1>7, <1>9

LEMMA CreateBookingEffect ==
    ASSUME TablesOK, RequestsOK, NEW r \in Requests, CreateBooking(r)
    PROVE  Effect(r)
<1> PICK p : p = requests[r]
    OBVIOUS
<1> PICK k, s, b : k = p.row /\ s = p.subject /\ b = NewId(usedBookings)
    OBVIOUS
<1>1. p \in BookRequest /\ Owned(p) /\ p.pc = "create"
    BY RequestForms DEF RequestsOK, CreateBooking, At
<1>2. s \in Guests /\ k \in BookingRow /\ k.booker \in MembersOf(s)
    BY <1>1 DEF Owned, BookRequest
<1>3. UNCHANGED <<bookers, accommodations, roomTypes, inventories>>
    BY DEF CreateBooking
<1>4. CASE ~BookingReferences(k)
    BY <1>4, EndsQuietly DEF CreateBooking, tables
<1>5. CASE BookingReferences(k)
    <2> DEFINE q == [pc |-> "hold", subject |-> s, booking |-> b, row |-> k]
    <2>1. bookings' = Put(bookings, b, k) /\ Become(r, q)
        BY <1>5 DEF CreateBooking
    <2>2. b \in Nat /\ b \notin usedBookings
        BY UsedIdsAreFinite, NewIdIsNew
    <2>3. b \notin DOMAIN bookings
        BY <2>2 DEF usedBookings
    <2>4. /\ q \in HoldRequest /\ q \in RequestType
          /\ q.pc = "hold" /\ q.subject = s /\ q.booking = b /\ q.row = k
        BY <1>2, <2>2 DEF HoldRequest, RequestType
    <2> HIDE DEF q
    <2>5. /\ TablesOK' /\ Grows
          /\ \A o : LeavesAlone(o)
          /\ OnlyRowsOf({s})
          /\ DOMAIN bookings' = DOMAIN bookings \cup {b}
          /\ bookings'[b] = k
          /\ \A x \in DOMAIN bookings : x # b => bookings'[x] = bookings[x]
        BY <1>2, <1>3, <1>5, <2>1, <2>2, <2>3, BookingPut
    <2>6. Keeps
        BY <1>3, <2>2, <2>5, UnwrittenKeeps DEF Keeps, KeepsBookings
    <2>7. Owned(q)'
        BY <1>2, <1>3, <2>4, <2>5 DEF Owned, MembersOf
    <2>8. ASSUME NEW o \in Requests, o # r
          PROVE  Agree(q, requests[o])' /\ Agree(requests[o], q)'
        <3>1. requests'[o] = requests[o]
            BY <1>2, <2>1, <2>8 DEF Become, RequestsOK
        <3>2. requests[o].pc \in {"hold", "save", "cancel", "release"} => requests[o].booking # b
            BY <2>2, KnownIds
        <3> QED
            BY <2>4, <3>1, <3>2 DEF Agree
    <2>9. RequestsOK'
        BY <2>1, <2>4, <2>5, <2>6, <2>7, <2>8, RequestSteps DEF Become
    <2> QED
        BY <2>1, <2>5, <2>9 DEF Effect, LeavesCommandsAlone, OwnOnly, Become, RequestsOK
<1> QED
    BY <1>4, <1>5

LEMMA SaveBookingEffect ==
    ASSUME TablesOK, RequestsOK, NEW r \in Requests, SaveBooking(r)
    PROVE  Effect(r)
<1> PICK p : p = requests[r]
    OBVIOUS
<1> PICK k, s, b : k = p.row /\ s = p.subject /\ b = p.booking
    OBVIOUS
<1>1. p \in HoldRequest /\ Owned(p) /\ p.pc = "save"
    BY RequestForms DEF RequestsOK, SaveBooking, At
<1>2. /\ s \in Guests /\ k \in BookingRow /\ k.booker \in MembersOf(s) /\ b \in Nat
      /\ b \in DOMAIN bookings =>
            bookings[b].booker = k.booker /\ bookings[b].roomType = k.roomType
    BY <1>1 DEF Owned, HoldRequest
<1>3. EndRequest(r) /\ UNCHANGED <<bookers, accommodations, roomTypes, inventories>>
    BY DEF SaveBooking
<1>4. CASE ~(b \in DOMAIN bookings \/ BookingReferences(k))
    BY <1>3, <1>4, EndsQuietly DEF SaveBooking, tables
<1>5. CASE b \in DOMAIN bookings \/ BookingReferences(k)
    <2>1. bookings' = Put(bookings, b, k)
        BY <1>5 DEF SaveBooking
    <2>2. BookingReferences(k)
        BY <1>2, <1>5 DEF TablesOK, BookingsOK, BookingReferences
    <2>3. /\ TablesOK' /\ Grows
          /\ \A o : LeavesAlone(o)
          /\ OnlyRowsOf({s})
          /\ DOMAIN bookings' = DOMAIN bookings \cup {b}
          /\ bookings'[b] = k
          /\ \A x \in DOMAIN bookings : x # b => bookings'[x] = bookings[x]
        BY <1>2, <1>3, <2>1, <2>2, BookingPut
    <2>4. ASSUME NEW o \in Requests, o # r
          PROVE  requests'[o] = requests[o]
        BY <1>3, <2>4 DEF EndRequest, Become, RequestsOK
    <2>5. requests' \in [Requests -> RequestType] /\ requests'[r] = IdleRequest
        BY <1>3 DEF EndRequest, Become, RequestsOK, RequestType
    <2>6. KeepsMembers
        BY <1>3, UnwrittenKeeps
    <2>7. IdleRequest.pc = "idle"
        BY DEF IdleRequest
    <2>8. ASSUME NEW o \in Requests
          PROVE  Owned(requests[o])'
        <3>1. CASE o = r
            BY <2>5, <2>7, <3>1 DEF Owned
        <3>2. CASE o # r
            <4> PICK q : q = requests[o]
                OBVIOUS
            <4>1. Owned(q) /\ Agree(p, q)
                BY <3>2 DEF RequestsOK
            <4>2. requests'[o] = q
                BY <2>4, <3>2
            <4>3. Owned(q)'
                BY <1>1, <1>2, <1>3, <2>3, <4>1
                DEF Owned, Agree, InnsOf, RoomTypesOf, MembersOf, OwnsBooking
            <4> QED
                BY <4>2, <4>3
        <3> QED
            BY <3>1, <3>2
    <2>9. ASSUME NEW o \in Requests, NEW q \in Requests, o # q
          PROVE  Agree(requests[o], requests[q])'
        <3>1. CASE o = r \/ q = r
            BY <2>5, <2>7, <3>1 DEF Agree
        <3>2. CASE o # r /\ q # r
            BY <2>4, <2>6, <2>9, <3>2, AgreeingIsKept
        <3> QED
            BY <3>1, <3>2
    <2>10. RequestsOK'
        BY <2>5, <2>8, <2>9 DEF RequestsOK
    <2> QED
        BY <2>3, <2>4, <2>10 DEF Effect, LeavesCommandsAlone, OwnOnly
<1> QED
    BY <1>4, <1>5

LEMMA HoldNightEffect ==
    ASSUME TablesOK, RequestsOK, NEW r \in Requests, HoldNight(r)
    PROVE  Effect(r)
<1> PICK p : p = requests[r]
    OBVIOUS
<1> PICK k, s, b, t : k = p.row /\ s = p.subject /\ b = p.booking /\ t = p.row.roomType
    OBVIOUS
<1>1. p \in HoldRequest /\ Owned(p) /\ p.pc = "hold"
    BY RequestForms DEF RequestsOK, HoldNight, At
<1>2. /\ s \in Guests /\ k \in BookingRow /\ k.booker \in MembersOf(s) /\ b \in Nat
      /\ b \in DOMAIN bookings =>
            bookings[b].booker = k.booker /\ bookings[b].roomType = t
    BY <1>1 DEF Owned, HoldRequest
<1>3. UNCHANGED <<bookers, accommodations, roomTypes, bookings>>
    BY DEF HoldNight
<1>4. ASSUME NEW q \in HoldRequest, Become(r, q), q.pc = "save", q.subject = s, q.booking = b,
             q.row.booker = k.booker, q.row.roomType = t, TablesOK', Keeps
      PROVE  RequestsOK' /\ \A o \in Requests : o # r => requests'[o] = requests[o]
    <2>1. Owned(q)'
        BY <1>2, <1>3, <1>4 DEF Owned, MembersOf
    <2>2. ASSUME NEW o \in Requests, o # r
          PROVE  requests'[o] = requests[o]
        BY <1>4, <2>2 DEF Become, RequestsOK
    <2>3. ASSUME NEW o \in Requests, o # r
          PROVE  Agree(q, requests[o])' /\ Agree(requests[o], q)'
        <3>1. Agree(p, requests[o]) /\ Agree(requests[o], p)
            BY <2>3 DEF RequestsOK
        <3>2. requests'[o] = requests[o]
            BY <2>2, <2>3
        <3> QED
            BY <1>1, <1>2, <1>3, <1>4, <3>1, <3>2 DEF Agree, MembersOf
    <2>4. q \in RequestType
        BY DEF RequestType
    <2>5. RequestsOK'
        BY <1>4, <2>1, <2>3, <2>4, RequestSteps DEF Become
    <2> QED
        BY <2>2, <2>5
<1>5. CASE CanHold(t, b)
    <2>0. PICK v, w : v = inventories[t] /\ w = Inv!AfterHold(v, b, 1)
        OBVIOUS
    <2>1. /\ t \in DOMAIN roomTypes /\ Registered(t) /\ v \in Inv!InventoryType
          /\ IsFiniteSet(v.holds)
          /\ \A h \in v.holds : h.bookingId \in DOMAIN bookings /\ bookings[h.bookingId].roomType = t
          /\ b \in DOMAIN bookings /\ Inv!CanHold(v, b, 1, 0)
        BY <1>5, <2>0 DEF CanHold, Registered, TablesOK, InventoriesOK
    <2>2. PICK new : HoldAdded(v, w, b, new)
        BY <1>2, <2>0, <2>1, HeldSlot
    <2>3. inventories' = Put(inventories, t, w)
        BY <1>5, <2>0 DEF HoldNight
    <2>4. w \in Inv!InventoryType /\ IsFiniteSet(w.holds)
        <3>1. IsFiniteSet(v.holds \cup {new})
            BY <2>1, FS_AddElement
        <3> QED
            BY <2>2, <3>1 DEF HoldAdded
    <2>5. \A h \in w.holds : h.bookingId \in DOMAIN bookings /\ bookings[h.bookingId].roomType = t
        BY <1>2, <2>1, <2>2 DEF HoldAdded
    <2>6. /\ TablesOK' /\ Keeps /\ Grows
          /\ \A o : LeavesAlone(o)
          /\ DOMAIN inventories' = DOMAIN inventories \cup {t}
          /\ inventories'[t] = w
          /\ Changed(inventories, inventories') \subseteq {t}
        <3>1. t \in DOMAIN roomTypes
            BY <2>1
        <3> QED
            BY <1>3, <2>3, <2>4, <2>5, <3>1, InventoryPut
    <2>7. b \in Stays({s})
        BY <1>2, <2>1 DEF Stays
    <2>8. HoldsOf(t) = v.holds /\ HoldsOf(t)' = v.holds \cup {new} /\ Registered(t)'
        BY <2>0, <2>1, <2>2, <2>6 DEF HoldsOf, Registered, HoldAdded
    <2>9. inventories'[t] = [inventories[t] EXCEPT !.holds = HoldsOf(t)']
        BY <2>0, <2>2, <2>6, <2>8 DEF HoldAdded
    <2>10. OnlyRowsOf({s})
        <3>1. \A h \in (HoldsOf(t) \cup HoldsOf(t)') \ (HoldsOf(t) \cap HoldsOf(t)') :
                 h.bookingId \in Stays({s})
            BY <2>2, <2>7, <2>8 DEF HoldAdded
        <3>2. Registered(t)
            BY <2>1
        <3> QED
            BY <1>3, <2>6, <2>8, <2>9, <3>1, <3>2, InventoriesOfOwn
    <2> DEFINE q == [p EXCEPT !.pc = "save"]
    <2>11. /\ q \in HoldRequest
           /\ q.pc = "save" /\ q.subject = s /\ q.booking = b /\ q.row = k
        BY <1>1 DEF HoldRequest
    <2>12. Become(r, q)
        BY <1>5 DEF HoldNight
    <2> HIDE DEF q
    <2>13. RequestsOK' /\ \A o \in Requests : o # r => requests'[o] = requests[o]
        BY <1>4, <2>6, <2>11, <2>12
    <2> QED
        BY <2>6, <2>10, <2>13 DEF Effect, LeavesCommandsAlone, OwnOnly
<1>6. CASE ~CanHold(t, b)
    <2> DEFINE q == [p EXCEPT !.pc = "save", !.row.status = Domain!Cancelled]
    <2>1. [k EXCEPT !.status = Domain!Cancelled] \in BookingRow
             /\ [k EXCEPT !.status = Domain!Cancelled].booker = k.booker
             /\ [k EXCEPT !.status = Domain!Cancelled].roomType = t
        BY <1>2 DEF BookingRow, Domain!Status
    <2>2. q = [[p EXCEPT !.pc = "save"] EXCEPT !.row = [k EXCEPT !.status = Domain!Cancelled]]
        BY <1>1 DEF HoldRequest
    <2>3. /\ q \in HoldRequest
          /\ q.pc = "save" /\ q.subject = s /\ q.booking = b
          /\ q.row = [k EXCEPT !.status = Domain!Cancelled]
        BY <1>1, <2>1, <2>2 DEF HoldRequest
    <2>4. Become(r, q) /\ UNCHANGED tables
        BY <1>3, <1>6 DEF HoldNight, tables
    <2> HIDE DEF q
    <2>5. /\ TablesOK' /\ Keeps /\ Grows
          /\ \A o : LeavesAlone(o)
          /\ \A S : OnlyRowsOf(S)
        BY <2>4, UnwrittenTables
    <2>6. RequestsOK' /\ \A o \in Requests : o # r => requests'[o] = requests[o]
        BY <1>4, <2>1, <2>3, <2>4, <2>5
    <2> QED
        BY <2>5, <2>6 DEF Effect, LeavesCommandsAlone, OwnOnly
<1> QED
    BY <1>5, <1>6

LEMMA CancelBookingEffect ==
    ASSUME TablesOK, RequestsOK, NEW r \in Requests, CancelBooking(r)
    PROVE  Effect(r)
<1>0. PICK p, s, b : p = requests[r] /\ s = p.subject /\ b = p.booking
    OBVIOUS
<1>1. p \in CancelRequest /\ Owned(p) /\ p.pc = "cancel"
    BY <1>0, RequestForms DEF RequestsOK, CancelBooking, At
<1>2. s \in Guests /\ b \in Nat /\ (b \in DOMAIN bookings => OwnsBooking(s, b))
    BY <1>0, <1>1 DEF Owned, CancelRequest
<1>3. UNCHANGED <<bookers, accommodations, roomTypes, inventories>>
    BY DEF CancelBooking
<1>4. CASE b \notin DOMAIN bookings
    BY <1>0, <1>4, EndsQuietly DEF CancelBooking, tables
<1>5. CASE b \in DOMAIN bookings
    <2>0. PICK k, t : k = bookings[b] /\ t = bookings[b].roomType
        OBVIOUS
    <2>1. /\ k \in BookingRow /\ BookingReferences(k) /\ k.booker \in MembersOf(s)
          /\ k.roomType = t /\ t \in Nat
          /\ k.booker \in SeedMemberIds => t \in SeedRooms
        BY <1>2, <1>5, <2>0
        DEF TablesOK, BookingsOK, RoomTypesOK, BookingReferences, OwnsBooking
    <2>2. [k EXCEPT !.status = Domain!Cancelled] \in BookingRow
             /\ [k EXCEPT !.status = Domain!Cancelled].booker = k.booker
             /\ [k EXCEPT !.status = Domain!Cancelled].roomType = t
        BY <2>1 DEF BookingRow, Domain!Status
    <2>3. PICK c : c = [k EXCEPT !.status = Domain!Cancelled]
        OBVIOUS
    <2>4. c \in BookingRow /\ c.booker = k.booker /\ c.roomType = t
        BY <2>2, <2>3
    <2>5. bookings' = Put(bookings, b, c)
        BY <1>0, <1>5, <2>0, <2>3 DEF CancelBooking, Put
    <2>6. BookingReferences(c)
        BY <2>1, <2>4 DEF BookingReferences
    <2>7. /\ TablesOK' /\ Grows
          /\ \A o : LeavesAlone(o)
          /\ OnlyRowsOf({s})
          /\ DOMAIN bookings' = DOMAIN bookings \cup {b}
          /\ bookings'[b] = c
          /\ \A x \in DOMAIN bookings : x # b => bookings'[x] = bookings[x]
        <3>1. c.booker \in MembersOf(s) /\ bookings[b].roomType = c.roomType
            BY <2>0, <2>1, <2>4
        <3> QED
            BY <1>2, <1>3, <2>4, <2>5, <2>6, <3>1, BookingPut
    <2>8. Keeps
        BY <1>3, <1>5, <2>0, <2>1, <2>4, <2>7, UnwrittenKeeps DEF Keeps, KeepsBookings
    <2>9. PICK q : q = [pc |-> "release", subject |-> s, booking |-> b, roomType |-> t]
        OBVIOUS
    <2>10. /\ q \in RequestType
           /\ q.pc = "release" /\ q.subject = s /\ q.booking = b
        BY <1>2, <2>1, <2>9 DEF ReleaseRequest, RequestType
    <2>11. requests' = [requests EXCEPT ![r] = q]
        BY <1>0, <1>5, <2>0, <2>9 DEF CancelBooking, Become
    <2>12. Owned(q)'
        BY <1>3, <2>1, <2>4, <2>7, <2>10 DEF Owned, OwnsBooking, MembersOf
    <2>13. ASSUME NEW o \in Requests, o # r
           PROVE  Agree(q, requests[o])' /\ Agree(requests[o], q)'
        <3>1. Agree(requests[o], p)
            BY <1>0, <2>13 DEF RequestsOK
        <3>2. requests'[o] = requests[o]
            BY <2>11, <2>13 DEF RequestsOK
        <3> QED
            BY <1>0, <1>1, <1>3, <2>10, <3>1, <3>2 DEF Agree, MembersOf
    <2>14. RequestsOK'
        BY <2>7, <2>8, <2>10, <2>11, <2>12, <2>13, RequestSteps
    <2>15. OwnOnly(r)
        BY <1>0, <2>7 DEF OwnOnly
    <2> QED
        BY <2>7, <2>11, <2>14, <2>15 DEF Effect, LeavesCommandsAlone, RequestsOK
<1> QED
    BY <1>4, <1>5

LEMMA ReleaseNightEffect ==
    ASSUME TablesOK, RequestsOK, NEW r \in Requests, ReleaseNight(r)
    PROVE  Effect(r)
<1>0. PICK p, s, b, t : p = requests[r] /\ s = p.subject /\ b = p.booking /\ t = p.roomType
    OBVIOUS
<1>1. p \in ReleaseRequest /\ Owned(p) /\ p.pc = "release"
    BY <1>0, RequestForms DEF RequestsOK, ReleaseNight, At
<1>2. b \in DOMAIN bookings => OwnsBooking(s, b)
    BY <1>0, <1>1 DEF Owned
<1>3. EndRequest(r) /\ UNCHANGED <<bookers, accommodations, roomTypes, bookings>>
    BY DEF ReleaseNight
<1>4. CASE ~(Registered(t) /\ Inv!CanRelease(inventories[t], b))
    BY <1>0, <1>3, <1>4, EndsQuietly DEF ReleaseNight, tables
<1>5. CASE Registered(t) /\ Inv!CanRelease(inventories[t], b)
    <2>0. PICK v, w : v = inventories[t] /\ w = Inv!AfterRelease(v, b)
        OBVIOUS
    <2>1. /\ t \in DOMAIN roomTypes /\ v \in Inv!InventoryType
          /\ IsFiniteSet(v.holds)
          /\ \A h \in v.holds : h.bookingId \in DOMAIN bookings /\ bookings[h.bookingId].roomType = t
        BY <1>5, <2>0 DEF Registered, TablesOK, InventoriesOK
    <2>2. PICK h : HoldRemoved(v, w, b, h)
        BY <1>5, <2>0, <2>1, ReleasedHold
    <2>3. inventories' = Put(inventories, t, w)
        BY <1>0, <1>5, <2>0 DEF ReleaseNight
    <2>4. w \in Inv!InventoryType /\ IsFiniteSet(w.holds) /\ w.holds \subseteq v.holds
        <3>1. IsFiniteSet(v.holds \ {h})
            BY <2>1, FS_RemoveElement
        <3> QED
            BY <2>2, <3>1 DEF HoldRemoved
    <2>5. \A x \in w.holds : x.bookingId \in DOMAIN bookings /\ bookings[x.bookingId].roomType = t
        BY <2>1, <2>4
    <2>6. /\ TablesOK' /\ Keeps /\ Grows
          /\ \A o : LeavesAlone(o)
          /\ DOMAIN inventories' = DOMAIN inventories \cup {t}
          /\ inventories'[t] = w
          /\ Changed(inventories, inventories') \subseteq {t}
        <3>1. t \in DOMAIN roomTypes
            BY <2>1
        <3> QED
            BY <1>3, <2>3, <2>4, <2>5, <3>1, InventoryPut
    <2>7. b \in Stays({s})
        BY <1>2, <2>1, <2>2 DEF Stays, OwnsBooking, HoldRemoved
    <2>8. HoldsOf(t) = v.holds /\ HoldsOf(t)' = v.holds \ {h} /\ Registered(t)'
        BY <1>5, <2>0, <2>2, <2>6 DEF HoldsOf, Registered, HoldRemoved
    <2>9. inventories'[t] = [inventories[t] EXCEPT !.holds = HoldsOf(t)']
        BY <2>0, <2>2, <2>6, <2>8 DEF HoldRemoved
    <2>10. OnlyRowsOf({s})
        <3>1. \A x \in (HoldsOf(t) \cup HoldsOf(t)') \ (HoldsOf(t) \cap HoldsOf(t)') :
                 x.bookingId \in Stays({s})
            BY <2>2, <2>7, <2>8 DEF HoldRemoved
        <3> QED
            BY <1>3, <1>5, <2>6, <2>8, <2>9, <3>1, InventoriesOfOwn
    <2>11. RequestsOK'
        BY <1>3, <2>6, RequestEnds
    <2>12. OwnOnly(r)
        BY <1>0, <2>10 DEF OwnOnly
    <2> QED
        BY <1>3, <2>6, <2>11, <2>12 DEF Effect, LeavesCommandsAlone, EndRequest, Become, RequestsOK
<1> QED
    BY <1>4, <1>5

LEMMA CutEffect ==
    ASSUME TablesOK, RequestsOK, NEW r \in Requests, Cut(r)
    PROVE  Effect(r)
BY EndsQuietly DEF Cut

LEMMA RequestEffect ==
    ASSUME TablesOK, RequestsOK, NEW r \in Requests, Request(r)
    PROVE  Effect(r)
<1>1. CASE \E s \in Operators : \/ \E a \in DOMAIN accommodations : BeginRoomType(r, s, a)
                                \/ \E t \in DOMAIN roomTypes : BeginInventory(r, s, t)
    BY <1>1, BeginRoomTypeEffect, BeginInventoryEffect
<1>2. CASE \E s \in Guests :
              \/ \E t \in DOMAIN roomTypes, n \in GuestCounts : BeginBook(r, s, t, n)
              \/ \E b \in DOMAIN bookings : BeginCancel(r, s, b)
    BY <1>2, BeginBookEffect, BeginCancelEffect
<1>3. CASE \E capacity \in Capacities : CreateRoomType(r, capacity)
    BY <1>3, CreateRoomTypeEffect
<1>4. CASE \E quantity \in Quantities : OperateInventory(r, quantity)
    BY <1>4, OperateInventoryEffect
<1>5. CASE ReadCapacity(r)
    BY <1>5, ReadCapacityEffect
<1>6. CASE CreateBooking(r)
    BY <1>6, CreateBookingEffect
<1>7. CASE HoldNight(r)
    BY <1>7, HoldNightEffect
<1>8. CASE SaveBooking(r)
    BY <1>8, SaveBookingEffect
<1>9. CASE CancelBooking(r)
    BY <1>9, CancelBookingEffect
<1>10. CASE ReleaseNight(r)
    BY <1>10, ReleaseNightEffect
<1>11. CASE Cut(r)
    BY <1>11, CutEffect
<1> QED
    BY <1>1, <1>2, <1>3, <1>4, <1>5, <1>6, <1>7, <1>8, <1>9, <1>10, <1>11 DEF Request

\* Any step of the API.
LEMMA APIEffect ==
    ASSUME TablesOK, RequestsOK, API
    PROVE  TablesOK' /\ RequestsOK' /\ Grows /\ LeavesCommandsAlone
<1>1. ASSUME NEW s \in Guests, CreateBooker(s)
      PROVE  TablesOK' /\ RequestsOK' /\ Grows /\ LeavesCommandsAlone
    <2>1. UNCHANGED requests
        BY <1>1 DEF CreateBooker
    <2> QED
        BY <1>1, <2>1, CreateBookerEffect, RequestsAreKept
<1>2. ASSUME NEW s \in Operators, CreateAccommodation(s)
      PROVE  TablesOK' /\ RequestsOK' /\ Grows /\ LeavesCommandsAlone
    <2>1. UNCHANGED requests
        BY <1>2 DEF CreateAccommodation
    <2> QED
        BY <1>2, <2>1, CreateAccommodationEffect, RequestsAreKept
<1>3. ASSUME NEW r \in Requests, Request(r)
      PROVE  TablesOK' /\ RequestsOK' /\ Grows /\ LeavesCommandsAlone
    BY <1>3, RequestEffect DEF Effect
<1> QED
    BY <1>1, <1>2, <1>3 DEF API

-----------------------------------------------------------------------------
(* The statements of loadseed *)

SeedOwn == {marker} \cup Range(SeedMembers)
SeedEffect == TablesOK' /\ Keeps /\ OnlyRowsOf(SeedOwn)

\* The rows of a sequence stand under new ids in a table.
Extended(table, new, used, rows, ids) ==
    /\ ids \in [1 .. Len(rows) -> (Nat \ {0}) \ used] /\ IsInjective(ids)
    /\ DOMAIN new = DOMAIN table \cup Range(ids)
    /\ IsFiniteSet(DOMAIN new)
    /\ \A i \in DOMAIN table : i \notin Range(ids) /\ new[i] = table[i]
    /\ \A j \in 1 .. Len(rows) : ids[j] \in DOMAIN new /\ new[ids[j]] = rows[j]
    /\ \A i \in DOMAIN new : i \notin DOMAIN table =>
          \E j \in 1 .. Len(rows) : i = ids[j]

LEMMA RowsAdded ==
    ASSUME NEW table, NEW used, IsFiniteSet(used), DOMAIN table \subseteq used,
           NEW rows, Len(rows) \in Nat
    PROVE  \E ids : Extended(table, WithNew(table, used, rows), used, rows, ids)
<1>0. PICK ids, n : ids = NewIds(used, Len(rows)) /\ n = Len(rows)
    OBVIOUS
<1>1. ids \in [1 .. n -> (Nat \ {0}) \ used] /\ IsInjective(ids)
    BY <1>0, NewIdsAreNew
<1>2. PICK new : new = WithNew(table, used, rows)
    OBVIOUS
<1>3. new = [i \in DOMAIN table \cup Range(ids) |->
                IF i \in DOMAIN table THEN table[i] ELSE rows[CHOOSE j \in DOMAIN ids : ids[j] = i]]
    BY <1>0, <1>2 DEF WithNew
<1>4. \A j \in 1 .. n : ids[j] \notin DOMAIN table
    BY <1>1
<1>5. ASSUME NEW j \in 1 .. n
      PROVE  ids[j] \in DOMAIN new /\ new[ids[j]] = rows[j]
    <2>1. j = CHOOSE l \in DOMAIN ids : ids[l] = ids[j]
        BY <1>1, <1>5 DEF IsInjective
    <2>2. ids[j] \in Range(ids) /\ ids[j] \notin DOMAIN table
        BY <1>1, <1>4, <1>5 DEF Range
    <2> QED
        BY <1>3, <2>1, <2>2
<1>6. \A i \in DOMAIN table : i \notin Range(ids) /\ new[i] = table[i]
    BY <1>1, <1>3, <1>4 DEF Range
<1>7. DOMAIN new = DOMAIN table \cup Range(ids)
    BY <1>3
<1>8. IsFiniteSet(DOMAIN new)
    <2>1. IsFiniteSet(1 .. n)
        BY <1>0, FS_Interval
    <2>2. DOMAIN ids = 1 .. n
        BY <1>1
    <2>3. IsFiniteSet({ids[j] : j \in 1 .. n})
        BY <2>1, <2>2, ImageIsFinite
    <2>4. Range(ids) = {ids[j] : j \in 1 .. n}
        BY <2>2 DEF Range
    <2>5. IsFiniteSet(DOMAIN table)
        BY FS_Subset
    <2>6. IsFiniteSet(Range(ids))
        BY <2>3, <2>4
    <2>7. IsFiniteSet(DOMAIN table \cup Range(ids))
        BY <2>5, <2>6, FS_Union
    <2> QED
        BY <1>7, <2>7
<1>9. \A i \in DOMAIN new : i \notin DOMAIN table => \E j \in 1 .. n : i = ids[j]
    BY <1>1, <1>7 DEF Range
<1> QED
    BY <1>0, <1>1, <1>2, <1>5, <1>6, <1>7, <1>8, <1>9 DEF Extended

LEMMA SeedRoomsAreOwn ==
    /\ \A t \in SeedRooms : \E s \in SeedOwn : t \in RoomTypesOf(s)
    /\ \A b \in SeedBookings : b \in Stays(SeedOwn)
BY DEF SeedRooms, SeedBookings, SeedOwn, Stays, Rooms, BookingsIn

LEMMA DeleteHoldsEffect ==
    ASSUME TablesOK, DeleteHolds
    PROVE  SeedEffect
<1>1. UNCHANGED <<bookers, accommodations, roomTypes, bookings>>
    BY DEF DeleteHolds
<1>2. inventories' = [t \in DOMAIN inventories |->
                         IF t \in SeedRooms THEN [inventories[t] EXCEPT !.holds = {}]
                         ELSE inventories[t]]
    BY DEF DeleteHolds
<1>3. ASSUME NEW t \in DOMAIN inventories
      PROVE  /\ inventories'[t] \in Inv!InventoryType
             /\ IsFiniteSet(inventories'[t].holds)
             /\ inventories'[t].holds \subseteq inventories[t].holds
    <2>1. inventories[t] \in Inv!InventoryType /\ IsFiniteSet(inventories[t].holds)
        BY <1>3 DEF TablesOK, InventoriesOK
    <2>2. CASE t \in SeedRooms
        <3>1. inventories'[t] = [inventories[t] EXCEPT !.holds = {}]
            BY <1>2, <1>3, <2>2
        <3>2. inventories'[t] \in Inv!InventoryType /\ inventories'[t].holds = {}
            BY <2>1, <3>1 DEF Inv!InventoryType
        <3> QED
            BY <3>2, FS_EmptySet
    <2>3. CASE t \notin SeedRooms
        BY <1>2, <1>3, <2>1, <2>3
    <2> QED
        BY <2>2, <2>3
<1>4. InventoriesOK'
    BY <1>1, <1>2, <1>3 DEF TablesOK, InventoriesOK
<1>5. TablesOK'
    BY <1>1, <1>4, InventoriesWritten
<1>6. \A t \in Changed(inventories, inventories') : t \in SeedRooms
    BY <1>2 DEF Changed
<1>7. OnlyRowsOf(SeedOwn)
    BY <1>1, <1>6, SeedRoomsAreOwn, InventoriesOfOwn
<1> QED
    BY <1>1, <1>5, <1>7, UnwrittenKeeps DEF SeedEffect, Keeps

LEMMA DeleteBookingsEffect ==
    ASSUME TablesOK, DeleteBookings
    PROVE  SeedEffect
<1>1. UNCHANGED <<bookers, accommodations, roomTypes, inventories>>
    BY DEF DeleteBookings
<1>2. CASE HeldIn(DOMAIN inventories) \cap SeedBookings = {}
    <2>1. bookings' = Without(bookings, SeedBookings)
        BY <1>2 DEF DeleteBookings
    <2>2. /\ DOMAIN bookings' = DOMAIN bookings \ SeedBookings
          /\ \A b \in DOMAIN bookings \ SeedBookings : bookings'[b] = bookings[b]
        BY <2>1 DEF Without, Restrict
    <2>3. SeedRooms' = SeedRooms
        BY <1>1 DEF SeedRooms, RoomTypesOf, InnsOf
    <2>4. IsFiniteSet(DOMAIN bookings')
        BY <2>2, FS_Subset DEF TablesOK, BookingsOK
    <2>5. BookingsOK'
        BY <1>1, <2>2, <2>3, <2>4 DEF TablesOK, BookingsOK, BookingReferences
    <2>6. \A t \in DOMAIN inventories : \A h \in inventories[t].holds :
             h.bookingId \in DOMAIN bookings /\ h.bookingId \notin SeedBookings
        BY <1>2 DEF HeldIn, TablesOK, InventoriesOK
    <2>7. TablesOK'
        BY <1>1, <2>2, <2>5, <2>6, BookingsWritten
    <2>8. \A b \in Changed(bookings, bookings') : b \in SeedBookings
        BY <2>2 DEF Changed
    <2>9. OnlyRowsOf(SeedOwn)
        BY <1>1, <2>8, SeedRoomsAreOwn, BookingsOfOwn
    <2> QED
        BY <1>1, <2>2, <2>7, <2>9, UnwrittenKeeps DEF SeedEffect, Keeps, KeepsBookings
<1>3. CASE ~(HeldIn(DOMAIN inventories) \cap SeedBookings = {})
    BY <1>1, <1>3, UnwrittenTables DEF DeleteBookings, tables, SeedEffect
<1> QED
    BY <1>2, <1>3

LEMMA DeleteInventoriesEffect ==
    ASSUME TablesOK, DeleteInventories
    PROVE  SeedEffect
<1>1. UNCHANGED <<bookers, accommodations, roomTypes, bookings>>
    BY DEF DeleteInventories
<1>2. CASE HeldIn(SeedRooms) = {}
    <2>1. inventories' = Without(inventories, SeedRooms)
        BY <1>2 DEF DeleteInventories
    <2>2. /\ DOMAIN inventories' = DOMAIN inventories \ SeedRooms
          /\ \A t \in DOMAIN inventories \ SeedRooms : inventories'[t] = inventories[t]
        BY <2>1 DEF Without, Restrict
    <2>3. InventoriesOK'
        BY <1>1, <2>2 DEF TablesOK, InventoriesOK
    <2>4. TablesOK'
        BY <1>1, <2>3, InventoriesWritten
    <2>5. \A t \in Changed(inventories, inventories') : t \in SeedRooms
        BY <2>2 DEF Changed
    <2>6. OnlyRowsOf(SeedOwn)
        BY <1>1, <2>5, SeedRoomsAreOwn, InventoriesOfOwn
    <2> QED
        BY <1>1, <2>4, <2>6, UnwrittenKeeps DEF SeedEffect, Keeps
<1>3. CASE ~(HeldIn(SeedRooms) = {})
    BY <1>1, <1>3, UnwrittenTables DEF DeleteInventories, tables, SeedEffect
<1> QED
    BY <1>2, <1>3

LEMMA DeleteRoomTypesEffect ==
    ASSUME TablesOK, DeleteRoomTypes
    PROVE  SeedEffect
<1>1. UNCHANGED <<bookers, accommodations, inventories, bookings>>
    BY DEF DeleteRoomTypes
<1>2. CASE SeedBookings = {} /\ SeedRooms \cap DOMAIN inventories = {}
    <2>1. roomTypes' = Without(roomTypes, SeedRooms)
        BY <1>2 DEF DeleteRoomTypes
    <2>2. /\ DOMAIN roomTypes' = DOMAIN roomTypes \ SeedRooms
          /\ \A t \in DOMAIN roomTypes \ SeedRooms : roomTypes'[t] = roomTypes[t]
        BY <2>1 DEF Without, Restrict
    <2>3. IsFiniteSet(DOMAIN roomTypes')
        BY <2>2, FS_Subset DEF TablesOK, RoomTypesOK
    <2>4. RoomTypesOK'
        BY <1>1, <2>2, <2>3 DEF TablesOK, RoomTypesOK
    <2>5. \A b \in DOMAIN bookings : bookings[b].roomType \in DOMAIN roomTypes'
        BY <1>2, <2>2 DEF TablesOK, BookingsOK, BookingReferences, SeedBookings, BookingsIn
    <2>6. DOMAIN inventories \subseteq DOMAIN roomTypes'
        BY <1>2, <2>2 DEF TablesOK, InventoriesOK
    <2>7. TablesOK'
        BY <1>1, <2>2, <2>4, <2>5, <2>6, RoomTypesWritten
    <2>8. \A t \in Changed(roomTypes, roomTypes') : t \in SeedRooms
        BY <2>2 DEF Changed
    <2>9. OnlyRowsOf(SeedOwn)
        BY <1>1, <2>8, SeedRoomsAreOwn, RoomTypesOfOwn
    <2> QED
        BY <1>1, <2>2, <2>7, <2>9, UnwrittenKeeps DEF SeedEffect, Keeps, KeepsRoomTypes
<1>3. CASE ~(SeedBookings = {} /\ SeedRooms \cap DOMAIN inventories = {})
    BY <1>1, <1>3, UnwrittenTables DEF DeleteRoomTypes, tables, SeedEffect
<1> QED
    BY <1>2, <1>3

LEMMA DeleteAccommodationsEffect ==
    ASSUME TablesOK, DeleteAccommodations
    PROVE  SeedEffect
<1>1. UNCHANGED <<bookers, roomTypes, inventories, bookings>>
    BY DEF DeleteAccommodations
<1>2. CASE SeedRooms = {}
    <2>1. accommodations' = Without(accommodations, InnsOf(marker))
        BY <1>2 DEF DeleteAccommodations
    <2>2. /\ DOMAIN accommodations' = DOMAIN accommodations \ InnsOf(marker)
          /\ \A a \in DOMAIN accommodations \ InnsOf(marker) : accommodations'[a] = accommodations[a]
        BY <2>1 DEF Without, Restrict
    <2>3. InnsOK'
        BY <2>2, FS_Subset DEF TablesOK, InnsOK
    <2>4. \A t \in DOMAIN roomTypes :
              roomTypes[t].accommodation \in DOMAIN accommodations \ InnsOf(marker)
        BY <1>2 DEF SeedRooms, RoomTypesOf, TablesOK, RoomTypesOK
    <2>5. TablesOK'
        BY <1>1, <2>2, <2>3, <2>4, InnsWritten
    <2>6. \A a \in Changed(accommodations, accommodations') : a \in InnsOf(marker)
        BY <2>2 DEF Changed
    <2>7. OnlyRowsOf(SeedOwn)
        BY <1>1, <2>6, InnsOfOwn DEF SeedOwn
    <2> QED
        BY <1>1, <2>2, <2>5, <2>7, UnwrittenKeeps DEF SeedEffect, Keeps, KeepsInns
<1>3. CASE ~(SeedRooms = {})
    BY <1>1, <1>3, UnwrittenTables DEF DeleteAccommodations, tables, SeedEffect
<1> QED
    BY <1>2, <1>3

LEMMA DeleteBookersEffect ==
    ASSUME TablesOK, DeleteBookers
    PROVE  SeedEffect
<1>0. PICK gone : gone = {m \in DOMAIN bookers : bookers[m] \in Range(SeedMembers)}
    OBVIOUS
<1>1. UNCHANGED <<accommodations, roomTypes, inventories, bookings>>
    BY DEF DeleteBookers
<1>2. CASE \A b \in DOMAIN bookings : bookings[b].booker \notin gone
    <2>1. bookers' = Without(bookers, gone)
        BY <1>0, <1>2 DEF DeleteBookers
    <2>2. /\ DOMAIN bookers' = DOMAIN bookers \ gone
          /\ \A m \in DOMAIN bookers \ gone : bookers'[m] = bookers[m]
        BY <2>1 DEF Without, Restrict
    <2>3. IsFiniteSet(DOMAIN bookers')
        BY <2>2, FS_Subset DEF TablesOK, BookersOK
    <2>4. IsInjective(bookers')
        BY <2>2 DEF TablesOK, BookersOK, IsInjective
    <2>5. BookersOK'
        BY <2>2, <2>3, <2>4 DEF TablesOK, BookersOK, SeedMemberIds
    <2>6. \A b \in DOMAIN bookings : bookings[b].booker \in DOMAIN bookers'
        BY <1>2, <2>2 DEF TablesOK, BookingsOK, BookingReferences
    <2>7. TablesOK'
        BY <1>1, <2>5, <2>6, BookersWritten
    <2>8. \A m \in Changed(bookers, bookers') : \E s \in SeedOwn : m \in MembersOf(s)
        BY <1>0, <2>2 DEF Changed, SeedOwn, MembersOf
    <2>9. OnlyRowsOf(SeedOwn)
        BY <1>1, <2>8, BookersOfOwn
    <2>10. KeepsMembers
        BY <1>0, <2>2, SubjectsAssumption DEF KeepsMembers
    <2> QED
        BY <1>1, <2>7, <2>9, <2>10, UnwrittenKeeps DEF SeedEffect, Keeps
<1>3. CASE ~(\A b \in DOMAIN bookings : bookings[b].booker \notin gone)
    BY <1>0, <1>1, <1>3, UnwrittenTables DEF DeleteBookers, tables, SeedEffect
<1> QED
    BY <1>2, <1>3

LEMMA InnRows ==
    ASSUME TablesOK, InsertAccommodations
    PROVE  \E rows, ids :
              /\ Extended(accommodations, accommodations', usedInns, rows, ids)
              /\ Len(rows) = Inns /\ Len(rows) \in Nat
              /\ \A j \in 1 .. Len(rows) : rows[j] = marker
<1>0. PICK rows, n : rows = [j \in 1 .. Inns |-> marker] /\ n = Inns
    OBVIOUS
<1>1. n \in Nat /\ Len(rows) = n /\ \A j \in 1 .. n : rows[j] = marker
    BY <1>0, LoadSeedAssumption
<1>2. accommodations' = WithNew(accommodations, usedInns, rows)
    BY <1>0 DEF InsertAccommodations
<1>3. IsFiniteSet(usedInns) /\ DOMAIN accommodations \subseteq usedInns /\ Len(rows) \in Nat
    BY <1>1, UsedIdsAreFinite DEF usedInns
<1>4. \E ids : Extended(accommodations, WithNew(accommodations, usedInns, rows), usedInns, rows, ids)
    BY <1>3, RowsAdded
<1> QED
    BY <1>0, <1>1, <1>2, <1>4

LEMMA InsertAccommodationsEffect ==
    ASSUME TablesOK, InsertAccommodations
    PROVE  SeedEffect
<1>1. UNCHANGED <<bookers, roomTypes, inventories, bookings>>
    BY DEF InsertAccommodations
<1>2. PICK rows, ids :
          /\ Extended(accommodations, accommodations', usedInns, rows, ids)
          /\ Len(rows) = Inns /\ Len(rows) \in Nat
          /\ \A j \in 1 .. Len(rows) : rows[j] = marker
    BY InnRows
<1>5. /\ IsFiniteSet(DOMAIN accommodations')
      /\ \A a \in DOMAIN accommodations :
            a \in DOMAIN accommodations' /\ accommodations'[a] = accommodations[a]
      /\ \A a \in DOMAIN accommodations' : a \notin DOMAIN accommodations =>
            a \in Nat /\ a \notin usedInns /\ accommodations'[a] = marker
    BY <1>2 DEF Extended
<1>6. InnsOK'
    BY <1>5 DEF TablesOK, InnsOK
<1>7. TablesOK'
    BY <1>1, <1>5, <1>6, InnsWritten DEF TablesOK, RoomTypesOK
<1>8. \A a \in Changed(accommodations, accommodations') : a \in InnsOf(marker)'
    BY <1>5 DEF Changed, InnsOf
<1>9. OnlyRowsOf(SeedOwn)
    BY <1>1, <1>8, InnsOfOwn DEF SeedOwn
<1>10. KeepsInns
    BY <1>5 DEF KeepsInns
<1> QED
    BY <1>1, <1>7, <1>9, <1>10, UnwrittenKeeps DEF SeedEffect, Keeps

\* The join of the inns under the marker with the numbers of their room types.
InnsAndNumbers == InnsOf(marker) \X (1 .. RoomTypesPerInn)

LEMMA InnsAreJoined ==
    ASSUME TablesOK
    PROVE  /\ IsFiniteSet(InnsOf(marker)) /\ IsFiniteSet(InnsAndNumbers)
           /\ Cardinality(InnsAndNumbers) = Cardinality(InnsOf(marker)) * RoomTypesPerInn
<1>1. IsFiniteSet(InnsOf(marker))
    BY FS_Subset DEF TablesOK, InnsOK, InnsOf
<1>2. IsFiniteSet(1 .. RoomTypesPerInn) /\ Cardinality(1 .. RoomTypesPerInn) = RoomTypesPerInn
    BY LoadSeedAssumption, FS_Interval
<1> QED
    BY <1>1, <1>2, FS_Product DEF InnsAndNumbers

\* The rows that InsertRoomTypes adds.
LEMMA RoomTypeRows ==
    ASSUME TablesOK, InsertRoomTypes
    PROVE  \E rows, ids :
              /\ Extended(roomTypes, roomTypes', usedRoomTypes, rows, ids)
              /\ Len(rows) = Cardinality(InnsAndNumbers) /\ Len(rows) \in Nat
              /\ \A j \in 1 .. Len(rows) :
                    /\ rows[j] \in [accommodation : DOMAIN accommodations, capacity : Nat \ {0}]
                    /\ rows[j].accommodation \in InnsOf(marker)
<1>0. PICK join, n : join = SetToSeq(InnsAndNumbers) /\ n = Cardinality(InnsAndNumbers)
    OBVIOUS
<1>1. n \in Nat /\ join \in [1 .. n -> InnsAndNumbers]
    BY <1>0, InnsAreJoined, Enumerated
<1>2. PICK rows : rows = [j \in DOMAIN join |-> [accommodation |-> join[j][1], capacity |-> 1]]
    OBVIOUS
<1>3. Len(rows) = n
    BY <1>1, <1>2
<1>4. \A j \in 1 .. n : join[j][1] \in InnsOf(marker)
    BY <1>1 DEF InnsAndNumbers
<1>5. \A j \in 1 .. n :
          /\ rows[j] \in [accommodation : DOMAIN accommodations, capacity : Nat \ {0}]
          /\ rows[j].accommodation \in InnsOf(marker)
    BY <1>1, <1>2, <1>4 DEF InnsOf
<1>6. roomTypes' = WithNew(roomTypes, usedRoomTypes, rows)
    BY <1>0, <1>2 DEF InsertRoomTypes, InnsAndNumbers
<1>7. IsFiniteSet(usedRoomTypes) /\ DOMAIN roomTypes \subseteq usedRoomTypes /\ Len(rows) \in Nat
    BY <1>1, <1>3, UsedIdsAreFinite DEF usedRoomTypes
<1>8. \E ids : Extended(roomTypes, WithNew(roomTypes, usedRoomTypes, rows), usedRoomTypes, rows, ids)
    BY <1>7, RowsAdded
<1> QED
    BY <1>0, <1>3, <1>5, <1>6, <1>7, <1>8

LEMMA InsertRoomTypesEffect ==
    ASSUME TablesOK, InsertRoomTypes
    PROVE  SeedEffect
<1>1. UNCHANGED <<bookers, accommodations, inventories, bookings>>
    BY DEF InsertRoomTypes
<1>2. PICK rows, ids :
          /\ Extended(roomTypes, roomTypes', usedRoomTypes, rows, ids)
          /\ Len(rows) \in Nat
          /\ \A j \in 1 .. Len(rows) :
                /\ rows[j] \in [accommodation : DOMAIN accommodations, capacity : Nat \ {0}]
                /\ rows[j].accommodation \in InnsOf(marker)
    BY RoomTypeRows
<1>3. /\ IsFiniteSet(DOMAIN roomTypes')
      /\ \A t \in DOMAIN roomTypes : t \in DOMAIN roomTypes' /\ roomTypes'[t] = roomTypes[t]
      /\ \A t \in DOMAIN roomTypes' : t \notin DOMAIN roomTypes =>
            /\ t \in Nat /\ t \notin usedRoomTypes
            /\ roomTypes'[t] \in [accommodation : DOMAIN accommodations, capacity : Nat \ {0}]
            /\ roomTypes'[t].accommodation \in InnsOf(marker)
    BY <1>2 DEF Extended
<1>4. RoomTypesOK'
    BY <1>1, <1>3 DEF TablesOK, RoomTypesOK
<1>5. TablesOK'
    BY <1>1, <1>3, <1>4, RoomTypesWritten
    DEF TablesOK, BookingsOK, BookingReferences, InventoriesOK
<1>6. \A t \in Changed(roomTypes, roomTypes') : t \in RoomTypesOf(marker)'
    BY <1>1, <1>3 DEF Changed, RoomTypesOf, InnsOf
<1>7. OnlyRowsOf(SeedOwn)
    BY <1>1, <1>6, RoomTypesOfOwn DEF SeedOwn
<1>8. KeepsRoomTypes
    BY <1>3 DEF KeepsRoomTypes
<1> QED
    BY <1>1, <1>5, <1>7, <1>8, UnwrittenKeeps DEF SeedEffect, Keeps

LEMMA InsertInventoriesEffect ==
    ASSUME TablesOK, InsertInventories
    PROVE  SeedEffect
<1>1. UNCHANGED <<bookers, accommodations, roomTypes, bookings>>
    BY DEF InsertInventories
<1>2. CASE SeedRooms \cap DOMAIN inventories = {}
    <2>1. PICK quantity \in [SeedRooms -> SeedQuantities] :
              inventories' = [t \in DOMAIN inventories \cup SeedRooms |->
                                 IF t \in SeedRooms THEN Inv!NewInventory(quantity[t], 1)
                                 ELSE inventories[t]]
        BY <1>2 DEF InsertInventories
    <2>2. DOMAIN inventories' = DOMAIN inventories \cup SeedRooms
        BY <2>1
    <2>3. \A t \in SeedRooms : /\ inventories'[t] \in Inv!InventoryType
                               /\ inventories'[t].holds = {}
                               /\ IsFiniteSet(inventories'[t].holds)
        <3>1. \A t \in SeedRooms : quantity[t] \in Nat
            BY <2>1, LoadSeedAssumption
        <3>2. \A t \in SeedRooms : inventories'[t] = Inv!NewInventory(quantity[t], 1)
            BY <2>1
        <3>3. ASSUME NEW t \in SeedRooms
              PROVE  /\ inventories'[t] \in Inv!InventoryType
                     /\ inventories'[t].holds = {}
            <4>1. PICK q \in Nat : q = quantity[t]
                BY <3>1
            <4>2. inventories'[t] = Inv!NewInventory(q, 1)
                BY <3>2, <4>1
            <4> QED
                BY <4>2, NewInventoryIsEmpty
        <3> QED
            BY <3>3, FS_EmptySet
    <2>4. \A t \in DOMAIN inventories : t \notin SeedRooms /\ inventories'[t] = inventories[t]
        BY <1>2, <2>1
    <2>5. InventoriesOK'
        BY <1>1, <2>2, <2>3, <2>4 DEF TablesOK, InventoriesOK, SeedRooms, RoomTypesOf
    <2>6. TablesOK'
        BY <1>1, <2>5, InventoriesWritten
    <2>7. \A t \in Changed(inventories, inventories') : t \in SeedRooms
        BY <2>2, <2>4 DEF Changed
    <2>8. OnlyRowsOf(SeedOwn)
        BY <1>1, <2>7, SeedRoomsAreOwn, InventoriesOfOwn
    <2> QED
        BY <1>1, <2>6, <2>8, UnwrittenKeeps DEF SeedEffect, Keeps
<1>3. CASE ~(SeedRooms \cap DOMAIN inventories = {})
    BY <1>1, <1>3, UnwrittenTables DEF InsertInventories, tables, SeedEffect
<1> QED
    BY <1>2, <1>3

LEMMA InsertBookersEffect ==
    ASSUME TablesOK, InsertBookers
    PROVE  SeedEffect
<1>1. UNCHANGED <<accommodations, roomTypes, inventories, bookings>>
    BY DEF InsertBookers
<1>0. PICK accepted : accepted = (/\ SeedMemberIds \cap DOMAIN bookers = {}
                                  /\ \A i \in DOMAIN SeedMembers : SubjectIsFree(SeedMembers[i]))
    OBVIOUS
<1>2. CASE accepted
    <2>1. bookers' = [m \in DOMAIN bookers \cup SeedMemberIds |->
                         IF m \in SeedMemberIds THEN SeedMembers[0 - m] ELSE bookers[m]]
        BY <1>0, <1>2 DEF InsertBookers
    <2>2. /\ DOMAIN bookers' = DOMAIN bookers \cup SeedMemberIds
          /\ \A m \in DOMAIN bookers : m \notin SeedMemberIds /\ bookers'[m] = bookers[m]
          /\ \A m \in SeedMemberIds : bookers'[m] = SeedMembers[0 - m]
        BY <1>0, <1>2, <2>1
    <2>3. IsFiniteSet(SeedMemberIds)
        <3>1. PICK n, ids : n = Len(SeedMembers) /\ ids = [i \in 1 .. n |-> SeedMemberId(i)]
            OBVIOUS
        <3>2. n \in Nat /\ DOMAIN SeedMembers = 1 .. n
            BY <3>1, LoadSeedAssumption
        <3>3. DOMAIN ids = 1 .. n /\ SeedMemberIds = {ids[i] : i \in 1 .. n}
            BY <3>1, <3>2 DEF SeedMemberIds
        <3>4. IsFiniteSet(1 .. n)
            BY <3>2, FS_Interval
        <3>5. IsFiniteSet({ids[i] : i \in 1 .. n})
            BY <3>3, <3>4, ImageIsFinite
        <3> QED
            BY <3>3, <3>5
    <2>4. IsFiniteSet(DOMAIN bookers') /\ DOMAIN bookers' \subseteq Int
        <3>1. IsFiniteSet(DOMAIN bookers) /\ DOMAIN bookers \subseteq Int
            BY DEF TablesOK, BookersOK
        <3>2. IsFiniteSet(DOMAIN bookers \cup SeedMemberIds)
            BY <2>3, <3>1, FS_Union
        <3> QED
            BY <2>2, <3>1, <3>2, SeedIdsAreNotPositive
    <2>5. \A m \in SeedMemberIds : bookers'[m] \in Range(SeedMembers)
        BY <2>2, SeedIdsAreNotPositive DEF Range
    <2>6. \A m \in DOMAIN bookers : bookers[m] \notin Range(SeedMembers)
        BY <1>0, <1>2 DEF SubjectIsFree, MembersOf, Range
    <2>7. IsInjective(bookers')
        <3>1. ASSUME NEW m \in DOMAIN bookers', NEW n \in DOMAIN bookers', bookers'[m] = bookers'[n]
              PROVE  m = n
            <4>1. CASE m \in DOMAIN bookers /\ n \in DOMAIN bookers
                BY <2>2, <3>1, <4>1 DEF TablesOK, BookersOK, IsInjective
            <4>2. CASE m \in SeedMemberIds /\ n \in SeedMemberIds
                <5>1. 0 - m \in DOMAIN SeedMembers /\ 0 - n \in DOMAIN SeedMembers
                         /\ m \in Int /\ n \in Int
                    BY <4>2, SeedIdsAreNotPositive
                <5>2. SeedMembers[0 - m] = SeedMembers[0 - n]
                    BY <2>2, <3>1, <4>2
                <5>3. 0 - m = 0 - n
                    BY <5>1, <5>2, LoadSeedAssumption DEF IsInjective
                <5> QED
                    BY <5>1, <5>3
            <4>3. CASE m \in DOMAIN bookers /\ n \in SeedMemberIds
                BY <2>2, <2>5, <2>6, <3>1, <4>3
            <4>4. CASE m \in SeedMemberIds /\ n \in DOMAIN bookers
                BY <2>2, <2>5, <2>6, <3>1, <4>4
            <4> QED
                BY <2>2, <4>1, <4>2, <4>3, <4>4
        <3> QED
            BY <3>1 DEF IsInjective
    <2>8. BookersOK'
        BY <2>2, <2>4, <2>5, <2>6, <2>7 DEF TablesOK, BookersOK, SeedMemberIds
    <2>9. TablesOK'
        BY <1>1, <2>2, <2>8, BookersWritten DEF TablesOK, BookingsOK, BookingReferences
    <2>10. \A m \in Changed(bookers, bookers') : \E s \in SeedOwn : m \in MembersOf(s)'
        BY <2>2, <2>5 DEF Changed, SeedOwn, MembersOf
    <2>11. OnlyRowsOf(SeedOwn)
        BY <1>1, <2>10, BookersOfOwn
    <2>12. KeepsMembers
        BY <2>2 DEF KeepsMembers
    <2> QED
        BY <1>1, <2>9, <2>11, <2>12, UnwrittenKeeps DEF SeedEffect, Keeps
<1>3. CASE ~accepted
    BY <1>0, <1>1, <1>3, UnwrittenTables DEF InsertBookers, tables, SeedEffect
<1> QED
    BY <1>2, <1>3

\* The rows that InsertBookings adds: as many for each room type as were drawn.
LEMMA BookingRows ==
    ASSUME TablesOK, InsertBookings
    PROVE  \E rows, ids : \E m \in SeedMemberIds :
              /\ Extended(bookings, bookings', usedBookings, rows, ids)
              /\ Len(rows) \in Nat
              /\ \A j \in 1 .. Len(rows) :
                    /\ rows[j] \in BookingRow
                    /\ rows[j].booker = m /\ rows[j].roomType \in SeedRooms
                    /\ rows[j].guests = 0 /\ rows[j].status = Domain!Confirmed
              /\ \A t \in SeedRooms \cap DOMAIN inventories :
                    Cardinality({j \in 1 .. Len(rows) : rows[j].roomType = t})
                       <= inventories[t].quantityAvailable
<1>insert. PICK m \in SeedMemberIds, held \in [SeedRooms -> 0 .. Max(SeedQuantities) + 1] :
          LET target == SeedRooms \cap DOMAIN inventories
              crossJoin == SetToSeq({p \in target \X (1 .. Max(SeedQuantities) + 1) : p[2] <= held[p[1]]})
              rows == [j \in DOMAIN crossJoin |->
                          [booker |-> m, roomType |-> crossJoin[j][1], guests |-> 0,
                           status |-> Domain!Confirmed]] IN
          /\ \A t \in SeedRooms : IF t \in target
                                  THEN held[t] \in HeldCounts(inventories[t].quantityAvailable)
                                  ELSE held[t] = 0
          /\ bookings' = WithNew(bookings, usedBookings, rows)
    BY DEF InsertBookings
<1>0. PICK top, target : top = Max(SeedQuantities) + 1 /\ target = SeedRooms \cap DOMAIN inventories
    OBVIOUS
<1>1. /\ m \in SeedMemberIds /\ held \in [SeedRooms -> 0 .. top]
      /\ LET crossJoin == SetToSeq({p \in target \X (1 .. top) : p[2] <= held[p[1]]})
             rows == [j \in DOMAIN crossJoin |->
                         [booker |-> m, roomType |-> crossJoin[j][1], guests |-> 0,
                          status |-> Domain!Confirmed]] IN
         /\ \A t \in SeedRooms : IF t \in target
                                 THEN held[t] \in HeldCounts(inventories[t].quantityAvailable)
                                 ELSE held[t] = 0
         /\ bookings' = WithNew(bookings, usedBookings, rows)
    BY <1>0, <1>insert
<1>2. PICK pairs, join, n : /\ pairs = {p \in target \X (1 .. top) : p[2] <= held[p[1]]}
                            /\ join = SetToSeq(pairs) /\ n = Cardinality(pairs)
    OBVIOUS
<1>3. PICK rows : rows = [j \in DOMAIN join |->
                             [booker |-> m, roomType |-> join[j][1], guests |-> 0,
                              status |-> Domain!Confirmed]]
    OBVIOUS
<1>4. bookings' = WithNew(bookings, usedBookings, rows)
    BY <1>1, <1>2, <1>3
<1>5. \A t \in target : held[t] \in 0 .. inventories[t].quantityAvailable
    <2>1. \A t \in SeedRooms : t \in target =>
             held[t] \in HeldCounts(inventories[t].quantityAvailable)
        BY <1>1
    <2> QED
        BY <1>0, <2>1 DEF HeldCounts
<1>6. top \in Nat
    <2>1. SeedQuantities \in SUBSET Nat /\ IsFiniteSet(SeedQuantities) /\ SeedQuantities # {}
        BY LoadSeedAssumption
    <2>2. PICK k : k = Max(SeedQuantities)
        OBVIOUS
    <2>3. k \in SeedQuantities
        BY <2>1, <2>2, FiniteMax
    <2>4. k \in Nat /\ top = k + 1
        BY <1>0, <2>1, <2>2, <2>3
    <2> QED
        BY <2>4
<1>7. IsFiniteSet(pairs)
    <2>1. IsFiniteSet(1 .. top)
        BY <1>6, FS_Interval
    <2>2. IsFiniteSet(target)
        BY <1>0, FS_Subset DEF TablesOK, RoomTypesOK, SeedRooms, RoomTypesOf
    <2>3. IsFiniteSet(target \X (1 .. top))
        BY <2>1, <2>2, FS_Product
    <2>4. pairs \in SUBSET (target \X (1 .. top))
        BY <1>2
    <2> QED
        BY <2>3, <2>4, FS_Subset
<1>8. n \in Nat /\ join \in [1 .. n -> pairs] /\ IsInjective(join)
    BY <1>2, <1>7, Enumerated
<1>9. \A j \in 1 .. n : /\ join[j] \in pairs
                        /\ join[j][1] \in target
                        /\ join[j][2] \in 1 .. top /\ join[j][2] <= held[join[j][1]]
                        /\ join[j] = <<join[j][1], join[j][2]>>
    <2>1. ASSUME NEW j \in 1 .. n
          PROVE  /\ join[j] \in pairs
                 /\ join[j][1] \in target
                 /\ join[j][2] \in 1 .. top /\ join[j][2] <= held[join[j][1]]
                 /\ join[j] = <<join[j][1], join[j][2]>>
        <3>1. PICK p : p = join[j]
            OBVIOUS
        <3>2. p \in pairs
            BY <1>8, <2>1, <3>1
        <3>3. p \in target \X (1 .. top) /\ p[2] <= held[p[1]]
            BY <1>2, <3>2
        <3>4. p[1] \in target /\ p[2] \in 1 .. top /\ p = <<p[1], p[2]>>
            BY <3>3
        <3> QED
            BY <3>1, <3>2, <3>3, <3>4
    <2> QED
        BY <2>1
<1>10. Len(rows) = n
    BY <1>3, <1>8
<1>11. target \subseteq SeedRooms /\ SeedRooms \subseteq Nat
    BY <1>0 DEF SeedRooms, RoomTypesOf, TablesOK, RoomTypesOK
<1>12. m \in Int
    BY SeedIdsAreNotPositive
<1>13. \A j \in 1 .. n : /\ rows[j] \in BookingRow
                         /\ rows[j].booker = m /\ rows[j].roomType = join[j][1]
                         /\ rows[j].guests = 0 /\ rows[j].status = Domain!Confirmed
    BY <1>3, <1>8, <1>9, <1>11, <1>12 DEF BookingRow, Domain!Status
<1>14. ASSUME NEW t \in target
       PROVE  Cardinality({j \in 1 .. n : rows[j].roomType = t}) <= inventories[t].quantityAvailable
    <2>0. PICK h, J, f : /\ h = held[t] /\ J = {j \in 1 .. n : rows[j].roomType = t}
                         /\ f = [j \in J |-> join[j][2]]
        OBVIOUS
    <2>1. h \in Nat /\ h <= inventories[t].quantityAvailable
        BY <1>0, <1>5, <1>14, <2>0 DEF TablesOK, InventoriesOK, Inv!InventoryType
    <2>2. \A j \in J : j \in 1 .. n /\ join[j][1] = t
        BY <1>13, <2>0
    <2>3. f \in [J -> 1 .. h]
        BY <1>6, <1>9, <2>0, <2>1, <2>2
    <2>4. \A i, j \in J : f[i] = f[j] => i = j
        <3>1. ASSUME NEW i \in J, NEW j \in J, f[i] = f[j]
              PROVE  i = j
            <4>1. join[i] = <<t, f[i]>> /\ join[j] = <<t, f[j]>>
                BY <1>9, <2>0, <2>2
            <4>2. join[i] = join[j]
                BY <3>1, <4>1
            <4> QED
                BY <1>8, <2>2, <4>2 DEF IsInjective
        <3> QED
            BY <3>1
    <2>5. f \in Injection(J, 1 .. h)
        BY <2>3, <2>4 DEF Injection, IsInjective
    <2>6. IsFiniteSet(1 .. h) /\ Cardinality(1 .. h) = h
        BY <2>1, FS_Interval
    <2>7. Cardinality(J) <= h /\ IsFiniteSet(J)
        BY <2>5, <2>6, FS_Injection
    <2>8. Cardinality(J) \in Nat /\ inventories[t].quantityAvailable \in Nat
        BY <1>0, <1>14, <2>7, FS_CardinalityType DEF TablesOK, InventoriesOK, Inv!InventoryType
    <2> QED
        BY <2>0, <2>1, <2>7, <2>8
<1>15. IsFiniteSet(usedBookings) /\ DOMAIN bookings \subseteq usedBookings /\ Len(rows) \in Nat
    BY <1>8, <1>10, UsedIdsAreFinite DEF usedBookings
<1>16. PICK ids : Extended(bookings, bookings', usedBookings, rows, ids)
    BY <1>4, <1>15, RowsAdded
<1>17. \A j \in 1 .. Len(rows) :
          /\ rows[j] \in BookingRow
          /\ rows[j].booker = m /\ rows[j].roomType \in SeedRooms
          /\ rows[j].guests = 0 /\ rows[j].status = Domain!Confirmed
    BY <1>9, <1>10, <1>11, <1>13
<1>18. \A t \in SeedRooms \cap DOMAIN inventories :
          Cardinality({j \in 1 .. Len(rows) : rows[j].roomType = t})
             <= inventories[t].quantityAvailable
    BY <1>0, <1>10, <1>14
<1> QED
    BY <1>15, <1>16, <1>17, <1>18

\* The statement before the statements that need the members' rows.
LEMMA InsertBookingsEffect ==
    ASSUME TablesOK, RunsOK, InsertBookings
    PROVE  SeedEffect
<1>1. UNCHANGED <<bookers, accommodations, roomTypes, inventories>>
    BY DEF InsertBookings
<1>0. PICK rows, ids : \E m \in SeedMemberIds :
          /\ Extended(bookings, bookings', usedBookings, rows, ids)
          /\ Len(rows) \in Nat
          /\ \A j \in 1 .. Len(rows) :
                /\ rows[j] \in BookingRow
                /\ rows[j].booker = m /\ rows[j].roomType \in SeedRooms
                /\ rows[j].guests = 0 /\ rows[j].status = Domain!Confirmed
          /\ \A t \in SeedRooms \cap DOMAIN inventories :
                Cardinality({j \in 1 .. Len(rows) : rows[j].roomType = t})
                   <= inventories[t].quantityAvailable
    BY BookingRows
<1>2. PICK m \in SeedMemberIds :
          /\ Extended(bookings, bookings', usedBookings, rows, ids)
          /\ Len(rows) \in Nat
          /\ \A j \in 1 .. Len(rows) :
                /\ rows[j] \in BookingRow
                /\ rows[j].booker = m /\ rows[j].roomType \in SeedRooms
    BY <1>0
<1>3. m \in DOMAIN bookers
    BY DEF RunsOK, InsertBookings, Exec
<1>4. /\ IsFiniteSet(DOMAIN bookings')
      /\ \A b \in DOMAIN bookings : b \in DOMAIN bookings' /\ bookings'[b] = bookings[b]
      /\ \A b \in DOMAIN bookings' : b \notin DOMAIN bookings =>
            /\ b \in Nat /\ b \notin usedBookings
            /\ bookings'[b] \in BookingRow
            /\ bookings'[b].booker = m /\ bookings'[b].roomType \in SeedRooms
    BY <1>2 DEF Extended
<1>5. SeedRooms' = SeedRooms /\ SeedRooms \subseteq DOMAIN roomTypes
    BY <1>1 DEF SeedRooms, RoomTypesOf, InnsOf
<1>6. BookingsOK'
    BY <1>1, <1>3, <1>4, <1>5 DEF TablesOK, BookingsOK, BookingReferences
<1>7. TablesOK'
    BY <1>1, <1>4, <1>6, BookingsWritten DEF TablesOK, InventoriesOK
<1>8. \A b \in Changed(bookings, bookings') : b \in SeedBookings'
    BY <1>4, <1>5 DEF Changed, SeedBookings, BookingsIn
<1>9. OnlyRowsOf(SeedOwn)
    BY <1>1, <1>8, BookingsOfOwn DEF SeedBookings, SeedOwn, Stays, Rooms, BookingsIn, SeedRooms
<1>10. KeepsBookings
    BY <1>4 DEF KeepsBookings
<1> QED
    BY <1>1, <1>7, <1>9, <1>10, UnwrittenKeeps DEF SeedEffect, Keeps

\* The holds that InsertHolds adds to a room type.
NewHolds(slot, t) ==
    {[bookingId |-> b, slotNo |-> slot[b], status |-> Inv!HoldConfirmed,
      expiredAt |-> Inv!NoExpiry] : b \in BookingsIn({t})}

LEMMA HoldsNumbered ==
    ASSUME TablesOK, NEW slot \in RowNumbers, NEW t \in SeedRooms
    PROVE  /\ IsFiniteSet(NewHolds(slot, t))
           /\ \A h \in NewHolds(slot, t) : /\ h \in Inv!HoldType
                                           /\ h.bookingId \in BookingsIn({t})
                                           /\ h.slotNo = slot[h.bookingId]
                                           /\ h.status = Inv!HoldConfirmed
           /\ \A b \in BookingsIn({t}) : \E h \in NewHolds(slot, t) : h.bookingId = b
           /\ \A b \in BookingsIn({t}) : slot[b] \in 1 .. Cardinality(BookingsIn({t}))
<1>0. PICK B, f : /\ B = BookingsIn({t})
                  /\ f = [b \in B |-> [bookingId |-> b, slotNo |-> slot[b],
                                       status |-> Inv!HoldConfirmed, expiredAt |-> Inv!NoExpiry]]
    OBVIOUS
<1>1. B \subseteq SeedBookings /\ B \subseteq DOMAIN bookings
    BY <1>0 DEF SeedBookings, BookingsIn
<1>2. IsFiniteSet(B) /\ Cardinality(B) \in Nat /\ B \subseteq Nat
    BY <1>1, FS_Subset, FS_CardinalityType DEF TablesOK, BookingsOK
<1>3. {slot[b] : b \in B} = 1 .. Cardinality(B)
    BY <1>0 DEF RowNumbers
<1>4. \A b \in B : slot[b] \in 1 .. Cardinality(B) /\ slot[b] \in Nat \ {0}
    BY <1>2, <1>3
<1>5. \A b \in B : f[b] \in Inv!HoldType
    BY <1>0, <1>2, <1>4 DEF Inv!HoldType, Inv!HoldStatus
<1>6. NewHolds(slot, t) = {f[b] : b \in B}
    BY <1>0 DEF NewHolds
<1>7. IsFiniteSet({f[b] : b \in B})
    <2>1. DOMAIN f = B
        BY <1>0
    <2> QED
        BY <1>2, <2>1, ImageIsFinite
<1>8. \A b \in B : /\ f[b].bookingId = b /\ f[b].slotNo = slot[b]
                   /\ f[b].status = Inv!HoldConfirmed
    BY <1>0
<1>9. IsFiniteSet(NewHolds(slot, t))
    BY <1>6, <1>7
<1>10. \A h \in NewHolds(slot, t) : /\ h \in Inv!HoldType /\ h.bookingId \in B
                                    /\ h.slotNo = slot[h.bookingId]
                                    /\ h.status = Inv!HoldConfirmed
    BY <1>5, <1>6, <1>8
<1>11. \A b \in B : \E h \in NewHolds(slot, t) : h.bookingId = b
    BY <1>6, <1>8
<1> QED
    BY <1>0, <1>4, <1>9, <1>10, <1>11

LEMMA InsertHoldsEffect ==
    ASSUME TablesOK, InsertHolds
    PROVE  SeedEffect
<1>1. UNCHANGED <<bookers, accommodations, roomTypes, bookings>>
    BY DEF InsertHolds
<1>2. PICK slot \in RowNumbers :
          \/ UNCHANGED inventories
          \/ inventories' = [t \in DOMAIN inventories |->
                                IF t \in SeedRooms
                                THEN [inventories[t] EXCEPT !.holds = @ \cup NewHolds(slot, t)]
                                ELSE inventories[t]]
    BY DEF InsertHolds, NewHolds
<1>3. CASE inventories' = [t \in DOMAIN inventories |->
                              IF t \in SeedRooms
                              THEN [inventories[t] EXCEPT !.holds = @ \cup NewHolds(slot, t)]
                              ELSE inventories[t]]
    <2>1. ASSUME NEW t \in DOMAIN inventories
          PROVE  /\ inventories'[t] \in Inv!InventoryType
                 /\ IsFiniteSet(inventories'[t].holds)
                 /\ \A h \in inventories'[t].holds : /\ h.bookingId \in DOMAIN bookings
                                                     /\ bookings[h.bookingId].roomType = t
        <3>0. PICK v, w, new : v = inventories[t] /\ w = inventories'[t] /\ new = NewHolds(slot, t)
            OBVIOUS
        <3>1. v \in Inv!InventoryType /\ IsFiniteSet(v.holds)
                 /\ \A h \in v.holds : h.bookingId \in DOMAIN bookings /\ bookings[h.bookingId].roomType = t
            BY <2>1, <3>0 DEF TablesOK, InventoriesOK
        <3>2. CASE t \in SeedRooms
            <4>1. w = [v EXCEPT !.holds = v.holds \cup new]
                BY <1>3, <2>1, <3>0, <3>2
            <4>2. /\ IsFiniteSet(new)
                  /\ \A h \in new : h \in Inv!HoldType /\ h.bookingId \in BookingsIn({t})
                BY <3>0, <3>2, HoldsNumbered
            <4>3. IsFiniteSet(v.holds \cup new)
                BY <3>1, <4>2, FS_Union
            <4>4. w \in Inv!InventoryType /\ w.holds = v.holds \cup new
                BY <3>1, <4>1, <4>2 DEF Inv!InventoryType
            <4> QED
                BY <3>0, <3>1, <4>2, <4>3, <4>4 DEF BookingsIn
        <3>3. CASE t \notin SeedRooms
            BY <1>3, <2>1, <3>0, <3>1, <3>3
        <3> QED
            BY <3>2, <3>3
    <2>2. DOMAIN inventories' = DOMAIN inventories
        BY <1>3
    <2>3. InventoriesOK'
        BY <1>1, <2>1, <2>2 DEF TablesOK, InventoriesOK
    <2>4. TablesOK'
        BY <1>1, <2>3, InventoriesWritten
    <2>5. \A t \in Changed(inventories, inventories') : t \in SeedRooms
        BY <1>3 DEF Changed
    <2>6. OnlyRowsOf(SeedOwn)
        BY <1>1, <2>5, SeedRoomsAreOwn, InventoriesOfOwn
    <2> QED
        BY <1>1, <2>4, <2>6, UnwrittenKeeps DEF SeedEffect, Keeps
<1>4. CASE UNCHANGED inventories
    BY <1>1, <1>4, UnwrittenTables DEF tables, SeedEffect
<1> QED
    BY <1>2, <1>3, <1>4

LEMMA InsertGuestsEffect ==
    ASSUME TablesOK, InsertGuests
    PROVE  SeedEffect
<1>1. UNCHANGED <<bookers, accommodations, roomTypes, inventories>>
    BY DEF InsertGuests
<1>2. bookings' = [b \in DOMAIN bookings |->
                      IF b \in SeedBookings THEN [bookings[b] EXCEPT !.guests = @ + 1]
                      ELSE bookings[b]]
    BY DEF InsertGuests
<1>3. ASSUME NEW b \in DOMAIN bookings
      PROVE  /\ bookings'[b] \in BookingRow
             /\ bookings'[b].booker = bookings[b].booker
             /\ bookings'[b].roomType = bookings[b].roomType
    <2>1. bookings[b] \in BookingRow
        BY <1>3 DEF TablesOK, BookingsOK
    <2>2. CASE b \in SeedBookings
        <3>1. bookings'[b] = [bookings[b] EXCEPT !.guests = bookings[b].guests + 1]
            BY <1>2, <1>3, <2>2
        <3> QED
            BY <2>1, <3>1 DEF BookingRow
    <2>3. CASE b \notin SeedBookings
        BY <1>2, <1>3, <2>1, <2>3
    <2> QED
        BY <2>2, <2>3
<1>4. DOMAIN bookings' = DOMAIN bookings
    BY <1>2
<1>5. SeedRooms' = SeedRooms
    BY <1>1 DEF SeedRooms, RoomTypesOf, InnsOf
<1>6. BookingsOK'
    BY <1>1, <1>3, <1>4, <1>5 DEF TablesOK, BookingsOK, BookingReferences
<1>7. TablesOK'
    BY <1>1, <1>3, <1>4, <1>6, BookingsWritten DEF TablesOK, InventoriesOK
<1>8. \A b \in Changed(bookings, bookings') : b \in SeedBookings
    BY <1>2 DEF Changed
<1>9. OnlyRowsOf(SeedOwn)
    BY <1>1, <1>8, SeedRoomsAreOwn, BookingsOfOwn
<1>10. KeepsBookings
    BY <1>3, <1>4 DEF KeepsBookings
<1> QED
    BY <1>1, <1>7, <1>9, <1>10, UnwrittenKeeps DEF SeedEffect, Keeps

-----------------------------------------------------------------------------
(* The order of loadseed's statements *)

LEMMA StatementCount == DOMAIN Statements = 1 .. 13 /\ Len(Statements) = 13
BY DEF Statements

LEMMA StatementNames ==
    /\ Statements[1] = "delete_holds"
    /\ Statements[2] = "delete_bookings"
    /\ Statements[3] = "delete_inventories"
    /\ Statements[4] = "delete_room_types"
    /\ Statements[5] = "delete_accommodations"
    /\ Statements[6] = "delete_bookers"
    /\ Statements[7] = "insert_accommodations"
    /\ Statements[8] = "insert_room_types"
    /\ Statements[9] = "insert_inventories"
    /\ Statements[10] = "insert_bookers"
    /\ Statements[11] = "insert_bookings"
    /\ Statements[12] = "insert_holds"
    /\ Statements[13] = "insert_guests"
BY DEF Statements

LEMMA SeedRunsAt ==
    SeedRuns <=> \E i \in 1 .. 13 : seed = Statements[i]
BY StatementCount DEF SeedRuns, Range

LEMMA StatementNumber ==
    ASSUME NEW i \in 1 .. 13, NEW j \in 1 .. 13, Statements[i] = Statements[j]
    PROVE  i = j
<1>1. /\ i = 1 \/ i = 2 \/ i = 3 \/ i = 4 \/ i = 5 \/ i = 6 \/ i = 7 \/ i = 8 \/ i = 9 \/ i = 10
           \/ i = 11 \/ i = 12 \/ i = 13
      /\ j = 1 \/ j = 2 \/ j = 3 \/ j = 4 \/ j = 5 \/ j = 6 \/ j = 7 \/ j = 8 \/ j = 9 \/ j = 10
           \/ j = 11 \/ j = 12 \/ j = 13
    OBVIOUS
<1> QED
    BY <1>1, StatementNames

\* The statement i is accepted, or refused.
Accepted(i) == seed = Statements[i] /\ seed' = IF i = 13 THEN "done" ELSE Statements[i + 1]
Refused(i) == seed = Statements[i] /\ seed' = "failed"

LEMMA ExecMoves ==
    ASSUME NEW i \in 1 .. 13
    PROVE  /\ Exec(Statements[i], TRUE) => Accepted(i)
           /\ Exec(Statements[i], FALSE) => Refused(i)
<1>1. ASSUME Exec(Statements[i], TRUE)
      PROVE  Accepted(i)
    <2>1. PICK j \in 1 .. 13 :
              /\ Statements[j] = Statements[i]
              /\ seed = Statements[i]
              /\ seed' = IF j = 13 THEN "done" ELSE Statements[j + 1]
        BY <1>1, StatementCount DEF Exec
    <2>2. j = i
        BY <2>1, StatementNumber
    <2> QED
        BY <2>1, <2>2 DEF Accepted
<1>2. ASSUME Exec(Statements[i], FALSE)
      PROVE  Refused(i)
    BY <1>2, StatementCount DEF Exec, Refused
<1> QED
    BY <1>1, <1>2

BookersAreFree ==
    /\ SeedMemberIds \cap DOMAIN bookers = {}
    /\ \A i \in DOMAIN SeedMembers : SubjectIsFree(SeedMembers[i])

Unreferenced == \A b \in DOMAIN bookings :
    bookings[b].booker \notin {m \in DOMAIN bookers : bookers[m] \in Range(SeedMembers)}

\* Which statement a step of loadseed was, and what came of it.
LEMMA StatementMoves ==
    /\ DeleteHolds => Accepted(1)
    /\ DeleteBookings => IF HeldIn(DOMAIN inventories) \cap SeedBookings = {} THEN Accepted(2) ELSE Refused(2)
    /\ DeleteInventories => IF HeldIn(SeedRooms) = {} THEN Accepted(3) ELSE Refused(3)
    /\ DeleteRoomTypes => IF SeedBookings = {} /\ SeedRooms \cap DOMAIN inventories = {} THEN Accepted(4) ELSE Refused(4)
    /\ DeleteAccommodations => IF SeedRooms = {} THEN Accepted(5) ELSE Refused(5)
    /\ DeleteBookers => IF Unreferenced THEN Accepted(6) ELSE Refused(6)
    /\ InsertAccommodations => Accepted(7)
    /\ InsertRoomTypes => Accepted(8)
    /\ InsertInventories => IF SeedRooms \cap DOMAIN inventories = {} THEN Accepted(9) ELSE Refused(9)
    /\ InsertBookers => IF BookersAreFree THEN Accepted(10) ELSE Refused(10)
    /\ InsertBookings => Accepted(11)
    /\ InsertGuests => Accepted(13)
<1>1. ASSUME DeleteHolds
      PROVE  Accepted(1)
    <2>1. Exec(Statements[1], TRUE)
        BY <1>1, StatementNames, StatementCount DEF DeleteHolds, Exec
    <2> QED
        BY <2>1, ExecMoves
<1>2. ASSUME DeleteBookings
      PROVE  IF HeldIn(DOMAIN inventories) \cap SeedBookings = {} THEN Accepted(2) ELSE Refused(2)
    <2>1. CASE HeldIn(DOMAIN inventories) \cap SeedBookings = {}
        <3>1. Exec(Statements[2], TRUE)
            BY <1>2, <2>1, StatementNames, StatementCount DEF DeleteBookings, Exec
        <3> QED
            BY <2>1, <3>1, ExecMoves
    <2>2. CASE ~(HeldIn(DOMAIN inventories) \cap SeedBookings = {})
        <3>1. Exec(Statements[2], FALSE)
            BY <1>2, <2>2, StatementNames, StatementCount DEF DeleteBookings, Exec
        <3> QED
            BY <2>2, <3>1, ExecMoves
    <2> QED
        BY <2>1, <2>2
<1>3. ASSUME DeleteInventories
      PROVE  IF HeldIn(SeedRooms) = {} THEN Accepted(3) ELSE Refused(3)
    <2>1. CASE HeldIn(SeedRooms) = {}
        <3>1. Exec(Statements[3], TRUE)
            BY <1>3, <2>1, StatementNames, StatementCount DEF DeleteInventories, Exec
        <3> QED
            BY <2>1, <3>1, ExecMoves
    <2>2. CASE ~(HeldIn(SeedRooms) = {})
        <3>1. Exec(Statements[3], FALSE)
            BY <1>3, <2>2, StatementNames, StatementCount DEF DeleteInventories, Exec
        <3> QED
            BY <2>2, <3>1, ExecMoves
    <2> QED
        BY <2>1, <2>2
<1>4. ASSUME DeleteRoomTypes
      PROVE  IF SeedBookings = {} /\ SeedRooms \cap DOMAIN inventories = {} THEN Accepted(4) ELSE Refused(4)
    <2>1. CASE SeedBookings = {} /\ SeedRooms \cap DOMAIN inventories = {}
        <3>1. Exec(Statements[4], TRUE)
            BY <1>4, <2>1, StatementNames, StatementCount DEF DeleteRoomTypes, Exec
        <3> QED
            BY <2>1, <3>1, ExecMoves
    <2>2. CASE ~(SeedBookings = {} /\ SeedRooms \cap DOMAIN inventories = {})
        <3>1. Exec(Statements[4], FALSE)
            BY <1>4, <2>2, StatementNames, StatementCount DEF DeleteRoomTypes, Exec
        <3> QED
            BY <2>2, <3>1, ExecMoves
    <2> QED
        BY <2>1, <2>2
<1>5. ASSUME DeleteAccommodations
      PROVE  IF SeedRooms = {} THEN Accepted(5) ELSE Refused(5)
    <2>1. CASE SeedRooms = {}
        <3>1. Exec(Statements[5], TRUE)
            BY <1>5, <2>1, StatementNames, StatementCount DEF DeleteAccommodations, Exec
        <3> QED
            BY <2>1, <3>1, ExecMoves
    <2>2. CASE ~(SeedRooms = {})
        <3>1. Exec(Statements[5], FALSE)
            BY <1>5, <2>2, StatementNames, StatementCount DEF DeleteAccommodations, Exec
        <3> QED
            BY <2>2, <3>1, ExecMoves
    <2> QED
        BY <2>1, <2>2
<1>6. ASSUME DeleteBookers
      PROVE  IF Unreferenced THEN Accepted(6) ELSE Refused(6)
    <2>1. CASE Unreferenced
        <3>1. Exec(Statements[6], TRUE)
            BY <1>6, <2>1, StatementNames, StatementCount DEF DeleteBookers, Exec, Unreferenced
        <3> QED
            BY <2>1, <3>1, ExecMoves
    <2>2. CASE ~(Unreferenced)
        <3>1. Exec(Statements[6], FALSE)
            BY <1>6, <2>2, StatementNames, StatementCount DEF DeleteBookers, Exec, Unreferenced
        <3> QED
            BY <2>2, <3>1, ExecMoves
    <2> QED
        BY <2>1, <2>2
<1>7. ASSUME InsertAccommodations
      PROVE  Accepted(7)
    <2>1. Exec(Statements[7], TRUE)
        BY <1>7, StatementNames, StatementCount DEF InsertAccommodations, Exec
    <2> QED
        BY <2>1, ExecMoves
<1>8. ASSUME InsertRoomTypes
      PROVE  Accepted(8)
    <2>1. Exec(Statements[8], TRUE)
        BY <1>8, StatementNames, StatementCount DEF InsertRoomTypes, Exec
    <2> QED
        BY <2>1, ExecMoves
<1>9. ASSUME InsertInventories
      PROVE  IF SeedRooms \cap DOMAIN inventories = {} THEN Accepted(9) ELSE Refused(9)
    <2>1. CASE SeedRooms \cap DOMAIN inventories = {}
        <3>1. Exec(Statements[9], TRUE)
            BY <1>9, <2>1, StatementNames, StatementCount DEF InsertInventories, Exec
        <3> QED
            BY <2>1, <3>1, ExecMoves
    <2>2. CASE ~(SeedRooms \cap DOMAIN inventories = {})
        <3>1. Exec(Statements[9], FALSE)
            BY <1>9, <2>2, StatementNames, StatementCount DEF InsertInventories, Exec
        <3> QED
            BY <2>2, <3>1, ExecMoves
    <2> QED
        BY <2>1, <2>2
<1>10. ASSUME InsertBookers
      PROVE  IF BookersAreFree THEN Accepted(10) ELSE Refused(10)
    <2>1. CASE BookersAreFree
        <3>1. Exec(Statements[10], TRUE)
            BY <1>10, <2>1, StatementNames, StatementCount DEF InsertBookers, Exec, BookersAreFree
        <3> QED
            BY <2>1, <3>1, ExecMoves
    <2>2. CASE ~(BookersAreFree)
        <3>1. Exec(Statements[10], FALSE)
            BY <1>10, <2>2, StatementNames, StatementCount DEF InsertBookers, Exec, BookersAreFree
        <3> QED
            BY <2>2, <3>1, ExecMoves
    <2> QED
        BY <2>1, <2>2
<1>11. ASSUME InsertBookings
      PROVE  Accepted(11)
    <2>1. Exec(Statements[11], TRUE)
        BY <1>11, StatementNames, StatementCount DEF InsertBookings, Exec
    <2> QED
        BY <2>1, ExecMoves
<1>12. ASSUME InsertGuests
      PROVE  Accepted(13)
    <2>1. Exec(Statements[13], TRUE)
        BY <1>12, StatementNames, StatementCount DEF InsertGuests, Exec
    <2> QED
        BY <2>1, ExecMoves
<1> QED
    BY <1>1, <1>2, <1>3, <1>4, <1>5, <1>6, <1>7, <1>8, <1>9, <1>10, <1>11, <1>12

\* The insert of the holds is refused for reasons of its own.
LEMMA InsertHoldsMoves ==
    ASSUME InsertHolds
    PROVE  Accepted(12) \/ (Refused(12) /\ UNCHANGED tables)
<1>1. \/ Exec(Statements[12], TRUE)
      \/ Exec(Statements[12], FALSE) /\ UNCHANGED tables
    BY StatementNames DEF InsertHolds, Exec, tables
<1>2. CASE Exec(Statements[12], TRUE)
    BY <1>2, ExecMoves
<1>3. CASE Exec(Statements[12], FALSE) /\ UNCHANGED tables
    BY <1>3, ExecMoves
<1> QED
    BY <1>1, <1>2, <1>3

AfterBookers == {"insert_bookings", "insert_holds", "insert_guests", "done"}

\* One step of loadseed.
LEMMA SeedStepEffect ==
    ASSUME OwnInv, SeedStep, UNCHANGED <<requests, prep>>
    PROVE  /\ SeedRuns /\ SeedEffect /\ RequestsOK'
           /\ seed' \in AfterBookers => SeedMemberIds \subseteq DOMAIN bookers'
<1> DEFINE Goal == /\ SeedRuns /\ SeedEffect
                   /\ seed' \in AfterBookers => SeedMemberIds \subseteq DOMAIN bookers'
<1>0. TablesOK /\ RunsOK /\ RequestsOK
    BY DEF OwnInv
<1>1. ASSUME SeedKilled
      PROVE  Goal
    BY <1>0, <1>1, UnwrittenTables DEF SeedKilled, SeedEffect, AfterBookers
<1>2. ASSUME DeleteStatement
      PROVE  Goal
    <2>1. SeedEffect
        BY <1>0, <1>2, DeleteHoldsEffect, DeleteBookingsEffect, DeleteInventoriesEffect,
           DeleteRoomTypesEffect, DeleteAccommodationsEffect, DeleteBookersEffect
        DEF DeleteStatement
    <2>2. \E i \in 1 .. 6 : Accepted(i) \/ Refused(i)
        BY <1>2, StatementMoves DEF DeleteStatement
    <2> QED
        BY <2>1, <2>2, StatementNames, SeedRunsAt DEF Accepted, Refused, AfterBookers
<1>3. ASSUME InsertAccommodations \/ InsertRoomTypes \/ InsertInventories
      PROVE  Goal
    <2>1. SeedEffect
        BY <1>0, <1>3, InsertAccommodationsEffect, InsertRoomTypesEffect, InsertInventoriesEffect
    <2>2. \E i \in 7 .. 9 : Accepted(i) \/ Refused(i)
        BY <1>3, StatementMoves
    <2> QED
        BY <2>1, <2>2, StatementNames, SeedRunsAt DEF Accepted, Refused, AfterBookers
<1>4. ASSUME InsertBookers
      PROVE  Goal
    <2>1. SeedEffect
        BY <1>0, <1>4, InsertBookersEffect
    <2>2. CASE BookersAreFree
        <3>1. Accepted(10)
            BY <1>4, <2>2, StatementMoves
        <3>2. SeedMemberIds \subseteq DOMAIN bookers'
            BY <1>4, <2>2 DEF InsertBookers, BookersAreFree
        <3> QED
            BY <2>1, <3>1, <3>2, SeedRunsAt DEF Accepted
    <2>3. CASE ~BookersAreFree
        <3>1. Refused(10)
            BY <1>4, <2>3, StatementMoves
        <3> QED
            BY <2>1, <3>1, SeedRunsAt DEF Refused, AfterBookers
    <2> QED
        BY <2>2, <2>3
<1>5. ASSUME InsertBookings \/ InsertHolds \/ InsertGuests
      PROVE  Goal
    <2>1. SeedEffect
        BY <1>0, <1>5, InsertBookingsEffect, InsertHoldsEffect, InsertGuestsEffect
    <2>2. \E i \in 11 .. 13 : Accepted(i) \/ Refused(i)
        BY <1>5, StatementMoves, InsertHoldsMoves
    <2>3. seed \in AfterBookers
        BY <2>2, StatementNames DEF Accepted, Refused, AfterBookers
    <2>4. SeedMemberIds \subseteq DOMAIN bookers
        BY <1>0, <2>3 DEF RunsOK, AfterBookers
    <2>5. UNCHANGED bookers
        BY <1>5 DEF InsertBookings, InsertHolds, InsertGuests
    <2> QED
        BY <2>1, <2>2, <2>4, <2>5, SeedRunsAt DEF Accepted, Refused
<1>6. Goal
    BY <1>1, <1>2, <1>3, <1>4, <1>5 DEF SeedStep, InsertStatement
<1>7. RequestsOK'
    BY <1>0, <1>6, RequestsAreKept DEF SeedEffect
<1> QED
    BY <1>6, <1>7

-----------------------------------------------------------------------------
(* The steps of loadprep *)

PrepEffect == TablesOK' /\ Keeps /\ Grows /\ OnlyRowsOf({rush})

InnRun == [pc : {"list_inns", "create_inn"}, vacancy : Vacancies]
ListRun == [pc : {"list_room_types"}, vacancy : Vacancies, inn : Nat]
CreateRun == [pc : {"create_room_types"}, vacancy : Vacancies, inn : Nat, rooms : Seq(Nat)]
RoomRun == [pc : {"register", "list_summaries"}, vacancy : Vacancies, inn : Nat,
            rooms : Seq(Nat), i : Nat]
ChangeRun == [pc : {"change_quantity"}, vacancy : Vacancies, inn : Nat,
              rooms : Seq(Nat), i : Nat, held : Nat]

\* What a run knows, by the statement it is at.
LEMMA PrepAt ==
    ASSUME PrepOK, PrepRuns
    PROVE  /\ prep.pc \in {"list_inns", "create_inn"} => prep \in InnRun
           /\ prep.pc = "list_room_types" => prep \in ListRun /\ prep.inn \in InnsOf(rush)
           /\ prep.pc = "create_room_types" => prep \in CreateRun /\ prep.inn \in InnsOf(rush)
           /\ prep.pc \in {"register", "list_summaries"} => prep \in RoomRun
           /\ prep.pc = "change_quantity" => prep \in ChangeRun
           /\ prep.pc \in {"register", "list_summaries", "change_quantity"} =>
                 /\ prep.inn \in InnsOf(rush) /\ prep.inn \in Nat
                 /\ prep.rooms \in Seq(Nat)
                 /\ prep.i \in 1 .. PrepRoomTypes /\ prep.i \in 1 .. Len(prep.rooms)
                 /\ prep.rooms[prep.i] \in RoomTypesOf(rush)
                 /\ prep.vacancy \in Vacancies
<1>1. prep \in InnRun \cup ListRun \cup CreateRun \cup RoomRun \cup ChangeRun
    BY DEF PrepOK, PrepForms, InnRun, ListRun, CreateRun, RoomRun, ChangeRun
<1>2. /\ prep.pc \in {"list_inns", "create_inn"} => prep \in InnRun
      /\ prep.pc = "list_room_types" => prep \in ListRun
      /\ prep.pc = "create_room_types" => prep \in CreateRun
      /\ prep.pc \in {"register", "list_summaries"} => prep \in RoomRun
      /\ prep.pc = "change_quantity" => prep \in ChangeRun
    BY <1>1 DEF InnRun, ListRun, CreateRun, RoomRun, ChangeRun
<1>3. prep.pc \in {"list_room_types", "create_room_types"} => prep.inn \in InnsOf(rush)
    BY DEF PrepOK
<1>4. ASSUME prep.pc \in {"register", "list_summaries", "change_quantity"}
      PROVE  /\ prep.inn \in InnsOf(rush) /\ prep.inn \in Nat
             /\ prep.rooms \in Seq(Nat)
             /\ prep.i \in 1 .. PrepRoomTypes /\ prep.i \in 1 .. Len(prep.rooms)
             /\ prep.rooms[prep.i] \in RoomTypesOf(rush)
             /\ prep.vacancy \in Vacancies
    <2>1. prep.inn \in Nat /\ prep.rooms \in Seq(Nat) /\ prep.vacancy \in Vacancies /\ prep.i \in Nat
        BY <1>2, <1>4 DEF RoomRun, ChangeRun
    <2>2. /\ prep.inn \in InnsOf(rush)
          /\ prep.i \in 1 .. PrepRoomTypes /\ PrepRoomTypes <= Len(prep.rooms)
          /\ \A j \in 1 .. Len(prep.rooms) : prep.rooms[j] \in RoomTypesOf(rush)
        BY <1>4 DEF PrepOK
    <2>3. prep.i \in 1 .. Len(prep.rooms)
        BY <2>1, <2>2, LoadPrepAssumption
    <2> QED
        BY <2>1, <2>2, <2>3
<1> QED
    BY <1>2, <1>3, <1>4

\* The next room type to prepare, or the end of the run.
LEMMA PreparedFrom ==
    ASSUME NEW i \in Nat \ {0}, NEW rooms \in Seq(Nat), prep' = PrepareFrom(i, rooms),
           prep.vacancy \in Vacancies, prep.inn \in Nat, prep.inn \in InnsOf(rush)',
           PrepRoomTypes <= Len(rooms),
           \A j \in 1 .. Len(rooms) : rooms[j] \in RoomTypesOf(rush)'
    PROVE  PrepOK'
<1>1. CASE i > PrepRoomTypes
    <2>1. prep'.pc = "done"
        BY <1>1 DEF PrepareFrom
    <2> QED
        BY <2>1 DEF PrepOK, PrepRuns
<1>2. CASE ~(i > PrepRoomTypes)
    <2>1. prep' = [pc |-> "register", vacancy |-> prep.vacancy, inn |-> prep.inn,
                   rooms |-> rooms, i |-> i]
        BY <1>2 DEF PrepareFrom
    <2>2. i \in 1 .. PrepRoomTypes
        BY <1>2, LoadPrepAssumption
    <2>3. (prep \in PrepForms)'
        BY <2>1 DEF PrepForms
    <2> QED
        BY <2>1, <2>2, <2>3 DEF PrepOK
<1> QED
    BY <1>1, <1>2

LEMMA ListInnsEffect ==
    ASSUME TablesOK, PrepOK, ListInns
    PROVE  PrepEffect /\ PrepOK'
<1>1. PrepEffect
    BY UnwrittenTables DEF ListInns, PrepEffect
<1>2. prep.pc = "list_inns" /\ PrepRuns
    BY DEF ListInns, PrepRuns
<1>3. prep \in InnRun
    BY <1>2, PrepAt
<1>4. InnsOf(rush)' = InnsOf(rush)
    BY DEF InnsOf, ListInns, tables
<1>5. CASE InnsOf(rush) # {}
    <2>1. PICK a \in InnsOf(rush) :
              prep' = [pc |-> "list_room_types", vacancy |-> prep.vacancy, inn |-> a]
        BY <1>5 DEF ListInns
    <2>2. a \in Nat
        BY DEF InnsOf, TablesOK, InnsOK
    <2>3. (prep \in PrepForms)'
        BY <1>3, <2>1, <2>2 DEF PrepForms, InnRun
    <2> QED
        BY <1>1, <1>4, <2>1, <2>3 DEF PrepOK
<1>6. CASE InnsOf(rush) = {}
    <2>1. prep' = [prep EXCEPT !.pc = "create_inn"]
        BY <1>6 DEF ListInns
    <2>2. (prep \in PrepForms)' /\ prep'.pc = "create_inn"
        BY <1>3, <2>1 DEF PrepForms, InnRun
    <2> QED
        BY <1>1, <2>2 DEF PrepOK
<1> QED
    BY <1>5, <1>6

LEMMA CreateInnEffect ==
    ASSUME TablesOK, PrepOK, CreateInn
    PROVE  PrepEffect /\ PrepOK'
<1>0. PICK id : id = NewId(usedInns)
    OBVIOUS
<1>1. prep.pc = "create_inn" /\ PrepRuns
    BY DEF CreateInn, PrepRuns
<1>2. prep \in InnRun
    BY <1>1, PrepAt
<1>3. /\ accommodations' = Put(accommodations, NewId(usedInns), rush)
      /\ UNCHANGED <<bookers, roomTypes, inventories, bookings>>
    BY DEF CreateInn
<1>4. /\ TablesOK' /\ Keeps /\ Grows
      /\ InnsOf(rush)' = InnsOf(rush) \cup {id} /\ id \in Nat
      /\ Changed(accommodations, accommodations') \subseteq InnsOf(rush)'
    BY <1>0, <1>3, InnAdded
<1>5. OnlyRowsOf({rush})
    BY <1>3, <1>4, InnsOfOwn
<1>6. prep' = [pc |-> "list_room_types", vacancy |-> prep.vacancy, inn |-> id]
    BY <1>0 DEF CreateInn
<1>7. (prep \in PrepForms)'
    BY <1>2, <1>4, <1>6 DEF PrepForms, InnRun
<1> QED
    BY <1>4, <1>5, <1>6, <1>7 DEF PrepEffect, PrepOK

\* The room types of one inn.
RoomsOfInn(a) == {t \in DOMAIN roomTypes : roomTypes[t].accommodation = a}

LEMMA RoomsOfInnAreListed ==
    ASSUME TablesOK, NEW a \in InnsOf(rush), NEW rooms, rooms = SetToSeq(RoomsOfInn(a))
    PROVE  /\ IsFiniteSet(RoomsOfInn(a))
           /\ rooms \in Seq(Nat) /\ Len(rooms) = Cardinality(RoomsOfInn(a)) /\ Len(rooms) \in Nat
           /\ rooms \in [1 .. Len(rooms) -> RoomsOfInn(a)]
           /\ IsInjective(rooms)
           /\ \A t \in RoomsOfInn(a) : \E j \in 1 .. Len(rooms) : rooms[j] = t
           /\ \A j \in 1 .. Len(rooms) : rooms[j] \in RoomTypesOf(rush)
<1>0. PICK n : n = Cardinality(RoomsOfInn(a))
    OBVIOUS
<1>1. RoomsOfInn(a) \subseteq Nat /\ RoomsOfInn(a) \subseteq RoomTypesOf(rush)
    BY DEF RoomsOfInn, RoomTypesOf, TablesOK, RoomTypesOK
<1>2. IsFiniteSet(RoomsOfInn(a))
    BY FS_Subset DEF RoomsOfInn, TablesOK, RoomTypesOK
<1>3. /\ n \in Nat /\ rooms \in [1 .. n -> RoomsOfInn(a)] /\ IsInjective(rooms)
      /\ \A t \in RoomsOfInn(a) : \E j \in 1 .. n : rooms[j] = t
    BY <1>0, <1>2, Enumerated
<1>4. rooms \in Seq(Nat) /\ Len(rooms) = n
    BY <1>1, <1>3
<1> QED
    BY <1>0, <1>1, <1>2, <1>3, <1>4

LEMMA ListRoomsEffect ==
    ASSUME TablesOK, PrepOK, ListRooms
    PROVE  PrepEffect /\ PrepOK'
<1>1. PrepEffect
    BY UnwrittenTables DEF ListRooms, PrepEffect
<1>2. prep.pc = "list_room_types" /\ PrepRuns
    BY DEF ListRooms, PrepRuns
<1>3. prep \in ListRun /\ prep.inn \in InnsOf(rush)
    BY <1>2, PrepAt
<1>4. InnsOf(rush)' = InnsOf(rush) /\ RoomTypesOf(rush)' = RoomTypesOf(rush)
    BY DEF InnsOf, RoomTypesOf, ListRooms, tables
<1>5. PICK rooms : rooms = SetToSeq(RoomsOfInn(prep.inn))
    OBVIOUS
<1>6. /\ rooms \in Seq(Nat) /\ Len(rooms) \in Nat
      /\ \A j \in 1 .. Len(rooms) : rooms[j] \in RoomTypesOf(rush)
    BY <1>3, <1>5, RoomsOfInnAreListed
<1>7. prep' = IF Len(rooms) < PrepRoomTypes
              THEN [pc |-> "create_room_types", vacancy |-> prep.vacancy, inn |-> prep.inn,
                    rooms |-> rooms]
              ELSE PrepareFrom(1, rooms)
    BY <1>5 DEF ListRooms, RoomsOfInn
<1>8. CASE Len(rooms) < PrepRoomTypes
    <2>1. prep' = [pc |-> "create_room_types", vacancy |-> prep.vacancy, inn |-> prep.inn,
                   rooms |-> rooms]
        BY <1>7, <1>8
    <2>2. (prep \in PrepForms)'
        BY <1>3, <1>6, <2>1 DEF PrepForms, ListRun
    <2> QED
        BY <1>1, <1>3, <1>4, <1>6, <1>8, <2>1, <2>2 DEF PrepOK
<1>9. CASE ~(Len(rooms) < PrepRoomTypes)
    <2>1. prep' = PrepareFrom(1, rooms)
        BY <1>7, <1>9
    <2>2. PrepRoomTypes <= Len(rooms)
        BY <1>6, <1>9, LoadPrepAssumption
    <2>3. prep.vacancy \in Vacancies /\ prep.inn \in Nat
        BY <1>3 DEF ListRun
    <2> QED
        BY <1>1, <1>3, <1>4, <1>6, <2>1, <2>2, <2>3, PreparedFrom
<1> QED
    BY <1>8, <1>9

LEMMA CreateRoomEffect ==
    ASSUME TablesOK, PrepOK, CreateRoom
    PROVE  PrepEffect /\ PrepOK'
<1>0. PICK id, rooms : id = NewId(usedRoomTypes) /\ rooms = Append(prep.rooms, id)
    OBVIOUS
<1>1. prep.pc = "create_room_types" /\ PrepRuns
    BY DEF CreateRoom, PrepRuns
<1>2. prep \in CreateRun /\ prep.inn \in InnsOf(rush)
    BY <1>1, PrepAt
<1>3. /\ roomTypes' = Put(roomTypes, NewId(usedRoomTypes), [accommodation |-> prep.inn, capacity |-> 2])
      /\ UNCHANGED <<bookers, accommodations, inventories, bookings>>
    BY DEF CreateRoom
<1>4. /\ TablesOK' /\ Keeps /\ Grows
      /\ RoomTypesOf(rush)' = RoomTypesOf(rush) \cup {id} /\ id \in Nat
      /\ Changed(roomTypes, roomTypes') \subseteq RoomTypesOf(rush)'
    BY <1>0, <1>2, <1>3, RoomTypeAdded
<1>5. PrepEffect
    BY <1>3, <1>4, RoomTypesOfOwn DEF PrepEffect
<1>6. /\ prep.rooms \in Seq(Nat) /\ prep.vacancy \in Vacancies /\ prep.inn \in Nat
      /\ Len(prep.rooms) < PrepRoomTypes
      /\ \A j \in 1 .. Len(prep.rooms) : prep.rooms[j] \in RoomTypesOf(rush)
    BY <1>1, <1>2 DEF CreateRun, PrepOK
<1>7. /\ rooms \in Seq(Nat) /\ Len(rooms) = Len(prep.rooms) + 1 /\ Len(rooms) \in Nat
      /\ \A j \in 1 .. Len(rooms) : rooms[j] \in RoomTypesOf(rush)'
    BY <1>0, <1>4, <1>6
<1>8. InnsOf(rush)' = InnsOf(rush)
    BY <1>3 DEF InnsOf
<1>9. prep' = IF Len(rooms) < PrepRoomTypes THEN [prep EXCEPT !.rooms = rooms]
              ELSE PrepareFrom(1, rooms)
    BY <1>0 DEF CreateRoom
<1>10. CASE Len(rooms) < PrepRoomTypes
    <2>1. prep' = [prep EXCEPT !.rooms = rooms]
        BY <1>9, <1>10
    <2>2. /\ prep' \in CreateRun /\ prep'.pc = "create_room_types"
          /\ prep'.rooms = rooms /\ prep'.inn = prep.inn
        BY <1>2, <1>7, <2>1 DEF CreateRun
    <2>3. (prep \in PrepForms)'
        BY <2>2 DEF PrepForms, CreateRun
    <2> QED
        BY <1>2, <1>5, <1>7, <1>8, <1>10, <2>2, <2>3 DEF PrepOK
<1>11. CASE ~(Len(rooms) < PrepRoomTypes)
    <2>1. prep' = PrepareFrom(1, rooms)
        BY <1>9, <1>11
    <2>2. PrepRoomTypes <= Len(rooms)
        BY <1>7, <1>11, LoadPrepAssumption
    <2> QED
        BY <1>2, <1>5, <1>6, <1>7, <1>8, <2>1, <2>2, PreparedFrom
<1> QED
    BY <1>10, <1>11

LEMMA RegisterVacancyEffect ==
    ASSUME TablesOK, PrepOK, RegisterVacancy
    PROVE  PrepEffect /\ PrepOK'
<1>0. PICK t, i, rooms : t = prep.rooms[prep.i] /\ i = prep.i + 1 /\ rooms = prep.rooms
    OBVIOUS
<1>1. prep.pc = "register" /\ PrepRuns
    BY DEF RegisterVacancy, PrepRuns
<1>2. /\ prep \in RoomRun /\ prep.inn \in InnsOf(rush) /\ prep.inn \in Nat /\ rooms \in Seq(Nat)
      /\ prep.i \in 1 .. PrepRoomTypes /\ t \in RoomTypesOf(rush) /\ prep.vacancy \in Vacancies
      /\ PrepRoomTypes <= Len(rooms)
      /\ \A j \in 1 .. Len(rooms) : rooms[j] \in RoomTypesOf(rush)
    BY <1>0, <1>1, PrepAt DEF PrepOK
<1>3. UNCHANGED <<bookers, accommodations, roomTypes, bookings>>
    BY DEF RegisterVacancy
<1>4. InnsOf(rush)' = InnsOf(rush) /\ RoomTypesOf(rush)' = RoomTypesOf(rush)
    BY <1>3 DEF InnsOf, RoomTypesOf
<1>5. CASE Registered(t)
    <2>1. prep' = [prep EXCEPT !.pc = "list_summaries"] /\ UNCHANGED inventories
        BY <1>0, <1>5 DEF RegisterVacancy
    <2>2. PrepEffect
        BY <1>3, <2>1, UnwrittenTables DEF tables, PrepEffect
    <2>3. /\ prep' \in RoomRun /\ prep'.pc = "list_summaries" /\ prep'.rooms = prep.rooms
          /\ prep'.i = prep.i /\ prep'.inn = prep.inn
        BY <1>2, <2>1 DEF RoomRun
    <2>4. (prep \in PrepForms)'
        BY <2>3 DEF PrepForms, RoomRun
    <2>5. Registered(t)'
        BY <1>5, <2>1 DEF Registered
    <2> QED
        BY <1>0, <1>2, <1>4, <2>2, <2>3, <2>4, <2>5 DEF PrepOK
<1>6. CASE ~Registered(t)
    <2>0. PICK v : v = Inv!NewInventory(prep.vacancy, 1)
        OBVIOUS
    <2>1. inventories' = Put(inventories, t, v) /\ prep' = PrepareFrom(i, rooms)
        BY <1>0, <1>6, <2>0 DEF RegisterVacancy
    <2>2. v \in Inv!InventoryType /\ v.holds = {}
        BY <1>2, <2>0, NewInventoryIsEmpty, LoadPrepAssumption
    <2>3. t \in DOMAIN roomTypes /\ IsFiniteSet(v.holds)
        BY <1>2, <2>2, FS_EmptySet DEF RoomTypesOf
    <2>4. /\ TablesOK' /\ Keeps /\ Grows
          /\ Changed(inventories, inventories') \subseteq {t}
        BY <1>3, <2>1, <2>2, <2>3, InventoryPut
    <2>5. OnlyRowsOf({rush})
        BY <1>2, <1>3, <2>4, InventoriesOfOwn
    <2>6. i \in Nat \ {0}
        BY <1>0, <1>2, LoadPrepAssumption
    <2>7. PrepOK'
        BY <1>2, <1>4, <2>1, <2>6, PreparedFrom
    <2> QED
        BY <2>4, <2>5, <2>7 DEF PrepEffect
<1> QED
    BY <1>5, <1>6

LEMMA ListSummariesEffect ==
    ASSUME TablesOK, PrepOK, ListSummaries
    PROVE  PrepEffect /\ PrepOK'
<1>0. PICK t, n : t = prep.rooms[prep.i] /\ n = HeldCount(inventories[t])
    OBVIOUS
<1>1. prep.pc = "list_summaries" /\ PrepRuns
    BY DEF ListSummaries, PrepRuns
<1>2. PrepEffect
    BY UnwrittenTables DEF ListSummaries, PrepEffect
<1>3. prep \in RoomRun /\ Registered(t)
    BY <1>0, <1>1, PrepAt DEF PrepOK
<1>4. n \in Nat
    <2>1. IsFiniteSet(inventories[t].holds)
        BY <1>3 DEF Registered, TablesOK, InventoriesOK
    <2> QED
        BY <1>0, <2>1, FS_CardinalityType DEF HeldCount
<1>5. prep' = [pc |-> "change_quantity", vacancy |-> prep.vacancy, inn |-> prep.inn,
               rooms |-> prep.rooms, i |-> prep.i, held |-> n]
    BY <1>0 DEF ListSummaries
<1>6. (prep \in PrepForms)'
    BY <1>3, <1>4, <1>5 DEF PrepForms, RoomRun
<1>7. /\ InnsOf(rush)' = InnsOf(rush) /\ RoomTypesOf(rush)' = RoomTypesOf(rush)
      /\ Registered(t)'
    BY <1>3 DEF InnsOf, RoomTypesOf, ListSummaries, tables, Registered
<1>8. /\ prep.inn \in InnsOf(rush)
      /\ prep.i \in 1 .. PrepRoomTypes /\ PrepRoomTypes <= Len(prep.rooms)
      /\ \A j \in 1 .. Len(prep.rooms) : prep.rooms[j] \in RoomTypesOf(rush)
    BY <1>1 DEF PrepOK
<1> QED
    BY <1>0, <1>2, <1>5, <1>6, <1>7, <1>8 DEF PrepOK

LEMMA ChangeVacancyEffect ==
    ASSUME TablesOK, PrepOK, ChangeVacancy
    PROVE  PrepEffect /\ PrepOK'
<1>0. PICK t, i, n, v, rooms : /\ t = prep.rooms[prep.i] /\ i = prep.i + 1
                               /\ n = prep.held + prep.vacancy
                               /\ v = inventories[t] /\ rooms = prep.rooms
    OBVIOUS
<1>1. prep.pc = "change_quantity" /\ PrepRuns
    BY DEF ChangeVacancy, PrepRuns
<1>2. /\ prep \in ChangeRun /\ prep.inn \in InnsOf(rush) /\ prep.inn \in Nat /\ rooms \in Seq(Nat)
      /\ prep.i \in 1 .. PrepRoomTypes /\ t \in RoomTypesOf(rush) /\ prep.vacancy \in Vacancies
      /\ PrepRoomTypes <= Len(rooms)
      /\ \A j \in 1 .. Len(rooms) : rooms[j] \in RoomTypesOf(rush)
      /\ Registered(t)
    BY <1>0, <1>1, PrepAt DEF PrepOK
<1>3. UNCHANGED <<bookers, accommodations, roomTypes, bookings>>
    BY DEF ChangeVacancy
<1>4. InnsOf(rush)' = InnsOf(rush) /\ RoomTypesOf(rush)' = RoomTypesOf(rush)
    BY <1>3 DEF InnsOf, RoomTypesOf
<1>5. CASE Inv!CanChangeQuantity(v, n)
    <2>0. PICK w : w = Inv!AfterChangeQuantity(v, n)
        OBVIOUS
    <2>1. inventories' = Put(inventories, t, w) /\ prep' = PrepareFrom(i, rooms)
        BY <1>0, <1>5, <2>0 DEF ChangeVacancy
    <2>2. v \in Inv!InventoryType /\ IsFiniteSet(v.holds) /\ t \in DOMAIN roomTypes
             /\ \A h \in v.holds : h.bookingId \in DOMAIN bookings /\ bookings[h.bookingId].roomType = t
        BY <1>0, <1>2 DEF Registered, TablesOK, InventoriesOK, RoomTypesOf
    <2>3. n \in Int /\ Inv!validQuantity(n)
        <3>1. prep.held \in Nat /\ prep.vacancy \in Nat
            BY <1>2, LoadPrepAssumption DEF ChangeRun
        <3> QED
            BY <1>0, <1>5, <3>1 DEF Inv!CanChangeQuantity
    <2>4. w \in Inv!InventoryType /\ w.holds = v.holds
        BY <2>0, <2>2, <2>3, ChangedQuantity
    <2>5. /\ TablesOK' /\ Keeps /\ Grows
          /\ Changed(inventories, inventories') \subseteq {t}
        BY <1>3, <2>1, <2>2, <2>4, InventoryPut
    <2>6. OnlyRowsOf({rush})
        BY <1>2, <1>3, <2>5, InventoriesOfOwn
    <2>7. i \in Nat \ {0}
        BY <1>0, <1>2, LoadPrepAssumption
    <2>8. PrepOK'
        BY <1>2, <1>4, <2>1, <2>7, PreparedFrom
    <2> QED
        BY <2>5, <2>6, <2>8 DEF PrepEffect
<1>6. CASE ~Inv!CanChangeQuantity(v, n)
    <2>1. prep' = [prep EXCEPT !.pc = "failed"] /\ UNCHANGED inventories
        BY <1>0, <1>6 DEF ChangeVacancy, PrepFailed
    <2>2. PrepEffect
        BY <1>3, <2>1, UnwrittenTables DEF tables, PrepEffect
    <2>3. prep'.pc = "failed"
        BY <1>2, <2>1 DEF ChangeRun
    <2> QED
        BY <2>2, <2>3 DEF PrepOK, PrepRuns
<1> QED
    BY <1>5, <1>6

LEMMA PrepStepEffect ==
    ASSUME TablesOK, PrepOK, PrepStep
    PROVE  PrepEffect /\ PrepOK' /\ PrepRuns
<1>1. PrepRuns
    BY DEF PrepStep, PrepRuns, ListInns, CreateInn, ListRooms, CreateRoom, RegisterVacancy,
           ListSummaries, ChangeVacancy, PrepKilled
<1>2. CASE PrepKilled
    <2>1. PrepEffect
        BY <1>2, UnwrittenTables DEF PrepKilled, PrepEffect
    <2>2. prep \in PrepForms
        BY <1>1 DEF PrepOK
    <2>3. prep'.pc = "killed"
        BY <1>2, <2>2 DEF PrepKilled, PrepForms
    <2> QED
        BY <1>1, <2>1, <2>3 DEF PrepOK, PrepRuns
<1> QED
    BY <1>1, <1>2, ListInnsEffect, CreateInnEffect, ListRoomsEffect, CreateRoomEffect,
       RegisterVacancyEffect, ListSummariesEffect, ChangeVacancyEffect DEF PrepStep

-----------------------------------------------------------------------------
(* The invariant is inductive *)

LEMMA OwnInit ==
    ASSUME LoadInit
    PROVE  OwnInv
<1>1. PICK s \in Operators : accommodations = <<s, Nobody>>
    BY DEF LoadInit, Init
<1>2. DOMAIN bookers = {} /\ DOMAIN inventories = {} /\ DOMAIN bookings = {}
    BY DEF LoadInit, Init
<1>3. IsFiniteSet({})
    BY FS_EmptySet
<1>4. BookersOK
    BY <1>2, <1>3 DEF BookersOK, IsInjective
<1>5. InnsOK
    <2>1. DOMAIN accommodations = 1 .. 2
        BY <1>1
    <2>2. IsFiniteSet(1 .. 2)
        <3>1. PICK n \in Nat : n = 2
            OBVIOUS
        <3>2. IsFiniteSet(1 .. n)
            BY FS_Interval
        <3> QED
            BY <3>1, <3>2
    <2> QED
        BY <2>1, <2>2 DEF InnsOK
<1>6. RoomTypesOK
    <2>1. /\ DOMAIN roomTypes = 1 .. 1
          /\ roomTypes[1] = [accommodation |-> 1, capacity |-> 1]
          /\ 1 \in DOMAIN accommodations
        <3>1. DOMAIN accommodations = 1 .. 2
            BY <1>1
        <3>2. roomTypes = <<[accommodation |-> 1, capacity |-> 1]>>
            BY DEF LoadInit, Init
        <3> QED
            BY <3>1, <3>2
    <2>2. IsFiniteSet(1 .. 1)
        <3>1. PICK n \in Nat : n = 1
            OBVIOUS
        <3>2. IsFiniteSet(1 .. n)
            BY FS_Interval
        <3> QED
            BY <3>1, <3>2
    <2> QED
        BY <2>1, <2>2 DEF RoomTypesOK
<1>7. BookingsOK /\ InventoriesOK
    BY <1>2, <1>3 DEF BookingsOK, InventoriesOK
<1>8. RequestsOK
    <2>1. IdleRequest \in RequestType /\ IdleRequest.pc = "idle"
        BY DEF RequestType, IdleRequest
    <2>2. requests = [r \in Requests |-> IdleRequest]
        BY DEF LoadInit, Init
    <2> QED
        BY <2>1, <2>2 DEF RequestsOK, Owned, Agree
<1>9. ~PrepRuns /\ seed = "idle"
    BY DEF LoadInit, PrepRuns, NoPrep
<1> QED
    BY <1>4, <1>5, <1>6, <1>7, <1>8, <1>9 DEF OwnInv, TablesOK, PrepOK, RunsOK

LEMMA PrepIsKept ==
    ASSUME PrepOK, Grows, LeavesAlone(rush), UNCHANGED prep
    PROVE  PrepOK'
BY DEF PrepOK, Grows, LeavesAlone, PrepRuns, Registered

LEMMA RequestsStay ==
    ASSUME TablesOK, RequestsOK, UNCHANGED <<tables, requests>>
    PROVE  TablesOK' /\ RequestsOK'
BY UnwrittenTables, RequestsAreKept

LEMMA OwnNext ==
    ASSUME OwnInv, [Next]_vars
    PROVE  OwnInv'
<1>1. TablesOK /\ RequestsOK /\ PrepOK /\ RunsOK
    BY DEF OwnInv
<1>2. CASE APIStep
    <2>1. API /\ UNCHANGED <<seed, prep>>
        BY <1>2 DEF APIStep
    <2>2. TablesOK' /\ RequestsOK' /\ Grows /\ LeavesCommandsAlone
        BY <1>1, <2>1, APIEffect
    <2>3. LeavesAlone(rush)
        BY <2>2, SubjectsAssumption DEF LeavesCommandsAlone
    <2>4. PrepOK'
        BY <1>1, <2>1, <2>2, <2>3, PrepIsKept
    <2>5. RunsOK'
        BY <1>1, <2>1, <2>2 DEF RunsOK, SeedRuns, PrepRuns, Grows
    <2> QED
        BY <2>2, <2>4, <2>5 DEF OwnInv
<1>3. CASE StartSeed /\ BeginRun /\ prep' = NoPrep
    <2>1. UNCHANGED <<tables, requests>>
        BY <1>3 DEF StartSeed, BeginRun
    <2>2. ~PrepRuns'
        BY <1>3 DEF PrepRuns, NoPrep
    <2>3. seed' = "delete_holds"
        BY <1>3, StatementNames DEF StartSeed
    <2> QED
        BY <1>1, <2>1, <2>2, <2>3, RequestsStay DEF OwnInv, PrepOK, RunsOK
<1>4. CASE \E v \in Vacancies : StartPrep(v) /\ BeginRun /\ seed' = "idle"
    <2>1. UNCHANGED <<tables, requests>> /\ seed' = "idle"
        BY <1>4 DEF StartPrep, BeginRun
    <2>2. PICK v \in Vacancies : prep' = [pc |-> "list_inns", vacancy |-> v]
        BY <1>4 DEF StartPrep
    <2>3. (prep \in PrepForms)' /\ prep'.pc = "list_inns"
        BY <2>2 DEF PrepForms
    <2>4. PrepOK'
        BY <2>3 DEF PrepOK
    <2>5. ~SeedRuns'
        BY <2>1 DEF SeedRuns, Range, Statements
    <2> QED
        BY <1>1, <2>1, <2>4, <2>5, RequestsStay DEF OwnInv, RunsOK
<1>5. CASE SeedStep /\ UNCHANGED <<requests, begun, prep, runs, disturbed>>
    <2>1. /\ SeedRuns /\ SeedEffect /\ RequestsOK'
          /\ seed' \in AfterBookers => SeedMemberIds \subseteq DOMAIN bookers'
        BY <1>5, SeedStepEffect
    <2>2. ~PrepRuns'
        BY <1>1, <1>5, <2>1 DEF RunsOK, PrepRuns
    <2>3. RunsOK'
        BY <2>1, <2>2 DEF RunsOK, AfterBookers
    <2> QED
        BY <2>1, <2>2, <2>3 DEF OwnInv, SeedEffect, PrepOK
<1>6. CASE PrepStep /\ UNCHANGED <<requests, begun, seed, runs, disturbed>>
    <2>1. PrepEffect /\ PrepOK' /\ PrepRuns
        BY <1>1, <1>6, PrepStepEffect
    <2>2. RequestsOK'
        BY <1>1, <1>6, <2>1, RequestsAreKept DEF PrepEffect
    <2>3. RunsOK'
        BY <1>1, <1>6, <2>1 DEF RunsOK, SeedRuns, PrepEffect, Grows
    <2> QED
        BY <2>1, <2>2, <2>3 DEF OwnInv, PrepEffect
<1>7. CASE UNCHANGED vars
    <2>1. UNCHANGED <<tables, requests, seed, prep>>
        BY <1>7 DEF vars, registryVars
    <2>2. Grows /\ LeavesAlone(rush)
        BY <1>1, <2>1, UnwrittenTables
    <2>3. PrepOK' /\ RunsOK'
        BY <1>1, <2>1, <2>2, PrepIsKept DEF RunsOK, SeedRuns, PrepRuns, tables
    <2> QED
        BY <1>1, <2>1, <2>3, RequestsStay DEF OwnInv
<1> QED
    BY <1>2, <1>3, <1>4, <1>5, <1>6, <1>7 DEF Next

\* The invariant behind the theorems of this module.
LEMMA OwnInvariant == Spec => []OwnInv
<1>1. LoadInit => OwnInv
    BY OwnInit
<1>2. OwnInv /\ [Next]_vars => OwnInv'
    BY OwnNext
<1> QED
    BY <1>1, <1>2, PTL DEF Spec

\* ResolveBookerId finds at most one member for a login, however registrations
\* and runs of loadseed interleave.
THEOREM MembersAreUnique == Spec => []OneMemberPerSubject
<1>1. OwnInv => OneMemberPerSubject
    <2> SUFFICES ASSUME OwnInv, NEW s \in Guests \cup Range(SeedMembers)
                 PROVE  Cardinality(MembersOf(s)) <= 1
        BY DEF OneMemberPerSubject
    <2>1. \A m, n \in MembersOf(s) : m = n
        BY DEF OwnInv, TablesOK, BookersOK, IsInjective, MembersOf
    <2>2. CASE MembersOf(s) = {}
        BY <2>2, FS_EmptySet
    <2>3. CASE MembersOf(s) # {}
        <3>1. PICK m : m \in MembersOf(s)
            BY <2>3
        <3>2. MembersOf(s) = {m}
            BY <2>1, <3>1
        <3> QED
            BY <3>2, FS_Singleton
    <2> QED
        BY <2>2, <2>3
<1> QED
    BY <1>1, OwnInvariant, PTL

\* A request writes only rows of the login it came with, loadseed only rows under
\* its marker, loadprep only rows of its own inn.
THEOREM StepsActOnOwn == Spec => ActsOnOwn
<1> DEFINE Own ==
        /\ \A r \in Requests, s \in Guests \cup Operators :
              (requests'[r] # requests[r] /\ ~At(r, "idle") /\ requests[r].subject = s)
                 => OnlyRowsOf({s})
        /\ seed' # seed => OnlyRowsOf({marker} \cup Range(SeedMembers))
        /\ prep' # prep => OnlyRowsOf({rush})
<1>1. ASSUME OwnInv, [Next]_vars
      PROVE  [Own]_vars
    <2>1. TablesOK /\ RequestsOK /\ PrepOK
        BY <1>1 DEF OwnInv
    <2>2. CASE APIStep
        <3>1. API /\ UNCHANGED <<seed, prep>>
            BY <2>2 DEF APIStep
        <3>2. ASSUME NEW r \in Requests, NEW s, requests'[r] # requests[r], requests[r].subject = s
              PROVE  OnlyRowsOf({s})
            <4>1. ~ \E o \in Guests : CreateBooker(o)
                BY <3>2 DEF CreateBooker
            <4>2. ~ \E o \in Operators : CreateAccommodation(o)
                BY <3>2 DEF CreateAccommodation
            <4>3. PICK o \in Requests : Request(o)
                BY <3>1, <4>1, <4>2 DEF API
            <4>4. Effect(o)
                BY <2>1, <4>3, RequestEffect
            <4>5. o = r
                BY <3>2, <4>4 DEF Effect
            <4> QED
                BY <3>2, <4>4, <4>5 DEF Effect, OwnOnly
        <3> QED
            BY <3>1, <3>2
    <2>3. CASE \/ StartSeed /\ BeginRun /\ prep' = NoPrep
               \/ \E v \in Vacancies : StartPrep(v) /\ BeginRun /\ seed' = "idle"
        <3>1. UNCHANGED <<tables, requests>>
            BY <2>3 DEF StartSeed, StartPrep, BeginRun
        <3> QED
            BY <3>1, NothingIsChanged
    <2>4. CASE SeedStep /\ UNCHANGED <<requests, begun, prep, runs, disturbed>>
        BY <1>1, <2>4, SeedStepEffect DEF SeedEffect, SeedOwn
    <2>5. CASE PrepStep /\ UNCHANGED <<requests, begun, seed, runs, disturbed>>
        BY <2>1, <2>5, PrepStepEffect DEF PrepEffect
    <2> QED
        BY <1>1, <2>2, <2>3, <2>4, <2>5 DEF Next
<1>2. OwnInv /\ [Next]_vars => [Own]_vars
    BY <1>1
<1> QED
    BY <1>2, OwnInvariant, PTL DEF Spec, ActsOnOwn

\* Nobody but loadseed touches its marker, and it touches no other inn.
LEMMA SeedLeavesAlone ==
    ASSUME TablesOK, SeedStep, NEW s, s # marker
    PROVE  LeavesAlone(s)
<1>1. ASSUME UNCHANGED <<accommodations, roomTypes>>
      PROVE  LeavesAlone(s)
    BY <1>1 DEF LeavesAlone, RoomTypesOf, InnsOf
<1>2. CASE DeleteRoomTypes
    <2>1. UNCHANGED accommodations /\ InnsOf(s)' = InnsOf(s)
        BY <1>2 DEF DeleteRoomTypes, InnsOf
    <2>2. CASE UNCHANGED roomTypes
        BY <1>1, <2>1, <2>2
    <2>3. CASE roomTypes' = Without(roomTypes, SeedRooms)
        <3>1. /\ DOMAIN roomTypes' = DOMAIN roomTypes \ SeedRooms
              /\ \A t \in DOMAIN roomTypes \ SeedRooms : roomTypes'[t] = roomTypes[t]
            BY <2>3 DEF Without, Restrict
        <3>2. \A t \in RoomTypesOf(s) : t \notin SeedRooms
            BY DEF RoomTypesOf, InnsOf, SeedRooms
        <3> QED
            BY <2>1, <3>1, <3>2 DEF LeavesAlone, RoomTypesOf
    <2> QED
        BY <1>2, <2>2, <2>3 DEF DeleteRoomTypes
<1>3. CASE DeleteAccommodations
    <2>1. UNCHANGED roomTypes
        BY <1>3 DEF DeleteAccommodations
    <2>2. CASE UNCHANGED accommodations
        BY <1>1, <2>1, <2>2
    <2>3. CASE accommodations' = Without(accommodations, InnsOf(marker))
        <3>1. /\ DOMAIN accommodations' = DOMAIN accommodations \ InnsOf(marker)
              /\ \A a \in DOMAIN accommodations \ InnsOf(marker) :
                    accommodations'[a] = accommodations[a]
            BY <2>3 DEF Without, Restrict
        <3>2. InnsOf(s)' = InnsOf(s)
            BY <3>1 DEF InnsOf
        <3> QED
            BY <2>1, <3>2 DEF LeavesAlone, RoomTypesOf
    <2> QED
        BY <1>3, <2>2, <2>3 DEF DeleteAccommodations
<1>4. CASE InsertAccommodations
    <2>1. UNCHANGED roomTypes
        BY <1>4 DEF InsertAccommodations
    <2>2. PICK rows, ids :
              /\ Extended(accommodations, accommodations', usedInns, rows, ids)
              /\ Len(rows) = Inns /\ Len(rows) \in Nat
              /\ \A j \in 1 .. Len(rows) : rows[j] = marker
        BY <1>4, InnRows
    <2>3. /\ \A a \in DOMAIN accommodations :
                a \in DOMAIN accommodations' /\ accommodations'[a] = accommodations[a]
          /\ \A a \in DOMAIN accommodations' :
                a \notin DOMAIN accommodations => accommodations'[a] = marker
        BY <2>2 DEF Extended
    <2>4. InnsOf(s)' = InnsOf(s)
        BY <2>3 DEF InnsOf
    <2> QED
        BY <2>1, <2>4 DEF LeavesAlone, RoomTypesOf
<1>5. CASE InsertRoomTypes
    <2>1. UNCHANGED accommodations /\ InnsOf(s)' = InnsOf(s)
        BY <1>5 DEF InsertRoomTypes, InnsOf
    <2>2. PICK rows, ids :
              /\ Extended(roomTypes, roomTypes', usedRoomTypes, rows, ids)
              /\ Len(rows) = Cardinality(InnsAndNumbers) /\ Len(rows) \in Nat
              /\ \A j \in 1 .. Len(rows) :
                    /\ rows[j] \in [accommodation : DOMAIN accommodations, capacity : Nat \ {0}]
                    /\ rows[j].accommodation \in InnsOf(marker)
        BY <1>5, RoomTypeRows
    <2>3. /\ \A t \in DOMAIN roomTypes : t \in DOMAIN roomTypes' /\ roomTypes'[t] = roomTypes[t]
          /\ \A t \in DOMAIN roomTypes' :
                t \notin DOMAIN roomTypes => roomTypes'[t].accommodation \in InnsOf(marker)
        BY <2>2 DEF Extended
    <2>4. \A a \in InnsOf(marker) : a \notin InnsOf(s)
        BY DEF InnsOf
    <2> QED
        BY <2>1, <2>3, <2>4 DEF LeavesAlone, RoomTypesOf
<1>6. CASE UNCHANGED <<accommodations, roomTypes>>
    BY <1>1, <1>6
<1> QED
    BY <1>2, <1>3, <1>4, <1>5, <1>6
    DEF SeedStep, DeleteStatement, InsertStatement, DeleteHolds, DeleteBookings, DeleteInventories,
        DeleteBookers, InsertInventories, InsertBookers, InsertBookings, InsertHolds, InsertGuests,
        SeedKilled, tables

-----------------------------------------------------------------------------
(* The inn of loadprep *)

\* The list of a run counts through its room types.
Lists(rooms) == IsInjective(rooms) /\ Range(rooms) = RoomTypesOf(rush)

OneInn == \A a, b \in InnsOf(rush) : a = b

RushOK ==
    /\ OneInn
    /\ Cardinality(RoomTypesOf(rush)) <= PrepRoomTypes
    /\ prep.pc = "create_inn" => InnsOf(rush) = {}
    /\ prep.pc \in {"create_room_types", "register", "list_summaries", "change_quantity"} =>
          Lists(prep.rooms)

\* The room has the vacancy that the run was asked for.
Vacant(t, vacancy) == Registered(t) /\ Inv!Available(inventories[t]) = vacancy

\* What a run knows as long as no request has disturbed it.
QuietPrep ==
    /\ prep.pc \in {"register", "list_summaries", "change_quantity"} =>
          \A j \in 1 .. prep.i - 1 : Vacant(prep.rooms[j], prep.vacancy)
    /\ prep.pc = "change_quantity" =>
          prep.held = Cardinality(inventories[prep.rooms[prep.i]].holds)

PrepInv == RushOK /\ (~disturbed => QuietPrep)


\* A list that names each room type once is as long as they are many.
LEMMA ListCounts ==
    ASSUME NEW S, NEW rooms \in Seq(Nat), IsInjective(rooms), Range(rooms) = S
    PROVE  Cardinality(S) = Len(rooms)
<1>0. PICK n : n = Len(rooms)
    OBVIOUS
<1>1. n \in Nat /\ DOMAIN rooms = 1 .. n
    BY <1>0
<1>3. rooms \in [1 .. n -> S]
    <2>1. \A j \in 1 .. n : rooms[j] \in S
        BY <1>1 DEF Range
    <2> QED
        BY <1>1, <2>1
<1>4. rooms \in Bijection(1 .. n, S)
    <2>1. \A t \in S : \E j \in 1 .. n : rooms[j] = t
        BY <1>1 DEF Range
    <2>2. \A j, k \in 1 .. n : rooms[j] = rooms[k] => j = k
        BY <1>1 DEF IsInjective
    <2> QED
        BY <1>3, <2>1, <2>2 DEF Bijection, Injection, Surjection, IsInjective
<1> QED
    BY <1>0, <1>1, <1>4, FS_CountingElements DEF ExistsBijection

\* One inn with its room types and so many vacant rooms in each.
Made(vacancy) ==
    /\ Cardinality(InnsOf(rush)) = 1
    /\ Cardinality(RoomTypesOf(rush)) = PrepRoomTypes
    /\ \A t \in RoomTypesOf(rush) : Vacant(t, vacancy)

LEMMA PreparedOrMade ==
    ASSUME TablesOK', OneInn', NEW v, v = prep.vacancy, NEW i \in 1 .. PrepRoomTypes + 1, NEW rooms \in Seq(Nat),
           prep' = PrepareFrom(i, rooms), prep.inn \in InnsOf(rush)',
           Lists(rooms)', Cardinality(RoomTypesOf(rush)') <= PrepRoomTypes,
           PrepRoomTypes <= Len(rooms)
    PROVE  /\ RushOK'
           /\ (\A j \in 1 .. i - 1 : Vacant(rooms[j], v)') =>
                 /\ QuietPrep'
                 /\ prep'.pc = "done" => Made(v)'
<1>1. prep'.pc \in {"done", "register"} /\ prep'.rooms = rooms /\ prep'.i = i /\ prep'.vacancy = v
    BY DEF PrepareFrom
<1>2. RushOK'
    BY <1>1 DEF RushOK, OneInn
<1>3. ASSUME \A j \in 1 .. i - 1 : Vacant(rooms[j], v)'
      PROVE  QuietPrep'
    BY <1>1, <1>3 DEF QuietPrep
<1>4. ASSUME \A j \in 1 .. i - 1 : Vacant(rooms[j], v)', prep'.pc = "done"
      PROVE  Made(v)'
    <2>1. i > PrepRoomTypes
        BY <1>4 DEF PrepareFrom
    <2>2. PICK n : n = Len(rooms)
        OBVIOUS
    <2>3. i \in Nat /\ n \in Nat
        BY <2>2, LoadPrepAssumption
    <2>4. Cardinality(RoomTypesOf(rush)') = Len(rooms)
        BY ListCounts DEF Lists
    <2>5. n = PrepRoomTypes
        BY <2>2, <2>3, <2>4, LoadPrepAssumption
    <2>6. \A j \in 1 .. n : Vacant(rooms[j], v)'
        <3>1. \A j \in 1 .. n : j \in 1 .. i - 1
            BY <2>1, <2>3, <2>5
        <3> QED
            BY <1>4, <3>1
    <2>7. \A t \in RoomTypesOf(rush)' : \E j \in 1 .. n : rooms[j] = t
        <3>1. DOMAIN rooms = 1 .. n
            BY <2>2
        <3> QED
            BY <3>1 DEF Lists, Range
    <2>8. \A t \in RoomTypesOf(rush)' : Vacant(t, v)'
        BY <2>6, <2>7
    <2>9. Cardinality(InnsOf(rush)') = 1
        <3>1. InnsOf(rush)' = {prep.inn}
            BY DEF OneInn
        <3> QED
            BY <3>1, FS_Singleton
    <2> QED
        BY <2>2, <2>4, <2>5, <2>8, <2>9 DEF Made, InnsOf, RoomTypesOf
<1> QED
    BY <1>2, <1>3, <1>4

\* What a step of loadprep makes of its inn: with v the vacancy asked for.
PrepMoves(v) ==
    /\ RushOK'
    /\ QuietPrep => QuietPrep' /\ (prep'.pc = "done" => Made(v)')

LEMMA ListInnsMoves ==
    ASSUME RushOK, ListInns, NEW v
    PROVE  PrepMoves(v)
<1>1. InnsOf(rush)' = InnsOf(rush) /\ RoomTypesOf(rush)' = RoomTypesOf(rush)
    BY DEF InnsOf, RoomTypesOf, ListInns, tables
<1>2. /\ prep.pc = "list_inns"
      /\ \/ prep'.pc = "list_room_types"
         \/ prep'.pc = "create_inn" /\ InnsOf(rush) = {}
    <2>1. CASE InnsOf(rush) # {}
        BY <2>1 DEF ListInns
    <2>2. CASE InnsOf(rush) = {}
        <3>1. prep' = [prep EXCEPT !.pc = "create_inn"] /\ prep.pc = "list_inns"
            BY <2>2 DEF ListInns
        <3> QED
            BY <2>2, <3>1
    <2> QED
        BY <2>1, <2>2
<1>3. RushOK'
    BY <1>1, <1>2 DEF RushOK, OneInn
<1> QED
    BY <1>2, <1>3 DEF QuietPrep, PrepMoves

LEMMA CreateInnMoves ==
    ASSUME TablesOK, RushOK, CreateInn, NEW v
    PROVE  PrepMoves(v)
<1>1. /\ InnsOf(rush)' = InnsOf(rush) \cup {NewId(usedInns)}
      /\ RoomTypesOf(rush)' = RoomTypesOf(rush)
    BY InnAdded DEF CreateInn
<1>2. InnsOf(rush) = {} /\ prep'.pc = "list_room_types"
    BY DEF CreateInn, RushOK
<1>3. OneInn'
    BY <1>1, <1>2 DEF OneInn
<1>4. RushOK'
    BY <1>1, <1>2, <1>3 DEF RushOK
<1> QED
    BY <1>2, <1>4 DEF QuietPrep, PrepMoves

LEMMA ListRoomsMoves ==
    ASSUME TablesOK, PrepOK, RushOK, ListRooms, TablesOK', NEW v, v = prep.vacancy
    PROVE  PrepMoves(v)
<1>1. InnsOf(rush)' = InnsOf(rush) /\ RoomTypesOf(rush)' = RoomTypesOf(rush)
    BY DEF InnsOf, RoomTypesOf, ListRooms, tables
<1>2. PICK rooms : rooms = SetToSeq(RoomsOfInn(prep.inn))
    OBVIOUS
<1>3. prep.inn \in InnsOf(rush)
    BY PrepAt DEF ListRooms, PrepRuns
<1>4. RoomsOfInn(prep.inn) = RoomTypesOf(rush)
    BY <1>3 DEF RushOK, OneInn, RoomsOfInn, RoomTypesOf
<1>5. PICK n : n = Len(rooms)
    OBVIOUS
<1>6. /\ rooms \in Seq(Nat) /\ n \in Nat
      /\ rooms \in [1 .. n -> RoomTypesOf(rush)] /\ IsInjective(rooms)
      /\ \A t \in RoomTypesOf(rush) : \E j \in 1 .. n : rooms[j] = t
    BY <1>2, <1>3, <1>4, <1>5, RoomsOfInnAreListed
<1>7. Lists(rooms)
    BY <1>6 DEF Lists, Range
<1>8. /\ prep.pc = "list_room_types"
      /\ prep' = IF Len(rooms) < PrepRoomTypes
                 THEN [pc |-> "create_room_types", vacancy |-> prep.vacancy, inn |-> prep.inn,
                       rooms |-> rooms]
                 ELSE PrepareFrom(1, rooms)
    BY <1>2 DEF ListRooms, RoomsOfInn
<1>9. OneInn' /\ Lists(rooms)'
    BY <1>1, <1>7 DEF RushOK, OneInn, Lists
<1>10. Cardinality(RoomTypesOf(rush)') <= PrepRoomTypes
    BY <1>1 DEF RushOK
<1>11. CASE Len(rooms) < PrepRoomTypes
    <2>1. prep'.pc = "create_room_types" /\ prep'.rooms = rooms
        BY <1>8, <1>11
    <2>2. RushOK'
        BY <1>9, <1>10, <2>1 DEF RushOK
    <2> QED
        BY <2>1, <2>2 DEF QuietPrep, PrepMoves
<1>12. CASE ~(Len(rooms) < PrepRoomTypes)
    <2>1. prep' = PrepareFrom(1, rooms)
        BY <1>8, <1>12
    <2>2. PrepRoomTypes <= Len(rooms) /\ 1 \in 1 .. PrepRoomTypes + 1
        BY <1>5, <1>6, <1>12, LoadPrepAssumption
    <2>3. prep.inn \in InnsOf(rush)'
        BY <1>1, <1>3
    <2>4. \A j \in 1 .. 1 - 1 : Vacant(rooms[j], v)'
        OBVIOUS
    <2> QED
        BY <1>6, <1>9, <1>10, <2>1, <2>2, <2>3, <2>4, PreparedOrMade DEF PrepMoves
<1> QED
    BY <1>11, <1>12

LEMMA CreateRoomMoves ==
    ASSUME TablesOK, PrepOK, RushOK, CreateRoom, TablesOK', NEW v, v = prep.vacancy
    PROVE  PrepMoves(v)
<1>0. PICK id, rooms : id = NewId(usedRoomTypes) /\ rooms = Append(prep.rooms, id)
    OBVIOUS
<1>1. prep.pc = "create_room_types" /\ PrepRuns
    BY DEF CreateRoom, PrepRuns
<1>2. /\ prep \in CreateRun /\ prep.inn \in InnsOf(rush)
      /\ prep.rooms \in Seq(Nat) /\ Len(prep.rooms) < PrepRoomTypes
    BY <1>1, PrepAt DEF CreateRun, PrepOK
<1>3. /\ roomTypes' = Put(roomTypes, NewId(usedRoomTypes), [accommodation |-> prep.inn, capacity |-> 2])
      /\ UNCHANGED <<bookers, accommodations, inventories, bookings>>
    BY DEF CreateRoom
<1>4. RoomTypesOf(rush)' = RoomTypesOf(rush) \cup {id} /\ id \in Nat
    BY <1>0, <1>2, <1>3, RoomTypeAdded
<1>5. id \notin RoomTypesOf(rush)
    <2>1. id \notin usedRoomTypes
        BY <1>0, UsedIdsAreFinite, NewIdIsNew
    <2> QED
        BY <2>1 DEF usedRoomTypes, RoomTypesOf
<1>6. PICK n : n = Len(prep.rooms)
    OBVIOUS
<1>7. /\ n \in Nat /\ rooms \in Seq(Nat) /\ Len(rooms) = n + 1
      /\ \A j \in 1 .. n : rooms[j] = prep.rooms[j]
      /\ rooms[n + 1] = id
      /\ DOMAIN rooms = 1 .. n + 1 /\ DOMAIN prep.rooms = 1 .. n
    BY <1>0, <1>2, <1>4, <1>6
<1>8. IsInjective(prep.rooms) /\ Range(prep.rooms) = RoomTypesOf(rush)
    BY <1>1 DEF RushOK, Lists
<1>9. \A j \in 1 .. n : rooms[j] \in RoomTypesOf(rush) /\ rooms[j] # id
    BY <1>5, <1>7, <1>8 DEF Range
<1>10. IsInjective(rooms)
    <2>1. \A j \in 1 .. n + 1 : j \in 1 .. n \/ j = n + 1
        BY <1>7
    <2>2. \A j, k \in 1 .. n : rooms[j] = rooms[k] => j = k
        BY <1>7, <1>8 DEF IsInjective
    <2> QED
        BY <1>7, <1>9, <2>1, <2>2 DEF IsInjective
<1>11. Range(rooms) = RoomTypesOf(rush)'
    <2>1. Range(rooms) \subseteq RoomTypesOf(rush)'
        <3>1. \A j \in 1 .. n + 1 : j \in 1 .. n \/ j = n + 1
            BY <1>7
        <3> QED
            BY <1>4, <1>7, <1>9, <3>1 DEF Range
    <2>2. ASSUME NEW t \in RoomTypesOf(rush)'
          PROVE  t \in Range(rooms)
        <3>1. CASE t = id
            BY <1>7, <3>1 DEF Range
        <3>2. CASE t # id
            <4>1. PICK j \in 1 .. n : prep.rooms[j] = t
                BY <1>4, <1>7, <1>8, <3>2 DEF Range
            <4>2. rooms[j] = t /\ j \in 1 .. n + 1
                BY <1>7, <4>1
            <4> QED
                BY <1>7, <4>2 DEF Range
        <3> QED
            BY <3>1, <3>2
    <2> QED
        BY <2>1, <2>2
<1>12. Lists(rooms)'
    BY <1>10, <1>11 DEF Lists
<1>13. InnsOf(rush)' = InnsOf(rush)
    BY <1>3 DEF InnsOf
<1>14. OneInn' /\ prep.inn \in InnsOf(rush)'
    BY <1>2, <1>13 DEF RushOK, OneInn
<1>15. Cardinality(RoomTypesOf(rush)') = n + 1
    BY <1>7, <1>10, <1>11, ListCounts
<1>16. n + 1 <= PrepRoomTypes
    BY <1>2, <1>6, <1>7, LoadPrepAssumption
<1>17. prep' = IF Len(rooms) < PrepRoomTypes THEN [prep EXCEPT !.rooms = rooms]
               ELSE PrepareFrom(1, rooms)
    BY <1>0 DEF CreateRoom
<1>18. CASE Len(rooms) < PrepRoomTypes
    <2>1. prep' = [prep EXCEPT !.rooms = rooms]
        BY <1>17, <1>18
    <2>2. prep'.pc = "create_room_types" /\ prep'.rooms = rooms
        BY <1>2, <2>1 DEF CreateRun
    <2>3. RushOK'
        BY <1>12, <1>14, <1>15, <1>16, <2>2 DEF RushOK
    <2> QED
        BY <2>2, <2>3 DEF QuietPrep, PrepMoves
<1>19. CASE ~(Len(rooms) < PrepRoomTypes)
    <2>1. prep' = PrepareFrom(1, rooms)
        BY <1>17, <1>19
    <2>2. PrepRoomTypes <= Len(rooms) /\ 1 \in 1 .. PrepRoomTypes + 1
        BY <1>7, <1>19, LoadPrepAssumption
    <2>3. Cardinality(RoomTypesOf(rush)') <= PrepRoomTypes
        BY <1>15, <1>16
    <2>4. \A j \in 1 .. 1 - 1 : Vacant(rooms[j], v)'
        OBVIOUS
    <2> QED
        BY <1>7, <1>12, <1>14, <2>1, <2>2, <2>3, <2>4, PreparedOrMade DEF PrepMoves
<1> QED
    BY <1>18, <1>19

LEMMA AvailableRooms ==
    ASSUME NEW inv
    PROVE  Inv!Available(inv) = inv.quantityAvailable - Cardinality(inv.holds)
<1>1. Inv!Cardinality(inv.holds) = Cardinality(inv.holds)
    BY DEF Inv!Cardinality, Cardinality
<1> QED
    BY <1>1 DEF Inv!Available

LEMMA VacantIsKept ==
    ASSUME NEW x, NEW v, Vacant(x, v), x \in DOMAIN inventories', inventories'[x] = inventories[x]
    PROVE  Vacant(x, v)'
BY DEF Vacant, Registered

\* One more room type has the vacancy that was asked for.
LEMMA OneMoreVacant ==
    ASSUME NEW rooms \in Seq(Nat), IsInjective(rooms), NEW i \in 1 .. Len(rooms), NEW v, NEW inv,
           inventories' = Put(inventories, rooms[i], inv), Inv!Available(inv) = v,
           \A j \in 1 .. i - 1 : Vacant(rooms[j], v)
    PROVE  \A j \in 1 .. (i + 1) - 1 : Vacant(rooms[j], v)'
<1>0. PICK n : n = Len(rooms)
    OBVIOUS
<1>1. n \in Nat /\ i \in 1 .. n /\ DOMAIN rooms = 1 .. n
    BY <1>0
<1>2. PICK t : t = rooms[i]
    OBVIOUS
<1>3. /\ DOMAIN inventories' = DOMAIN inventories \cup {t}
      /\ inventories'[t] = inv
      /\ \A x \in DOMAIN inventories : x # t => inventories'[x] = inventories[x]
    BY <1>2 DEF Put
<1>4. Vacant(t, v)'
    BY <1>3 DEF Vacant, Registered
<1>5. ASSUME NEW j \in 1 .. i - 1
      PROVE  Vacant(rooms[j], v)'
    <2>1. j \in 1 .. n /\ j # i
        BY <1>1
    <2>2. rooms[j] # t
        BY <1>1, <1>2, <2>1 DEF IsInjective
    <2>3. Vacant(rooms[j], v) /\ rooms[j] \in DOMAIN inventories
        BY DEF Vacant, Registered
    <2> QED
        BY <1>3, <2>2, <2>3, VacantIsKept
<1>6. ASSUME NEW j \in 1 .. (i + 1) - 1
      PROVE  j \in 1 .. i - 1 \/ j = i
    BY <1>1
<1> QED
    BY <1>2, <1>4, <1>5, <1>6

\* The statements that work on one room type after the other.
LEMMA RoomStatement ==
    ASSUME TablesOK, PrepOK, RushOK, prep.pc \in {"register", "list_summaries", "change_quantity"}
    PROVE  /\ prep.rooms \in Seq(Nat) /\ prep.vacancy \in Nat
           /\ prep.i \in 1 .. PrepRoomTypes /\ prep.i \in 1 .. Len(prep.rooms)
           /\ prep.i + 1 \in 1 .. PrepRoomTypes + 1
           /\ PrepRoomTypes <= Len(prep.rooms)
           /\ prep.inn \in InnsOf(rush) /\ prep.rooms[prep.i] \in RoomTypesOf(rush)
           /\ Lists(prep.rooms) /\ IsInjective(prep.rooms)
<1>1. PrepRuns
    BY DEF PrepRuns
<1>2. /\ prep.rooms \in Seq(Nat) /\ prep.vacancy \in Vacancies
      /\ prep.i \in 1 .. PrepRoomTypes /\ prep.i \in 1 .. Len(prep.rooms)
      /\ prep.inn \in InnsOf(rush) /\ prep.rooms[prep.i] \in RoomTypesOf(rush)
    BY <1>1, PrepAt
<1>3. PrepRoomTypes <= Len(prep.rooms)
    BY <1>1 DEF PrepOK
<1>4. Lists(prep.rooms) /\ IsInjective(prep.rooms)
    BY DEF RushOK, Lists
<1>5. prep.i + 1 \in 1 .. PrepRoomTypes + 1
    BY <1>2, LoadPrepAssumption
<1> QED
    BY <1>2, <1>3, <1>4, <1>5, LoadPrepAssumption

\* The inn and its room types stay: so does all but what is known of the rooms.
LEMMA InnStays ==
    ASSUME RushOK, UNCHANGED <<accommodations, roomTypes>>
    PROVE  /\ OneInn' /\ Cardinality(RoomTypesOf(rush)') <= PrepRoomTypes
           /\ InnsOf(rush)' = InnsOf(rush)
           /\ \A rooms : Lists(rooms)' <=> Lists(rooms)
<1>1. InnsOf(rush)' = InnsOf(rush) /\ RoomTypesOf(rush)' = RoomTypesOf(rush)
    BY DEF InnsOf, RoomTypesOf
<1> QED
    BY <1>1 DEF RushOK, OneInn, Lists

LEMMA RegisterVacancyMoves ==
    ASSUME TablesOK, PrepOK, RushOK, RegisterVacancy, TablesOK', NEW v, v = prep.vacancy
    PROVE  PrepMoves(v)
<1>0. PICK t, i, rooms : t = prep.rooms[prep.i] /\ i = prep.i /\ rooms = prep.rooms
    OBVIOUS
<1>1. prep.pc = "register" /\ UNCHANGED <<accommodations, roomTypes>>
    BY DEF RegisterVacancy
<1>2. /\ rooms \in Seq(Nat) /\ v \in Nat
      /\ i \in 1 .. PrepRoomTypes /\ i \in 1 .. Len(rooms) /\ i + 1 \in 1 .. PrepRoomTypes + 1
      /\ PrepRoomTypes <= Len(rooms)
      /\ prep.inn \in InnsOf(rush) /\ Lists(rooms) /\ IsInjective(rooms)
    BY <1>0, <1>1, RoomStatement
<1>3. /\ OneInn' /\ Cardinality(RoomTypesOf(rush)') <= PrepRoomTypes
      /\ prep.inn \in InnsOf(rush)' /\ Lists(rooms)'
    BY <1>1, <1>2, InnStays
<1>4. CASE Registered(t)
    <2>1. prep' = [prep EXCEPT !.pc = "list_summaries"] /\ UNCHANGED inventories
        BY <1>0, <1>4 DEF RegisterVacancy
    <2>2. prep \in RoomRun
        BY <1>1, PrepAt DEF PrepRuns
    <2>3. /\ prep'.pc = "list_summaries" /\ prep'.rooms = rooms /\ prep'.i = i
          /\ prep'.vacancy = v
        BY <1>0, <2>1, <2>2 DEF RoomRun
    <2>4. RushOK'
        BY <1>3, <2>3 DEF RushOK
    <2>5. QuietPrep => QuietPrep'
        BY <1>0, <1>1, <2>1, <2>3 DEF QuietPrep, Vacant, Registered
    <2> QED
        BY <2>3, <2>4, <2>5 DEF PrepMoves
<1>5. CASE ~Registered(t)
    <2>0. PICK inv : inv = Inv!NewInventory(v, 1)
        OBVIOUS
    <2>1. inventories' = Put(inventories, rooms[i], inv) /\ prep' = PrepareFrom(i + 1, rooms)
        BY <1>0, <1>5, <2>0 DEF RegisterVacancy
    <2>2. Inv!Available(inv) = v
        <3>1. inv.holds = {} /\ inv.quantityAvailable = v
            BY <1>2, <2>0, NewInventoryIsEmpty
        <3>2. Cardinality({}) = 0
            BY FS_EmptySet
        <3>3. v - 0 = v
            BY <1>2
        <3>4. Inv!Available(inv) = v - Cardinality({})
            BY <3>1, AvailableRooms
        <3> QED
            BY <3>2, <3>3, <3>4
    <2>3. QuietPrep => \A j \in 1 .. (i + 1) - 1 : Vacant(rooms[j], v)'
        <3>1. QuietPrep => \A j \in 1 .. i - 1 : Vacant(rooms[j], v)
            BY <1>0, <1>1 DEF QuietPrep
        <3> QED
            BY <1>2, <2>1, <2>2, <3>1, OneMoreVacant
    <2> QED
        BY <1>2, <1>3, <2>1, <2>3, PreparedOrMade DEF PrepMoves
<1> QED
    BY <1>4, <1>5

LEMMA ListSummariesMoves ==
    ASSUME TablesOK, PrepOK, RushOK, ListSummaries, NEW v
    PROVE  PrepMoves(v)
<1>1. prep.pc = "list_summaries" /\ UNCHANGED tables
    BY DEF ListSummaries
<1>2. /\ prep'.pc = "change_quantity" /\ prep'.rooms = prep.rooms /\ prep'.i = prep.i
      /\ prep'.vacancy = prep.vacancy
      /\ prep'.held = HeldCount(inventories[prep.rooms[prep.i]])
    BY DEF ListSummaries
<1>3. PICK rooms : rooms = prep.rooms
    OBVIOUS
<1>4. OneInn' /\ Cardinality(RoomTypesOf(rush)') <= PrepRoomTypes /\ Lists(rooms)'
    BY <1>1, <1>3, RoomStatement, InnStays DEF tables
<1>5. RushOK'
    BY <1>2, <1>3, <1>4 DEF RushOK
<1>6. QuietPrep => QuietPrep'
    BY <1>1, <1>2 DEF QuietPrep, Vacant, Registered, HeldCount, tables
<1> QED
    BY <1>2, <1>5, <1>6 DEF PrepMoves

LEMMA ChangeVacancyMoves ==
    ASSUME TablesOK, PrepOK, RushOK, ChangeVacancy, TablesOK', NEW v, v = prep.vacancy
    PROVE  PrepMoves(v)
<1>0. PICK t, i, rooms, n, inv : /\ t = prep.rooms[prep.i] /\ i = prep.i /\ rooms = prep.rooms
                                 /\ n = prep.held + prep.vacancy /\ inv = inventories[t]
    OBVIOUS
<1>1. prep.pc = "change_quantity" /\ UNCHANGED <<accommodations, roomTypes>>
    BY DEF ChangeVacancy
<1>2. /\ rooms \in Seq(Nat) /\ v \in Nat
      /\ i \in 1 .. PrepRoomTypes /\ i \in 1 .. Len(rooms) /\ i + 1 \in 1 .. PrepRoomTypes + 1
      /\ PrepRoomTypes <= Len(rooms)
      /\ prep.inn \in InnsOf(rush) /\ Lists(rooms) /\ IsInjective(rooms)
    BY <1>0, <1>1, RoomStatement
<1>3. /\ OneInn' /\ Cardinality(RoomTypesOf(rush)') <= PrepRoomTypes
      /\ prep.inn \in InnsOf(rush)' /\ Lists(rooms)'
    BY <1>1, <1>2, InnStays
<1>4. CASE Inv!CanChangeQuantity(inv, n)
    <2>0. PICK w : w = Inv!AfterChangeQuantity(inv, n)
        OBVIOUS
    <2>1. inventories' = Put(inventories, rooms[i], w) /\ prep' = PrepareFrom(i + 1, rooms)
        BY <1>0, <1>4, <2>0 DEF ChangeVacancy
    <2>2. inv \in Inv!InventoryType /\ IsFiniteSet(inv.holds)
        BY <1>0, <1>1 DEF PrepOK, PrepRuns, Registered, TablesOK, InventoriesOK
    <2>3. PICK held : held = Cardinality(inv.holds)
        OBVIOUS
    <2>4. held \in Nat
        BY <2>2, <2>3, FS_CardinalityType
    <2>5. w.quantityAvailable = n /\ w.holds = inv.holds
        BY <2>0, <2>2 DEF Inv!AfterChangeQuantity, Inv!InventoryType
    <2>6. QuietPrep => Inv!Available(w) = v
        <3> SUFFICES ASSUME QuietPrep PROVE Inv!Available(w) = v
            OBVIOUS
        <3>1. prep.held = held
            BY <1>0, <1>1, <2>3 DEF QuietPrep
        <3>2. n = held + v
            BY <1>0, <3>1
        <3>3. Inv!Available(w) = n - held
            BY <2>3, <2>5, AvailableRooms
        <3> QED
            BY <1>2, <2>4, <3>2, <3>3
    <2>7. QuietPrep => \A j \in 1 .. (i + 1) - 1 : Vacant(rooms[j], v)'
        <3>1. QuietPrep => \A j \in 1 .. i - 1 : Vacant(rooms[j], v)
            BY <1>0, <1>1 DEF QuietPrep
        <3> QED
            BY <1>2, <2>1, <2>6, <3>1, OneMoreVacant
    <2> QED
        BY <1>2, <1>3, <2>1, <2>7, PreparedOrMade DEF PrepMoves
<1>5. CASE ~Inv!CanChangeQuantity(inv, n)
    <2>1. prep' = [prep EXCEPT !.pc = "failed"]
        BY <1>0, <1>5 DEF ChangeVacancy, PrepFailed
    <2>2. prep'.pc = "failed"
        BY <1>1, <2>1, PrepAt DEF PrepRuns, ChangeRun
    <2> QED
        BY <1>3, <2>2 DEF RushOK, QuietPrep, PrepMoves
<1> QED
    BY <1>4, <1>5

LEMMA PrepStepMoves ==
    ASSUME TablesOK, PrepOK, RushOK, PrepStep, NEW v, v = prep.vacancy
    PROVE  PrepMoves(v)
<1>1. TablesOK' /\ PrepRuns
    BY PrepStepEffect DEF PrepEffect
<1>2. CASE PrepKilled
    <2>1. prep \in PrepForms
        BY <1>1 DEF PrepOK
    <2>2. prep'.pc = "killed" /\ UNCHANGED tables
        BY <1>2, <2>1 DEF PrepKilled, PrepForms
    <2>3. OneInn' /\ Cardinality(RoomTypesOf(rush)') <= PrepRoomTypes
        BY <2>2, InnStays DEF tables
    <2> QED
        BY <2>2, <2>3 DEF RushOK, QuietPrep, PrepMoves
<1> QED
    BY <1>1, <1>2, ListInnsMoves, CreateInnMoves, ListRoomsMoves, CreateRoomMoves,
       RegisterVacancyMoves, ListSummariesMoves, ChangeVacancyMoves DEF PrepStep

-----------------------------------------------------------------------------
(* What it means that no request disturbs a run *)

\* The rows of a subject's room types are the same after the step.
SameRows(s) ==
    /\ \A t \in RoomTypesOf(s) : Registered(t)' <=> Registered(t)
    /\ \A t \in RoomTypesOf(s) : Registered(t) => inventories'[t] = inventories[t]
    /\ BookingsIn(RoomTypesOf(s))' = BookingsIn(RoomTypesOf(s))
    /\ \A b \in BookingsIn(RoomTypesOf(s)) : bookings'[b] = bookings[b]

LEMMA RowsAreTheSame ==
    ASSUME NEW s, LeavesAlone(s), RowsOf(RoomTypesOf(s))' = RowsOf(RoomTypesOf(s))
    PROVE  SameRows(s)
<1>0. PICK S : S = RoomTypesOf(s)
    OBVIOUS
<1>1. RoomTypesOf(s)' = S
    BY <1>0 DEF LeavesAlone
<1>2. /\ [t \in S \cap DOMAIN inventories' |-> inventories'[t]]
            = [t \in S \cap DOMAIN inventories |-> inventories[t]]
      /\ [b \in BookingsIn(S)' |-> bookings'[b]] = [b \in BookingsIn(S) |-> bookings[b]]
    BY <1>0, <1>1 DEF RowsOf, BookingsIn
<1>3. /\ S \cap DOMAIN inventories' = S \cap DOMAIN inventories
      /\ \A t \in S \cap DOMAIN inventories : inventories'[t] = inventories[t]
    <2>1. PICK f, g : /\ f = [t \in S \cap DOMAIN inventories' |-> inventories'[t]]
                      /\ g = [t \in S \cap DOMAIN inventories |-> inventories[t]]
        OBVIOUS
    <2>2. f = g
        BY <1>2, <2>1
    <2>3. DOMAIN f = S \cap DOMAIN inventories' /\ DOMAIN g = S \cap DOMAIN inventories
        BY <2>1
    <2>4. \A t \in S \cap DOMAIN inventories : f[t] = inventories'[t] /\ g[t] = inventories[t]
        BY <2>1, <2>2, <2>3
    <2> QED
        BY <2>2, <2>3, <2>4
<1>4. /\ BookingsIn(S)' = BookingsIn(S)
      /\ \A b \in BookingsIn(S) : bookings'[b] = bookings[b]
    <2>1. PICK f, g : /\ f = [b \in BookingsIn(S)' |-> bookings'[b]]
                      /\ g = [b \in BookingsIn(S) |-> bookings[b]]
        OBVIOUS
    <2>2. f = g
        BY <1>2, <2>1
    <2>3. DOMAIN f = BookingsIn(S)' /\ DOMAIN g = BookingsIn(S)
        BY <2>1
    <2>4. \A b \in BookingsIn(S) : f[b] = bookings'[b] /\ g[b] = bookings[b]
        BY <2>1, <2>2, <2>3
    <2> QED
        BY <2>2, <2>3, <2>4
<1>5. BookingsIn(RoomTypesOf(s))' = BookingsIn(S)'
    BY <1>1 DEF BookingsIn
<1> QED
    BY <1>0, <1>3, <1>4, <1>5 DEF SameRows, Registered

LEMMA Undisturbed ==
    ASSUME APIStep, ~disturbed'
    PROVE  /\ ~disturbed
           /\ SeedRuns => RowsOf(SeedRooms)' = RowsOf(SeedRooms)
           /\ PrepRuns => RowsOf(RoomTypesOf(rush))' = RowsOf(RoomTypesOf(rush))
<1>1. disturbed' = (disturbed \/ Disturbs)
    BY DEF APIStep
<1>2. ~disturbed /\ ~Disturbs
    BY <1>1, Zenon
<1> QED
    BY <1>2 DEF Disturbs

-----------------------------------------------------------------------------
(* What loadprep leaves *)

LEMMA QuietPrepIsKept ==
    ASSUME PrepOK, RushOK, QuietPrep, UNCHANGED prep, PrepRuns => SameRows(rush)
    PROVE  QuietPrep'
<1>1. CASE prep.pc \notin {"register", "list_summaries", "change_quantity"}
    BY <1>1 DEF QuietPrep
<1>2. CASE prep.pc \in {"register", "list_summaries", "change_quantity"}
    <2>1. PrepRuns
        BY <1>2 DEF PrepRuns
    <2>2. PICK rooms, i, v : rooms = prep.rooms /\ i = prep.i /\ v = prep.vacancy
        OBVIOUS
    <2>3. /\ \A j \in 1 .. i - 1 : Vacant(rooms[j], v)
          /\ i \in 1 .. Len(rooms) /\ rooms \in Seq(Nat)
          /\ \A j \in 1 .. Len(rooms) : rooms[j] \in RoomTypesOf(rush)
        BY <1>2, <2>1, <2>2, PrepAt DEF QuietPrep, PrepOK
    <2>4. \A j \in 1 .. i - 1 : Vacant(rooms[j], v)'
        <3>1. PICK n \in Nat : n = Len(rooms)
            BY <2>3
        <3>2. ASSUME NEW j \in 1 .. i - 1
              PROVE  rooms[j] \in RoomTypesOf(rush)
            <4>1. j \in 1 .. n
                BY <2>3, <3>1
            <4> QED
                BY <2>3, <3>1, <4>1
        <3>3. ASSUME NEW j \in 1 .. i - 1
              PROVE  Vacant(rooms[j], v)'
            BY <2>1, <2>3, <3>2, VacantIsKept DEF SameRows, Vacant, Registered
        <3> QED
            BY <3>3
    <2>5. ASSUME prep.pc = "change_quantity"
          PROVE  prep.held = Cardinality(inventories'[rooms[i]].holds)
        <3>1. Registered(rooms[i]) /\ rooms[i] \in RoomTypesOf(rush)
            BY <2>1, <2>2, <2>3, <2>5 DEF PrepOK
        <3>2. inventories'[rooms[i]] = inventories[rooms[i]]
            BY <2>1, <3>1 DEF SameRows
        <3>3. prep.held = Cardinality(inventories[rooms[i]].holds)
            BY <2>2, <2>5 DEF QuietPrep
        <3> QED
            BY <3>2, <3>3
    <2> QED
        BY <1>2, <2>2, <2>4, <2>5 DEF QuietPrep
<1> QED
    BY <1>1, <1>2

LEMMA RushIsKept ==
    ASSUME RushOK, LeavesAlone(rush), UNCHANGED prep
    PROVE  RushOK'
BY DEF RushOK, OneInn, Lists, LeavesAlone

LEMMA PrepInvInit ==
    ASSUME LoadInit
    PROVE  PrepInv
<1>1. PICK s \in Operators : accommodations = <<s, Nobody>>
    BY DEF LoadInit, Init
<1>2. InnsOf(rush) = {}
    <2>1. DOMAIN accommodations = 1 .. 2
        BY <1>1
    <2>2. accommodations[1] # rush /\ accommodations[2] # rush
        BY <1>1, SubjectsAssumption DEF rush, Nobody
    <2> QED
        BY <2>1, <2>2 DEF InnsOf
<1>3. RoomTypesOf(rush) = {}
    BY <1>2 DEF RoomTypesOf
<1>4. Cardinality(RoomTypesOf(rush)) <= PrepRoomTypes
    BY <1>3, FS_EmptySet, LoadPrepAssumption
<1>5. prep.pc = "idle"
    BY DEF LoadInit, NoPrep
<1> QED
    BY <1>2, <1>4, <1>5 DEF PrepInv, RushOK, OneInn, QuietPrep

LEMMA PrepInvNext ==
    ASSUME OwnInv, PrepInv, [Next]_vars
    PROVE  PrepInv'
<1>1. TablesOK /\ RequestsOK /\ PrepOK /\ RunsOK /\ RushOK
    BY DEF OwnInv, PrepInv
<1>2. CASE APIStep
    <2>1. API /\ UNCHANGED prep
        BY <1>2 DEF APIStep
    <2>2. LeavesAlone(rush)
        BY <1>1, <2>1, APIEffect, SubjectsAssumption DEF LeavesCommandsAlone
    <2>3. RushOK'
        BY <1>1, <2>1, <2>2, RushIsKept
    <2>4. ASSUME ~disturbed'
          PROVE  QuietPrep'
        <3>1. ~disturbed /\ (PrepRuns => RowsOf(RoomTypesOf(rush))' = RowsOf(RoomTypesOf(rush)))
            BY <1>2, <2>4, Undisturbed
        <3>2. PrepRuns => SameRows(rush)
            BY <2>2, <3>1, RowsAreTheSame
        <3>3. QuietPrep
            BY <3>1 DEF PrepInv
        <3> QED
            BY <1>1, <2>1, <3>2, <3>3, QuietPrepIsKept
    <2> QED
        BY <2>3, <2>4 DEF PrepInv
<1>3. CASE /\ UNCHANGED tables
           /\ prep' = NoPrep \/ \E v : prep' = [pc |-> "list_inns", vacancy |-> v]
    <2>1. prep'.pc \in {"idle", "list_inns"}
        BY <1>3 DEF NoPrep
    <2>2. InnsOf(rush)' = InnsOf(rush) /\ RoomTypesOf(rush)' = RoomTypesOf(rush)
        BY <1>3 DEF InnsOf, RoomTypesOf, tables
    <2> QED
        BY <1>1, <2>1, <2>2 DEF PrepInv, RushOK, OneInn, QuietPrep
<1>4. CASE SeedStep /\ UNCHANGED <<requests, begun, prep, runs, disturbed>>
    <2>1. SeedRuns
        BY <1>4, SeedStepEffect
    <2>2. ~PrepRuns
        BY <1>1, <2>1 DEF RunsOK
    <2>3. LeavesAlone(rush)
        BY <1>1, <1>4, SeedLeavesAlone DEF rush, marker
    <2>4. RushOK'
        BY <1>1, <1>4, <2>3, RushIsKept
    <2>5. QuietPrep'
        BY <1>4, <2>2 DEF PrepRuns, QuietPrep
    <2> QED
        BY <2>4, <2>5 DEF PrepInv
<1>5. CASE PrepStep /\ UNCHANGED <<requests, begun, seed, runs, disturbed>>
    <2>1. PICK v : v = prep.vacancy
        OBVIOUS
    <2>2. PrepMoves(v)
        BY <1>1, <1>5, <2>1, PrepStepMoves
    <2>3. RushOK' /\ (QuietPrep => QuietPrep')
        BY <2>2 DEF PrepMoves
    <2>4. disturbed' = disturbed /\ (~disturbed => QuietPrep)
        BY <1>5 DEF PrepInv
    <2>5. ~disturbed' => QuietPrep'
        BY <2>3, <2>4, Zenon
    <2> QED
        BY <2>3, <2>5 DEF PrepInv
<1>6. CASE UNCHANGED vars
    BY <1>6 DEF vars, registryVars, tables, PrepInv, RushOK, OneInn, Lists, InnsOf, RoomTypesOf,
                QuietPrep, Vacant, Registered
<1> QED
    BY <1>2, <1>3, <1>4, <1>5, <1>6 DEF Next, StartSeed, StartPrep

LEMMA PrepInvariant == Spec => [](OwnInv /\ PrepInv)
<1>1. LoadInit => OwnInv /\ PrepInv
    BY OwnInit, PrepInvInit
<1>2. OwnInv /\ PrepInv /\ [Next]_vars => (OwnInv /\ PrepInv)'
    BY OwnNext, PrepInvNext
<1> QED
    BY <1>1, <1>2, PTL DEF Spec

\* A run of loadprep that no request disturbs leaves one inn, its room types and
\* the vacant rooms it was asked for, whatever killed runs left before it.
THEOREM RushIsReady == Spec => PrepMakesRoom
<1> DEFINE Ends == prep.pc # "done" /\ prep'.pc = "done" /\ ~disturbed
           Ready == /\ Cardinality(InnsOf(rush)') = 1
                    /\ Cardinality(RoomTypesOf(rush)') = PrepRoomTypes
                    /\ \A t \in RoomTypesOf(rush)' :
                          Inv!Available(inventories'[t]) = prep.vacancy
<1>1. ASSUME OwnInv, PrepInv, Next, Ends
      PROVE  Ready
    <2>1. TablesOK /\ PrepOK /\ RushOK
        BY <1>1 DEF OwnInv, PrepInv
    <2>2. PrepStep
        <3>1. prep' # prep
            BY <1>1
        <3>2. ~ \E v \in Vacancies : StartPrep(v)
            BY <1>1 DEF StartPrep
        <3>3. prep' # NoPrep
            BY <1>1 DEF NoPrep
        <3> QED
            BY <1>1, <3>1, <3>2, <3>3 DEF Next, APIStep
    <2>3. PICK v : v = prep.vacancy
        OBVIOUS
    <2>4. PrepMoves(v)
        BY <2>1, <2>2, <2>3, PrepStepMoves
    <2>5. QuietPrep
        BY <1>1 DEF PrepInv
    <2>6. Made(v)'
        BY <1>1, <2>4, <2>5 DEF PrepMoves
    <2> QED
        BY <2>3, <2>6 DEF Made, Vacant
<1>2. OwnInv /\ PrepInv /\ [Next]_vars => [Ends => Ready]_vars
    BY <1>1
<1> QED
    BY <1>2, PrepInvariant, PTL DEF Spec, PrepMakesRoom

\* The database refuses loadprep a quantity only below the highest slot in use.
LEMMA RefusedQuantity ==
    ASSUME TablesOK, PrepOK, QuietPrep, PrepStep, prep'.pc = "failed", NEW inv,
           inv = inventories[prep.rooms[prep.i]]
    PROVE  Inv!maxSlotNo(inv) > Cardinality(inv.holds) + prep.vacancy
<1>1. PrepRuns /\ PrepOK'
    BY PrepStepEffect
<1>2. ASSUME NEW i, NEW rooms
      PROVE  PrepareFrom(i, rooms).pc # "failed"
    BY DEF PrepareFrom
<1>3. ChangeVacancy
    <2>1. ~ListInns
        <3>1. CASE InnsOf(rush) # {}
            BY <3>1 DEF ListInns
        <3>2. CASE InnsOf(rush) = {} /\ ListInns
            <4>1. prep' = [prep EXCEPT !.pc = "create_inn"] /\ prep.pc = "list_inns"
                BY <3>2 DEF ListInns
            <4> QED
                BY <4>1
        <3> QED
            BY <3>1, <3>2
    <2>2. ~CreateInn /\ ~ListSummaries
        BY DEF CreateInn, ListSummaries
    <2>3. ~ListRooms
        BY <1>2 DEF ListRooms
    <2>4. ~CreateRoom
        <3>1. SUFFICES ASSUME CreateRoom PROVE FALSE
            OBVIOUS
        <3>2. prep \in CreateRun
            BY <1>1, <3>1, PrepAt DEF CreateRoom
        <3> QED
            BY <1>2, <3>1, <3>2 DEF CreateRoom, CreateRun
    <2>5. ~RegisterVacancy
        <3>1. SUFFICES ASSUME RegisterVacancy PROVE FALSE
            OBVIOUS
        <3>2. prep \in RoomRun
            BY <1>1, <3>1, PrepAt DEF RegisterVacancy
        <3> QED
            BY <1>2, <3>1, <3>2 DEF RegisterVacancy, RoomRun
    <2>6. ~PrepKilled
        <3>1. SUFFICES ASSUME PrepKilled PROVE FALSE
            OBVIOUS
        <3>2. prep \in PrepForms
            BY <1>1 DEF PrepOK
        <3> QED
            BY <3>1, <3>2 DEF PrepKilled, PrepForms
    <2> QED
        BY <2>1, <2>2, <2>3, <2>4, <2>5, <2>6 DEF PrepStep
<1>4. PICK n : n = prep.held + prep.vacancy
    OBVIOUS
<1>5. prep.pc = "change_quantity" /\ ~Inv!CanChangeQuantity(inv, n)
    BY <1>2, <1>3, <1>4 DEF ChangeVacancy
<1>6. /\ prep \in ChangeRun /\ prep.held = Cardinality(inv.holds)
      /\ inv \in Inv!InventoryType /\ IsFiniteSet(inv.holds)
    <2>1. Registered(prep.rooms[prep.i])
        BY <1>1, <1>5 DEF PrepOK
    <2>2. prep \in ChangeRun
        BY <1>1, <1>5, PrepAt
    <2>3. prep.held = Cardinality(inv.holds)
        BY <1>5 DEF QuietPrep
    <2>4. inv \in Inv!InventoryType /\ IsFiniteSet(inv.holds)
        <3>1. PICK t : t = prep.rooms[prep.i] /\ inv = inventories[t]
            OBVIOUS
        <3>2. t \in DOMAIN inventories
            BY <2>1, <3>1 DEF Registered
        <3> QED
            BY <3>1, <3>2 DEF TablesOK, InventoriesOK
    <2> QED
        BY <2>2, <2>3, <2>4
<1>7. n \in Nat
    <2>1. prep.held \in Nat /\ prep.vacancy \in Nat
        BY <1>6, LoadPrepAssumption DEF ChangeRun
    <2> QED
        BY <1>4, <2>1
<1>8. PICK slots : slots = Inv!UsedSlots(inv) \cup {0}
    OBVIOUS
<1>9. slots \in SUBSET Nat /\ IsFiniteSet(slots) /\ slots # {}
    <2>1. IsFiniteSet(Inv!UsedSlots(inv))
        <3>1. PICK f : f = [h \in inv.holds |-> h.slotNo]
            OBVIOUS
        <3>2. DOMAIN f = inv.holds /\ Inv!UsedSlots(inv) = {f[h] : h \in inv.holds}
            BY <3>1 DEF Inv!UsedSlots
        <3>3. PICK holds : holds = inv.holds
            OBVIOUS
        <3>4. IsFiniteSet(holds) /\ DOMAIN f = holds
            BY <1>6, <3>2, <3>3
        <3>5. IsFiniteSet({f[h] : h \in holds})
            BY <3>4, ImageIsFinite
        <3> QED
            BY <3>2, <3>3, <3>5
    <2>2. IsFiniteSet(slots)
        BY <1>8, <2>1, FS_AddElement
    <2>3. Inv!UsedSlots(inv) \subseteq Nat
        BY <1>6 DEF Inv!UsedSlots, Inv!InventoryType, Inv!HoldType
    <2> QED
        BY <1>8, <2>2, <2>3
<1>10. PICK m : m = Max(slots)
    OBVIOUS
<1>11. m \in Nat
    BY <1>9, <1>10, FiniteMax
<1>12. Inv!maxSlotNo(inv) = m
    BY <1>8, <1>10 DEF Inv!maxSlotNo, Inv!Max, Max
<1>13. ~(n >= m)
    BY <1>5, <1>7, <1>12 DEF Inv!CanChangeQuantity, Inv!validQuantity
<1>14. m > n
    BY <1>7, <1>11, <1>13
<1> QED
    BY <1>4, <1>6, <1>12, <1>14
-----------------------------------------------------------------------------
(* The rows of loadseed, statement by statement *)

NoHolds == \A t \in SeedRooms \cap DOMAIN inventories : inventories[t].holds = {}
NoSeedMembers == \A m \in DOMAIN bookers : bookers[m] \notin Range(SeedMembers)

\* A booking as it was inserted, with so many guests.
Seeded(b, guests) == bookings[b].status = Domain!Confirmed /\ bookings[b].guests = guests

BookingsFit ==
    \A t \in SeedRooms : Cardinality(BookingsIn({t})) <= inventories[t].quantityAvailable

SlotsFit ==
    \A t \in SeedRooms :
        /\ Registered(t)
        /\ Inv!UsedSlots(inventories[t]) \subseteq 1 .. inventories[t].quantityAvailable
        /\ \A g, h \in inventories[t].holds : g.slotNo = h.slotNo => g = h

\* One night is held for the booking, for good.
Housed(b) ==
    \E h \in HoldsOf(bookings[b].roomType) :
        /\ h.status = Inv!HoldConfirmed
        /\ Inv!HoldsOf(inventories[bookings[b].roomType], b) = {h}

\* Before the statement k of a run that no request has disturbed.
Phase(k) ==
    /\ k \in 2 .. 12 => NoHolds
    /\ k \in 3 .. 11 => SeedBookings = {}
    /\ k \in 4 .. 9 => SeedRooms \cap DOMAIN inventories = {}
    /\ k \in 5 .. 8 => SeedRooms = {}
    /\ k \in 6 .. 7 => InnsOf(marker) = {}
    /\ k \in 7 .. 10 => NoSeedMembers
    /\ k \in 8 .. 13 => Cardinality(InnsOf(marker)) = Inns
    /\ k \in 9 .. 13 => Cardinality(SeedRooms) = Inns * RoomTypesPerInn
    /\ k \in 10 .. 13 => SeedRooms \subseteq DOMAIN inventories
    /\ k = 12 => BookingsFit
    /\ k \in 12 .. 13 => \A b \in SeedBookings : Seeded(b, 0)
    /\ k = 13 => SlotsFit /\ (\A b \in SeedBookings : Housed(b))

\* What the load test finds.
Consistent ==
    /\ Cardinality(InnsOf(marker)) = Inns
    /\ Cardinality(SeedRooms) = Inns * RoomTypesPerInn
    /\ SeedMemberIds \subseteq DOMAIN bookers
    /\ SlotsFit
    /\ \A b \in DOMAIN bookings : bookings[b].booker \in SeedMemberIds =>
          Seeded(b, 1) /\ Housed(b)

SeedInv ==
    /\ seed # "idle" => ~PrepRuns
    /\ ~disturbed => \A k \in 1 .. 13 : seed = Statements[k] => Phase(k)
    /\ seed = "done" /\ ~disturbed => Consistent

LEMMA ExtendedCount ==
    ASSUME NEW table, NEW new, NEW used, NEW rows, NEW ids,
           Extended(table, new, used, rows, ids), Len(rows) \in Nat
    PROVE  /\ Range(ids) = DOMAIN new \ DOMAIN table
           /\ Cardinality(Range(ids)) = Len(rows)
<1>0. PICK n \in Nat : n = Len(rows)
    OBVIOUS
<1>1. ids \in [1 .. n -> Nat] /\ IsInjective(ids)
    BY <1>0 DEF Extended
<1>2. ids \in Seq(Nat) /\ Len(ids) = n
    BY <1>1
<1>3. Cardinality(Range(ids)) = n
    BY <1>1, <1>2, ListCounts
<1>4. Range(ids) = DOMAIN new \ DOMAIN table
    BY DEF Extended
<1> QED
    BY <1>0, <1>3, <1>4

\* Each statement is accepted, and leaves what the next one needs.
LEMMA DeleteHoldsLeaves ==
    ASSUME TablesOK, DeleteHolds
    PROVE  Accepted(1) /\ Phase(2)'
<1>1. NoHolds'
    <2>1. /\ inventories' = [t \in DOMAIN inventories |->
                                IF t \in SeedRooms THEN [inventories[t] EXCEPT !.holds = {}]
                                ELSE inventories[t]]
          /\ SeedRooms' = SeedRooms
        BY DEF DeleteHolds, SeedRooms, RoomTypesOf, InnsOf
    <2>2. ASSUME NEW t \in SeedRooms \cap DOMAIN inventories
          PROVE  inventories'[t].holds = {}
        <3>1. inventories'[t] = [inventories[t] EXCEPT !.holds = {}]
            BY <2>1
        <3>2. inventories[t] \in Inv!InventoryType
            BY DEF TablesOK, InventoriesOK
        <3> QED
            BY <3>1, <3>2 DEF Inv!InventoryType
    <2> QED
        BY <2>1, <2>2 DEF NoHolds
<1> QED
    BY <1>1, StatementMoves DEF Phase

LEMMA DeleteBookingsLeaves ==
    ASSUME TablesOK, DeleteBookings, Phase(2)
    PROVE  Accepted(2) /\ Phase(3)'
<1>1. NoHolds
    BY DEF Phase
<1>2. HeldIn(DOMAIN inventories) \cap SeedBookings = {}
    <2>1. SUFFICES ASSUME NEW t \in DOMAIN inventories, NEW h \in inventories[t].holds,
                          h.bookingId \in SeedBookings
                   PROVE  FALSE
        BY DEF HeldIn
    <2>2. t \in SeedRooms
        BY <2>1 DEF TablesOK, InventoriesOK, SeedBookings, BookingsIn
    <2> QED
        BY <1>1, <2>1, <2>2 DEF NoHolds
<1>3. /\ bookings' = Without(bookings, SeedBookings)
      /\ UNCHANGED <<bookers, accommodations, roomTypes, inventories>>
    BY <1>2 DEF DeleteBookings
<1>4. /\ DOMAIN bookings' = DOMAIN bookings \ SeedBookings
      /\ \A b \in DOMAIN bookings \ SeedBookings : bookings'[b] = bookings[b]
    BY <1>3 DEF Without, Restrict
<1>5. SeedRooms' = SeedRooms
    BY <1>3 DEF SeedRooms, RoomTypesOf, InnsOf
<1>6. SeedBookings' = {}
    BY <1>4, <1>5 DEF SeedBookings, BookingsIn
<1>7. NoHolds'
    BY <1>1, <1>3, <1>5 DEF NoHolds
<1> QED
    BY <1>2, <1>6, <1>7, StatementMoves DEF Phase

LEMMA DeleteInventoriesLeaves ==
    ASSUME TablesOK, DeleteInventories, Phase(3)
    PROVE  Accepted(3) /\ Phase(4)'
<1>1. NoHolds /\ SeedBookings = {}
    BY DEF Phase
<1>2. HeldIn(SeedRooms) = {}
    BY <1>1 DEF HeldIn, NoHolds
<1>3. /\ inventories' = Without(inventories, SeedRooms)
      /\ UNCHANGED <<bookers, accommodations, roomTypes, bookings>>
    BY <1>2 DEF DeleteInventories
<1>4. DOMAIN inventories' = DOMAIN inventories \ SeedRooms
    BY <1>3 DEF Without, Restrict
<1>5. SeedRooms' = SeedRooms
    BY <1>3 DEF SeedRooms, RoomTypesOf, InnsOf
<1>6. SeedRooms' \cap DOMAIN inventories' = {}
    BY <1>4, <1>5
<1>7. NoHolds'
    BY <1>6 DEF NoHolds
<1>8. SeedBookings' = {}
    BY <1>1, <1>3, <1>5 DEF SeedBookings, BookingsIn
<1> QED
    BY <1>2, <1>6, <1>7, <1>8, StatementMoves DEF Phase

LEMMA DeleteRoomTypesLeaves ==
    ASSUME DeleteRoomTypes, Phase(4)
    PROVE  Accepted(4) /\ Phase(5)'
<1>1. SeedBookings = {} /\ SeedRooms \cap DOMAIN inventories = {}
    BY DEF Phase
<1>2. /\ roomTypes' = Without(roomTypes, SeedRooms)
      /\ UNCHANGED <<bookers, accommodations, inventories, bookings>>
    BY <1>1 DEF DeleteRoomTypes
<1>3. /\ DOMAIN roomTypes' = DOMAIN roomTypes \ SeedRooms
      /\ \A t \in DOMAIN roomTypes \ SeedRooms : roomTypes'[t] = roomTypes[t]
    BY <1>2 DEF Without, Restrict
<1>4. SeedRooms' = {}
    BY <1>2, <1>3 DEF SeedRooms, RoomTypesOf, InnsOf
<1>5. NoHolds' /\ SeedBookings' = {} /\ SeedRooms' \cap DOMAIN inventories' = {}
    BY <1>4 DEF NoHolds, SeedBookings, BookingsIn
<1> QED
    BY <1>1, <1>4, <1>5, StatementMoves DEF Phase

LEMMA DeleteAccommodationsLeaves ==
    ASSUME DeleteAccommodations, Phase(5)
    PROVE  Accepted(5) /\ Phase(6)'
<1>1. SeedRooms = {}
    BY DEF Phase
<1>2. /\ accommodations' = Without(accommodations, InnsOf(marker))
      /\ UNCHANGED <<bookers, roomTypes, inventories, bookings>>
    BY <1>1 DEF DeleteAccommodations
<1>3. /\ DOMAIN accommodations' = DOMAIN accommodations \ InnsOf(marker)
      /\ \A a \in DOMAIN accommodations \ InnsOf(marker) : accommodations'[a] = accommodations[a]
    BY <1>2 DEF Without, Restrict
<1>4. InnsOf(marker)' = {}
    BY <1>3 DEF InnsOf
<1>5. SeedRooms' = {}
    BY <1>4 DEF SeedRooms, RoomTypesOf
<1>6. NoHolds' /\ SeedBookings' = {} /\ SeedRooms' \cap DOMAIN inventories' = {}
    BY <1>5 DEF NoHolds, SeedBookings, BookingsIn
<1> QED
    BY <1>1, <1>4, <1>5, <1>6, StatementMoves DEF Phase

LEMMA DeleteBookersLeaves ==
    ASSUME TablesOK, DeleteBookers, Phase(6)
    PROVE  Accepted(6) /\ Phase(7)'
<1>1. InnsOf(marker) = {} /\ SeedRooms = {}
    BY DEF Phase
<1>2. Unreferenced
    BY <1>1 DEF Unreferenced, TablesOK, BookersOK, BookingsOK
<1>3. PICK gone : gone = {m \in DOMAIN bookers : bookers[m] \in Range(SeedMembers)}
    OBVIOUS
<1>4. /\ bookers' = Without(bookers, gone)
      /\ UNCHANGED <<accommodations, roomTypes, inventories, bookings>>
    BY <1>2, <1>3 DEF DeleteBookers, Unreferenced
<1>5. /\ DOMAIN bookers' = DOMAIN bookers \ gone
      /\ \A m \in DOMAIN bookers \ gone : bookers'[m] = bookers[m]
    BY <1>4 DEF Without, Restrict
<1>6. NoSeedMembers'
    BY <1>3, <1>5 DEF NoSeedMembers
<1>7. InnsOf(marker)' = {} /\ SeedRooms' = {}
    BY <1>1, <1>4 DEF SeedRooms, RoomTypesOf, InnsOf
<1>8. NoHolds' /\ SeedBookings' = {} /\ SeedRooms' \cap DOMAIN inventories' = {}
    BY <1>7 DEF NoHolds, SeedBookings, BookingsIn
<1> QED
    BY <1>2, <1>6, <1>7, <1>8, StatementMoves DEF Phase

LEMMA InsertAccommodationsLeaves ==
    ASSUME TablesOK, InsertAccommodations, Phase(7)
    PROVE  Accepted(7) /\ Phase(8)'
<1>1. InnsOf(marker) = {} /\ SeedRooms = {} /\ NoSeedMembers
    BY DEF Phase
<1>2. PICK rows, ids :
          /\ Extended(accommodations, accommodations', usedInns, rows, ids)
          /\ Len(rows) = Inns /\ Len(rows) \in Nat
          /\ \A j \in 1 .. Len(rows) : rows[j] = marker
    BY InnRows
<1>3. UNCHANGED <<bookers, roomTypes, inventories, bookings>>
    BY DEF InsertAccommodations
<1>4. /\ \A a \in DOMAIN accommodations :
            a \in DOMAIN accommodations' /\ accommodations'[a] = accommodations[a]
      /\ \A a \in DOMAIN accommodations' :
            a \notin DOMAIN accommodations => accommodations'[a] = marker
    BY <1>2 DEF Extended
<1>5. /\ Range(ids) = DOMAIN accommodations' \ DOMAIN accommodations
      /\ Cardinality(Range(ids)) = Inns
    BY <1>2, ExtendedCount
<1>6. InnsOf(marker)' = Range(ids)
    BY <1>1, <1>4, <1>5 DEF InnsOf
<1>7. SeedRooms' = {}
    <2>1. \A t \in DOMAIN roomTypes : roomTypes[t].accommodation \in DOMAIN accommodations
        BY DEF TablesOK, RoomTypesOK
    <2> QED
        BY <1>1, <1>3, <1>5, <1>6, <2>1 DEF SeedRooms, RoomTypesOf
<1>8. NoHolds' /\ SeedBookings' = {} /\ SeedRooms' \cap DOMAIN inventories' = {}
    BY <1>7 DEF NoHolds, SeedBookings, BookingsIn
<1>9. NoSeedMembers'
    BY <1>1, <1>3 DEF NoSeedMembers
<1> QED
    BY <1>5, <1>6, <1>7, <1>8, <1>9, StatementMoves DEF Phase, InnsOf

LEMMA InsertRoomTypesLeaves ==
    ASSUME TablesOK, InsertRoomTypes, Phase(8)
    PROVE  Accepted(8) /\ Phase(9)'
<1>1. SeedRooms = {} /\ NoSeedMembers /\ Cardinality(InnsOf(marker)) = Inns
    BY DEF Phase
<1>2. PICK rows, ids :
          /\ Extended(roomTypes, roomTypes', usedRoomTypes, rows, ids)
          /\ Len(rows) = Cardinality(InnsAndNumbers) /\ Len(rows) \in Nat
          /\ \A j \in 1 .. Len(rows) :
                /\ rows[j] \in [accommodation : DOMAIN accommodations, capacity : Nat \ {0}]
                /\ rows[j].accommodation \in InnsOf(marker)
    BY RoomTypeRows
<1>3. UNCHANGED <<bookers, accommodations, inventories, bookings>>
    BY DEF InsertRoomTypes
<1>4. /\ \A t \in DOMAIN roomTypes : t \in DOMAIN roomTypes' /\ roomTypes'[t] = roomTypes[t]
      /\ \A t \in DOMAIN roomTypes' :
            t \notin DOMAIN roomTypes => roomTypes'[t].accommodation \in InnsOf(marker)
    BY <1>2 DEF Extended
<1>5. /\ Range(ids) = DOMAIN roomTypes' \ DOMAIN roomTypes
      /\ Cardinality(Range(ids)) = Len(rows)
    BY <1>2, ExtendedCount
<1>6. InnsOf(marker)' = InnsOf(marker)
    BY <1>3 DEF InnsOf
<1>7. SeedRooms' = Range(ids)
    BY <1>1, <1>4, <1>5, <1>6 DEF SeedRooms, RoomTypesOf
<1>8. Len(rows) = Inns * RoomTypesPerInn
    BY <1>1, <1>2, InnsAreJoined
<1>9. \A t \in SeedRooms' : t \notin DOMAIN roomTypes
    BY <1>5, <1>7
<1>10. SeedRooms' \cap DOMAIN inventories' = {}
    BY <1>3, <1>9 DEF TablesOK, InventoriesOK
<1>11. SeedBookings' = {}
    BY <1>3, <1>9 DEF TablesOK, BookingsOK, BookingReferences, SeedBookings, BookingsIn
<1>12. NoHolds' /\ NoSeedMembers'
    BY <1>1, <1>3, <1>10 DEF NoHolds, NoSeedMembers
<1>13. Cardinality(SeedRooms') = Inns * RoomTypesPerInn /\ Cardinality(InnsOf(marker)') = Inns
    BY <1>1, <1>5, <1>6, <1>7, <1>8
<1> QED
    BY <1>10, <1>11, <1>12, <1>13, StatementMoves DEF Phase

LEMMA InsertInventoriesLeaves ==
    ASSUME InsertInventories, Phase(9)
    PROVE  Accepted(9) /\ Phase(10)'
<1>1. /\ SeedRooms \cap DOMAIN inventories = {} /\ NoSeedMembers /\ SeedBookings = {}
      /\ Cardinality(InnsOf(marker)) = Inns /\ Cardinality(SeedRooms) = Inns * RoomTypesPerInn
    BY DEF Phase
<1>2. PICK quantity \in [SeedRooms -> SeedQuantities] :
          inventories' = [t \in DOMAIN inventories \cup SeedRooms |->
                             IF t \in SeedRooms THEN Inv!NewInventory(quantity[t], 1)
                             ELSE inventories[t]]
    BY <1>1 DEF InsertInventories
<1>3. UNCHANGED <<bookers, accommodations, roomTypes, bookings>>
    BY DEF InsertInventories
<1>4. InnsOf(marker)' = InnsOf(marker) /\ SeedRooms' = SeedRooms
    BY <1>3 DEF SeedRooms, RoomTypesOf, InnsOf
<1>5. SeedRooms' \subseteq DOMAIN inventories'
    BY <1>2, <1>4
<1>6. NoHolds'
    <2>1. ASSUME NEW t \in SeedRooms
          PROVE  inventories'[t].holds = {}
        <3>1. PICK q \in Nat : q = quantity[t]
            BY <1>2, <2>1, LoadSeedAssumption
        <3>2. inventories'[t] = Inv!NewInventory(q, 1)
            BY <1>2, <2>1, <3>1
        <3> QED
            BY <3>2, NewInventoryIsEmpty
    <2> QED
        BY <1>4, <2>1 DEF NoHolds
<1>7. SeedBookings' = {} /\ NoSeedMembers'
    BY <1>1, <1>3, <1>4 DEF SeedBookings, BookingsIn, NoSeedMembers
<1> QED
    BY <1>1, <1>4, <1>5, <1>6, <1>7, StatementMoves DEF Phase

LEMMA InsertBookersLeaves ==
    ASSUME TablesOK, InsertBookers, Phase(10)
    PROVE  Accepted(10) /\ Phase(11)'
<1>1. /\ NoHolds /\ NoSeedMembers /\ SeedBookings = {} /\ SeedRooms \subseteq DOMAIN inventories
      /\ Cardinality(InnsOf(marker)) = Inns /\ Cardinality(SeedRooms) = Inns * RoomTypesPerInn
    BY DEF Phase
<1>2. BookersAreFree
    <2>1. SeedMemberIds \cap DOMAIN bookers = {}
        BY <1>1 DEF NoSeedMembers, TablesOK, BookersOK
    <2>2. \A i \in DOMAIN SeedMembers : SubjectIsFree(SeedMembers[i])
        BY <1>1 DEF NoSeedMembers, SubjectIsFree, MembersOf, Range
    <2> QED
        BY <2>1, <2>2 DEF BookersAreFree
<1>3. UNCHANGED <<accommodations, roomTypes, inventories, bookings>>
    BY DEF InsertBookers
<1>4. /\ InnsOf(marker)' = InnsOf(marker) /\ SeedRooms' = SeedRooms
      /\ SeedBookings' = SeedBookings /\ NoHolds'
    BY <1>1, <1>3 DEF SeedRooms, RoomTypesOf, InnsOf, SeedBookings, BookingsIn, NoHolds
<1> QED
    BY <1>1, <1>2, <1>3, <1>4, StatementMoves DEF Phase

LEMMA InsertBookingsLeaves ==
    ASSUME TablesOK, InsertBookings, Phase(11)
    PROVE  Accepted(11) /\ Phase(12)'
<1>1. /\ NoHolds /\ SeedBookings = {} /\ SeedRooms \subseteq DOMAIN inventories
      /\ Cardinality(InnsOf(marker)) = Inns /\ Cardinality(SeedRooms) = Inns * RoomTypesPerInn
    BY DEF Phase
<1>2. UNCHANGED <<bookers, accommodations, roomTypes, inventories>>
    BY DEF InsertBookings
<1>3. PICK rows, ids : \E m \in SeedMemberIds :
          /\ Extended(bookings, bookings', usedBookings, rows, ids)
          /\ Len(rows) \in Nat
          /\ \A j \in 1 .. Len(rows) :
                /\ rows[j] \in BookingRow
                /\ rows[j].booker = m /\ rows[j].roomType \in SeedRooms
                /\ rows[j].guests = 0 /\ rows[j].status = Domain!Confirmed
          /\ \A t \in SeedRooms \cap DOMAIN inventories :
                Cardinality({j \in 1 .. Len(rows) : rows[j].roomType = t})
                   <= inventories[t].quantityAvailable
    BY BookingRows
<1>4. PICK n \in Nat : n = Len(rows)
    BY <1>3
<1>5. /\ \A b \in DOMAIN bookings : b \in DOMAIN bookings' /\ bookings'[b] = bookings[b]
      /\ \A b \in DOMAIN bookings' : b \notin DOMAIN bookings =>
            \E j \in 1 .. n : b = ids[j] /\ bookings'[b] = rows[j]
      /\ \A j \in 1 .. n : rows[j].guests = 0 /\ rows[j].status = Domain!Confirmed
      /\ \A t \in SeedRooms \cap DOMAIN inventories :
            Cardinality({j \in 1 .. n : rows[j].roomType = t}) <= inventories[t].quantityAvailable
    BY <1>3, <1>4 DEF Extended
<1>6. InnsOf(marker)' = InnsOf(marker) /\ SeedRooms' = SeedRooms /\ NoHolds'
    BY <1>1, <1>2 DEF SeedRooms, RoomTypesOf, InnsOf, NoHolds
<1>7. \A b \in SeedBookings' : b \notin DOMAIN bookings
    BY <1>1, <1>5, <1>6 DEF SeedBookings, BookingsIn
<1>8. \A b \in SeedBookings' : Seeded(b, 0)'
    BY <1>5, <1>7 DEF Seeded, SeedBookings, BookingsIn
<1>9. ASSUME NEW t \in SeedRooms
      PROVE  Cardinality(BookingsIn({t})') <= inventories[t].quantityAvailable
    <2>1. PICK J, B, f : /\ J = {j \in 1 .. n : rows[j].roomType = t} /\ B = BookingsIn({t})'
                         /\ f = [j \in J |-> ids[j]]
        OBVIOUS
    <2>2. IsFiniteSet(J)
        <3>1. IsFiniteSet(1 .. n)
            BY FS_Interval
        <3>2. J \in SUBSET (1 .. n)
            BY <2>1
        <3> QED
            BY <3>1, <3>2, FS_Subset
    <2>3. ASSUME NEW b \in B
          PROVE  b \in {f[j] : j \in J}
        <3>1. b \in DOMAIN bookings' /\ bookings'[b].roomType = t
            BY <2>1 DEF BookingsIn
        <3>2. b \notin DOMAIN bookings
            BY <1>6, <1>7, <3>1 DEF SeedBookings, BookingsIn
        <3>3. PICK j \in 1 .. n : b = ids[j] /\ bookings'[b] = rows[j]
            BY <1>5, <3>1, <3>2
        <3>4. j \in J /\ f[j] = b
            BY <2>1, <3>1, <3>3
        <3> QED
            BY <3>4
    <2>4. DOMAIN f = J
        BY <2>1
    <2>5. IsFiniteSet({f[j] : j \in J}) /\ Cardinality({f[j] : j \in J}) <= Cardinality(J)
        BY <2>2, <2>4, ImageIsFinite
    <2>6. PICK F : F = {f[j] : j \in J}
        OBVIOUS
    <2>7. B \in SUBSET F
        BY <2>3, <2>6
    <2>8. IsFiniteSet(B) /\ Cardinality(B) <= Cardinality(F)
        BY <2>5, <2>6, <2>7, FS_Subset
    <2>9. PICK q : q = inventories[t].quantityAvailable
        OBVIOUS
    <2>10. /\ Cardinality(B) \in Nat /\ Cardinality(F) \in Nat /\ Cardinality(J) \in Nat
           /\ q \in Nat
        <3>1. inventories[t] \in Inv!InventoryType
            BY <1>1 DEF TablesOK, InventoriesOK
        <3> QED
            BY <2>2, <2>5, <2>6, <2>8, <2>9, <3>1, FS_CardinalityType DEF Inv!InventoryType
    <2>11. Cardinality(J) <= q
        BY <1>1, <1>5, <2>1, <2>9
    <2>12. Cardinality(B) <= q
        BY <2>5, <2>6, <2>8, <2>10, <2>11
    <2> QED
        BY <2>1, <2>9, <2>12
<1>10. BookingsFit'
    <2>1. \A t : BookingsIn({t})' = {b \in DOMAIN bookings' : bookings'[b].roomType \in {t}}
        BY DEF BookingsIn
    <2> QED
        BY <1>2, <1>6, <1>9 DEF BookingsFit
<1> QED
    BY <1>1, <1>2, <1>6, <1>8, <1>10, StatementMoves DEF Phase

\* Within a room type no two bookings have the same number.
LEMMA NumbersAreDistinct ==
    ASSUME TablesOK, NEW slot \in RowNumbers, NEW t \in SeedRooms,
           NEW a \in BookingsIn({t}), NEW b \in BookingsIn({t}), slot[a] = slot[b]
    PROVE  a = b
<1>0. PICK B, n, f : /\ B = BookingsIn({t}) /\ n = Cardinality(B)
                     /\ f = [x \in B |-> slot[x]]
    OBVIOUS
<1>1. IsFiniteSet(B) /\ n \in Nat
    <2>1. B \subseteq DOMAIN bookings
        BY <1>0 DEF BookingsIn
    <2> QED
        BY <1>0, <2>1, FS_Subset, FS_CardinalityType DEF TablesOK, BookingsOK
<1>2. {slot[x] : x \in B} = 1 .. n
    BY <1>0 DEF RowNumbers
<1>3. f \in Surjection(B, 1 .. n)
    BY <1>0, <1>2 DEF Surjection
<1>4. Cardinality(1 .. n) = n
    BY <1>1, FS_Interval
<1>5. f \in Injection(B, 1 .. n)
    BY <1>0, <1>1, <1>3, <1>4, FS_Surjection
<1>6. f[a] = f[b] /\ a \in DOMAIN f /\ b \in DOMAIN f
    BY <1>0
<1> QED
    BY <1>5, <1>6 DEF Injection, IsInjective

LEMMA InsertHoldsLeaves ==
    ASSUME TablesOK, InsertHolds, Phase(12)
    PROVE  Accepted(12) /\ Phase(13)'
<1>1. /\ NoHolds /\ SeedRooms \subseteq DOMAIN inventories /\ BookingsFit
      /\ \A b \in SeedBookings : Seeded(b, 0)
      /\ Cardinality(InnsOf(marker)) = Inns /\ Cardinality(SeedRooms) = Inns * RoomTypesPerInn
    BY DEF Phase
<1>2. UNCHANGED <<bookers, accommodations, roomTypes, bookings>>
    BY DEF InsertHolds
<1>3. \A t \in SeedRooms : Registered(t) /\ Inv!UsedSlots(inventories[t]) = {}
    BY <1>1 DEF NoHolds, Registered, Inv!UsedSlots
<1>4. PICK slot \in RowNumbers :
          LET accepted == \A t \in SeedRooms :
                             /\ BookingsIn({t}) # {} => Registered(t)
                             /\ Registered(t) => {slot[b] : b \in BookingsIn({t})} \cap
                                                   Inv!UsedSlots(inventories[t]) = {}
          IN /\ Exec("insert_holds", accepted)
             /\ inventories' = IF ~accepted THEN inventories
                               ELSE [t \in DOMAIN inventories |->
                                       IF t \in SeedRooms
                                       THEN [inventories[t] EXCEPT !.holds = @ \cup NewHolds(slot, t)]
                                       ELSE inventories[t]]
    BY DEF InsertHolds, NewHolds
<1>5. \A t \in SeedRooms :
          /\ BookingsIn({t}) # {} => Registered(t)
          /\ Registered(t) => {slot[b] : b \in BookingsIn({t})} \cap Inv!UsedSlots(inventories[t]) = {}
    BY <1>3
<1>6. /\ Exec("insert_holds", TRUE)
      /\ inventories' = [t \in DOMAIN inventories |->
                            IF t \in SeedRooms
                            THEN [inventories[t] EXCEPT !.holds = @ \cup NewHolds(slot, t)]
                            ELSE inventories[t]]
    BY <1>4, <1>5
<1>7. Accepted(12)
    <2>1. Exec(Statements[12], TRUE)
        BY <1>6, StatementNames
    <2> QED
        BY <2>1, ExecMoves
<1>8. ASSUME NEW t \in SeedRooms
      PROVE  /\ t \in DOMAIN inventories' /\ inventories'[t].holds = NewHolds(slot, t)
             /\ inventories'[t].quantityAvailable = inventories[t].quantityAvailable
    <2>1. t \in DOMAIN inventories /\ inventories[t].holds = {}
        BY <1>1 DEF NoHolds
    <2>2. inventories'[t] = [inventories[t] EXCEPT !.holds = inventories[t].holds \cup NewHolds(slot, t)]
        BY <1>6, <2>1
    <2>3. inventories[t] \in Inv!InventoryType
        BY <2>1 DEF TablesOK, InventoriesOK
    <2> QED
        BY <1>6, <2>1, <2>2, <2>3 DEF Inv!InventoryType
<1>9. /\ InnsOf(marker)' = InnsOf(marker) /\ SeedRooms' = SeedRooms
      /\ SeedBookings' = SeedBookings
    BY <1>2 DEF SeedRooms, RoomTypesOf, InnsOf, SeedBookings, BookingsIn
<1>10. ASSUME NEW t \in SeedRooms, NEW g \in NewHolds(slot, t), NEW h \in NewHolds(slot, t),
              g.bookingId = h.bookingId
       PROVE  g = h
    BY <1>10 DEF NewHolds
<1>11. SlotsFit'
    <2>1. ASSUME NEW t \in SeedRooms
          PROVE  Inv!UsedSlots(inventories'[t]) \subseteq 1 .. inventories'[t].quantityAvailable
        <3>1. PICK n, q : n = Cardinality(BookingsIn({t})) /\ q = inventories[t].quantityAvailable
            OBVIOUS
        <3>2. n <= q
            BY <1>1, <2>1, <3>1 DEF BookingsFit
        <3>3. n \in Nat /\ q \in Nat
            <4>1. BookingsIn({t}) \subseteq DOMAIN bookings
                BY DEF BookingsIn
            <4>2. inventories[t] \in Inv!InventoryType
                BY <1>1, <2>1 DEF TablesOK, InventoriesOK
            <4> QED
                BY <3>1, <4>1, <4>2, FS_Subset, FS_CardinalityType
                DEF TablesOK, BookingsOK, Inv!InventoryType
        <3>4. \A h \in NewHolds(slot, t) : h.slotNo \in 1 .. n
            BY <2>1, <3>1, HoldsNumbered
        <3>5. \A h \in NewHolds(slot, t) : h.slotNo \in 1 .. q
            BY <3>2, <3>3, <3>4
        <3> QED
            BY <1>8, <2>1, <3>1, <3>5 DEF Inv!UsedSlots
    <2>2. ASSUME NEW t \in SeedRooms, NEW g \in NewHolds(slot, t), NEW h \in NewHolds(slot, t),
                 g.slotNo = h.slotNo
          PROVE  g = h
        <3>1. /\ g.bookingId \in BookingsIn({t}) /\ g.slotNo = slot[g.bookingId]
              /\ h.bookingId \in BookingsIn({t}) /\ h.slotNo = slot[h.bookingId]
            BY <2>2, HoldsNumbered
        <3>2. g.bookingId = h.bookingId
            BY <2>2, <3>1, NumbersAreDistinct
        <3> QED
            BY <1>10, <2>2, <3>2
    <2> QED
        BY <1>8, <1>9, <2>1, <2>2 DEF SlotsFit, Registered
<1>12. ASSUME NEW b \in SeedBookings
       PROVE  Housed(b)' /\ Seeded(b, 0)'
    <2>1. PICK t : t = bookings[b].roomType
        OBVIOUS
    <2>2. t \in SeedRooms /\ b \in BookingsIn({t}) /\ bookings'[b].roomType = t
        BY <1>2, <1>12, <2>1 DEF SeedBookings, BookingsIn
    <2>3. PICK h \in NewHolds(slot, t) : h.bookingId = b
        BY <2>2, HoldsNumbered
    <2>4. h.status = Inv!HoldConfirmed
        BY <2>2, HoldsNumbered
    <2>5. inventories'[t].holds = NewHolds(slot, t) /\ t \in DOMAIN inventories'
        BY <1>8, <2>2
    <2>6. Inv!HoldsOf(inventories'[t], b) = {h}
        BY <1>10, <2>2, <2>3, <2>5 DEF Inv!HoldsOf
    <2>7. h \in HoldsOf(t)'
        BY <2>5 DEF HoldsOf, Registered
    <2>8. Housed(b)'
        BY <1>2, <2>1, <2>4, <2>6, <2>7 DEF Housed
    <2>9. Seeded(b, 0)'
        BY <1>1, <1>2, <1>12 DEF Seeded
    <2> QED
        BY <2>8, <2>9
<1> QED
    BY <1>1, <1>7, <1>8, <1>9, <1>11, <1>12 DEF Phase

LEMMA InsertGuestsLeaves ==
    ASSUME TablesOK, RunsOK, InsertGuests, Phase(13)
    PROVE  Accepted(13) /\ Consistent'
<1>1. /\ SlotsFit /\ \A b \in SeedBookings : Housed(b) /\ Seeded(b, 0)
      /\ Cardinality(InnsOf(marker)) = Inns /\ Cardinality(SeedRooms) = Inns * RoomTypesPerInn
    BY DEF Phase
<1>2. UNCHANGED <<bookers, accommodations, roomTypes, inventories>>
    BY DEF InsertGuests
<1>3. bookings' = [b \in DOMAIN bookings |->
                      IF b \in SeedBookings THEN [bookings[b] EXCEPT !.guests = @ + 1]
                      ELSE bookings[b]]
    BY DEF InsertGuests
<1>4. InnsOf(marker)' = InnsOf(marker) /\ SeedRooms' = SeedRooms
    BY <1>2 DEF SeedRooms, RoomTypesOf, InnsOf
<1>5. SlotsFit'
    BY <1>1, <1>2, <1>4 DEF SlotsFit, Registered
<1>6. Accepted(13) /\ SeedMemberIds \subseteq DOMAIN bookers
    <2>1. Accepted(13)
        BY StatementMoves
    <2>2. seed = "insert_guests"
        BY <2>1, StatementNames DEF Accepted
    <2> QED
        BY <2>1, <2>2 DEF RunsOK
<1>7. ASSUME NEW b \in DOMAIN bookings', bookings'[b].booker \in SeedMemberIds
      PROVE  Seeded(b, 1)' /\ Housed(b)'
    <2>1. b \in DOMAIN bookings /\ bookings[b] \in BookingRow
        BY <1>3 DEF TablesOK, BookingsOK
    <2>2. b \in SeedBookings
        <3>1. CASE b \notin SeedBookings
            <4>1. bookings'[b] = bookings[b]
                BY <1>3, <2>1, <3>1
            <4> QED
                BY <1>7, <2>1, <3>1, <4>1 DEF TablesOK, BookingsOK, SeedBookings, BookingsIn
        <3> QED
            BY <3>1
    <2>3. bookings'[b] = [bookings[b] EXCEPT !.guests = bookings[b].guests + 1]
        BY <1>3, <2>1, <2>2
    <2>4. /\ bookings'[b].status = bookings[b].status
          /\ bookings'[b].roomType = bookings[b].roomType
          /\ bookings'[b].guests = bookings[b].guests + 1
        BY <2>1, <2>3 DEF BookingRow
    <2>5. bookings[b].status = Domain!Confirmed /\ bookings[b].guests = 0 /\ Housed(b)
        BY <1>1, <2>2 DEF Seeded
    <2>6. Housed(b)'
        BY <1>2, <2>4, <2>5 DEF Housed, HoldsOf, Registered
    <2> QED
        BY <2>4, <2>5, <2>6 DEF Seeded
<1> QED
    BY <1>1, <1>2, <1>4, <1>5, <1>6, <1>7 DEF Consistent

-----------------------------------------------------------------------------
(* A run that nothing disturbs goes from statement to statement *)

LEMMA QuietStatement ==
    ASSUME TablesOK, RunsOK, SeedStep, NEW i \in 1 .. 13, seed = Statements[i], Phase(i)
    PROVE  \/ SeedKilled
           \/ i # 13 /\ seed' = Statements[i + 1] /\ Phase(i + 1)'
           \/ i = 13 /\ seed' = "done" /\ Consistent'
<1> DEFINE Goal == \/ SeedKilled
                   \/ i # 13 /\ seed' = Statements[i + 1] /\ Phase(i + 1)'
                   \/ i = 13 /\ seed' = "done" /\ Consistent'
<1>1. ASSUME NEW j \in 1 .. 13, Accepted(j) \/ Refused(j)
      PROVE  i = j
    BY <1>1, StatementNumber DEF Accepted, Refused
<1>2. CASE DeleteStatement
    <2>1. CASE DeleteHolds
        <3>1. i = 1
            BY <1>1, <2>1, StatementMoves
        <3> QED
            BY <2>1, <3>1, DeleteHoldsLeaves DEF Accepted
    <2>2. CASE DeleteBookings
        <3>1. i = 2
            BY <1>1, <2>2, StatementMoves
        <3> QED
            BY <2>2, <3>1, DeleteBookingsLeaves DEF Accepted
    <2>3. CASE DeleteInventories
        <3>1. i = 3
            BY <1>1, <2>3, StatementMoves
        <3> QED
            BY <2>3, <3>1, DeleteInventoriesLeaves DEF Accepted
    <2>4. CASE DeleteRoomTypes
        <3>1. i = 4
            BY <1>1, <2>4, StatementMoves
        <3> QED
            BY <2>4, <3>1, DeleteRoomTypesLeaves DEF Accepted
    <2>5. CASE DeleteAccommodations
        <3>1. i = 5
            BY <1>1, <2>5, StatementMoves
        <3> QED
            BY <2>5, <3>1, DeleteAccommodationsLeaves DEF Accepted
    <2>6. CASE DeleteBookers
        <3>1. i = 6
            BY <1>1, <2>6, StatementMoves
        <3> QED
            BY <2>6, <3>1, DeleteBookersLeaves DEF Accepted
    <2> QED
        BY <1>2, <2>1, <2>2, <2>3, <2>4, <2>5, <2>6 DEF DeleteStatement
<1>3. CASE InsertStatement
    <2>1. CASE InsertAccommodations
        <3>1. i = 7
            BY <1>1, <2>1, StatementMoves
        <3> QED
            BY <2>1, <3>1, InsertAccommodationsLeaves DEF Accepted
    <2>2. CASE InsertRoomTypes
        <3>1. i = 8
            BY <1>1, <2>2, StatementMoves
        <3> QED
            BY <2>2, <3>1, InsertRoomTypesLeaves DEF Accepted
    <2>3. CASE InsertInventories
        <3>1. i = 9
            BY <1>1, <2>3, StatementMoves
        <3> QED
            BY <2>3, <3>1, InsertInventoriesLeaves DEF Accepted
    <2>4. CASE InsertBookers
        <3>1. i = 10
            BY <1>1, <2>4, StatementMoves
        <3> QED
            BY <2>4, <3>1, InsertBookersLeaves DEF Accepted
    <2>5. CASE InsertBookings
        <3>1. i = 11
            BY <1>1, <2>5, StatementMoves
        <3> QED
            BY <2>5, <3>1, InsertBookingsLeaves DEF Accepted
    <2>6. CASE InsertHolds
        <3>1. i = 12
            BY <1>1, <2>6, InsertHoldsMoves
        <3> QED
            BY <2>6, <3>1, InsertHoldsLeaves DEF Accepted
    <2>7. CASE InsertGuests
        <3>1. i = 13
            BY <1>1, <2>7, StatementMoves
        <3> QED
            BY <2>7, <3>1, InsertGuestsLeaves DEF Accepted
    <2> QED
        BY <1>3, <2>1, <2>2, <2>3, <2>4, <2>5, <2>6, <2>7 DEF InsertStatement
<1> QED
    BY <1>2, <1>3 DEF SeedStep

LEMMA NotAStatement ==
    ASSUME NEW i \in 1 .. 13
    PROVE  Statements[i] \notin {"idle", "done", "failed", "killed"}
<1>1. \/ i = 1 \/ i = 2 \/ i = 3 \/ i = 4 \/ i = 5 \/ i = 6 \/ i = 7 \/ i = 8 \/ i = 9 \/ i = 10
      \/ i = 11 \/ i = 12 \/ i = 13
    OBVIOUS
<1> QED
    BY <1>1, StatementNames

\* loadseed's own steps, and that the database refuses it none of them.
LEMMA SeedStepKeeps ==
    ASSUME OwnInv, SeedInv, SeedStep, UNCHANGED <<requests, prep, disturbed>>
    PROVE  SeedInv' /\ (~disturbed => seed' # "failed")
<1>1. TablesOK /\ RunsOK /\ SeedRuns
    BY SeedStepEffect DEF OwnInv
<1>2. PICK i \in 1 .. 13 : seed = Statements[i]
    BY <1>1, SeedRunsAt
<1>3. seed # "idle" /\ ~PrepRuns
    BY <1>2, NotAStatement DEF SeedInv
<1>4. ~PrepRuns'
    BY <1>3 DEF PrepRuns
<1>5. ASSUME ~disturbed
      PROVE  /\ \A k \in 1 .. 13 : seed' = Statements[k] => Phase(k)'
             /\ seed' = "done" => Consistent'
             /\ seed' # "failed"
    <2>1. Phase(i)
        BY <1>2, <1>5 DEF SeedInv
    <2>2. CASE SeedKilled
        <3>1. seed' = "killed"
            BY <2>2 DEF SeedKilled
        <3> QED
            BY <3>1, NotAStatement
    <2>3. CASE i # 13 /\ seed' = Statements[i + 1] /\ Phase(i + 1)'
        <3>1. PICK j \in 1 .. 13 : j = i + 1
            BY <2>3
        <3>2. seed' = Statements[j] /\ Phase(j)'
            BY <2>3, <3>1
        <3>3. \A k \in 1 .. 13 : seed' = Statements[k] => k = j
            BY <3>2, StatementNumber
        <3> QED
            BY <3>2, <3>3, NotAStatement
    <2>4. CASE i = 13 /\ seed' = "done" /\ Consistent'
        BY <2>4, NotAStatement
    <2> QED
        BY <1>1, <1>2, <2>1, <2>2, <2>3, <2>4, QuietStatement
<1>6. ASSUME ~disturbed'
      PROVE  /\ \A k \in 1 .. 13 : seed' = Statements[k] => Phase(k)'
             /\ seed' = "done" => Consistent'
    <2>1. ~disturbed
        BY <1>6, Zenon
    <2> QED
        BY <1>5, <2>1
<1> QED
    BY <1>4, <1>5, <1>6 DEF SeedInv

-----------------------------------------------------------------------------
(* What the API leaves of a run that it does not disturb *)

LEMMA RequestWritesNoMember ==
    ASSUME NEW r \in Requests, Request(r)
    PROVE  UNCHANGED bookers
BY DEF Request, BeginRoomType, BeginInventory, BeginBook, BeginCancel, Begin, tables,
       CreateRoomType, OperateInventory, ReadCapacity, CreateBooking, HoldNight, SaveBooking,
       CancelBooking, ReleaseNight, Cut

LEMMA NoSeedMembersStay ==
    ASSUME API, NoSeedMembers
    PROVE  NoSeedMembers'
<1>1. CASE \E s \in Guests : CreateBooker(s)
    <2>1. PICK s \in Guests : CreateBooker(s)
        BY <1>1
    <2>2. PICK id : bookers' = Put(bookers, id, s)
        BY <2>1 DEF CreateBooker
    <2>3. s \notin Range(SeedMembers)
        BY SubjectsAssumption
    <2> QED
        BY <2>2, <2>3 DEF NoSeedMembers, Put
<1>2. CASE UNCHANGED bookers
    BY <1>2 DEF NoSeedMembers
<1> QED
    BY <1>1, <1>2, RequestWritesNoMember DEF API, CreateAccommodation

LEMMA PhaseIsKept ==
    ASSUME LeavesAlone(marker), SameRows(marker), NoSeedMembers => NoSeedMembers',
           NEW k \in 1 .. 13, Phase(k)
    PROVE  Phase(k)'
<1>1. /\ SeedRooms' = SeedRooms /\ InnsOf(marker)' = InnsOf(marker)
      /\ SeedBookings' = SeedBookings
      /\ \A b \in SeedBookings : bookings'[b] = bookings[b]
      /\ \A t \in SeedRooms : /\ t \in DOMAIN inventories' <=> t \in DOMAIN inventories
                              /\ t \in DOMAIN inventories => inventories'[t] = inventories[t]
    BY DEF LeavesAlone, SameRows, SeedRooms, SeedBookings, Registered
<1>2. SeedRooms' \cap DOMAIN inventories' = SeedRooms \cap DOMAIN inventories
    BY <1>1
<1>3. NoHolds => NoHolds'
    BY <1>1, <1>2 DEF NoHolds
<1>4. SeedRooms \subseteq DOMAIN inventories => SeedRooms' \subseteq DOMAIN inventories'
    BY <1>1
<1>5. ASSUME SeedRooms \subseteq DOMAIN inventories, BookingsFit
      PROVE  BookingsFit'
    <2>1. ASSUME NEW t \in SeedRooms
          PROVE  Cardinality(BookingsIn({t})') <= inventories'[t].quantityAvailable
        <3>1. BookingsIn({t})' = BookingsIn({t})
            BY <1>1 DEF BookingsIn, SeedBookings
        <3>2. inventories'[t] = inventories[t]
            BY <1>1, <1>5
        <3> QED
            BY <1>5, <3>1, <3>2 DEF BookingsFit
    <2> QED
        BY <1>1, <2>1 DEF BookingsFit
<1>6. ASSUME NEW n, \A b \in SeedBookings : Seeded(b, n)
      PROVE  (\A b \in SeedBookings : Seeded(b, n))'
    BY <1>1, <1>6 DEF Seeded
<1>7. SlotsFit => SlotsFit'
    BY <1>1 DEF SlotsFit, Registered
<1>8. ASSUME SlotsFit, \A b \in SeedBookings : Housed(b)
      PROVE  (\A b \in SeedBookings : Housed(b))'
    <2>1. ASSUME NEW b \in SeedBookings
          PROVE  Housed(b)'
        <3>0. PICK t : t = bookings[b].roomType
            OBVIOUS
        <3>1. bookings'[b].roomType = t /\ t \in SeedRooms
            BY <1>1, <3>0 DEF SeedBookings, BookingsIn
        <3>2. Registered(t) /\ Registered(t)' /\ inventories'[t] = inventories[t]
            BY <1>1, <1>8, <3>1 DEF SlotsFit, Registered
        <3>3. PICK h \in HoldsOf(t) :
                  h.status = Inv!HoldConfirmed /\ Inv!HoldsOf(inventories[t], b) = {h}
            BY <1>8, <3>0 DEF Housed
        <3>4. h \in HoldsOf(t)' /\ Inv!HoldsOf(inventories'[t], b) = {h}
            BY <3>2, <3>3 DEF HoldsOf
        <3> QED
            BY <3>1, <3>3, <3>4 DEF Housed
    <2> QED
        BY <1>1, <2>1
<1>9. /\ k = 12 => BookingsFit'
      /\ k \in 12 .. 13 => (\A b \in SeedBookings : Seeded(b, 0))'
      /\ k = 13 => SlotsFit' /\ (\A b \in SeedBookings : Housed(b))'
    <2>1. CASE k = 12
        <3>1. SeedRooms \subseteq DOMAIN inventories /\ BookingsFit
                 /\ \A b \in SeedBookings : Seeded(b, 0)
            BY <2>1 DEF Phase
        <3> QED
            BY <1>5, <1>6, <2>1, <3>1
    <2>2. CASE k = 13
        <3>1. SlotsFit /\ (\A b \in SeedBookings : Housed(b))
                 /\ \A b \in SeedBookings : Seeded(b, 0)
            BY <2>2 DEF Phase
        <3> QED
            BY <1>6, <1>7, <1>8, <2>2, <3>1
    <2> QED
        BY <2>1, <2>2
<1> QED
    BY <1>1, <1>2, <1>3, <1>4, <1>9 DEF Phase

-----------------------------------------------------------------------------
(* What the API leaves of a run that has ended *)

LEMMA GuestsAreNotSeeded ==
    ASSUME TablesOK, NEW s \in Guests, NEW m \in MembersOf(s)
    PROVE  m \notin SeedMemberIds
BY SubjectsAssumption DEF TablesOK, BookersOK, MembersOf

\* The rows of bookings that are written are guests' own, before and after.
LEMMA SeededRowsStay ==
    ASSUME TablesOK, RequestsOK, API
    PROVE  \A b \in DOMAIN bookings' : bookings'[b].booker \in SeedMemberIds =>
              b \in DOMAIN bookings /\ bookings'[b] = bookings[b]
<1> DEFINE Goal == \A b \in DOMAIN bookings' : bookings'[b].booker \in SeedMemberIds =>
                      b \in DOMAIN bookings /\ bookings'[b] = bookings[b]
<1>1. CASE UNCHANGED bookings
    BY <1>1
<1>2. ASSUME NEW b, NEW k, k.booker \notin SeedMemberIds, bookings' = Put(bookings, b, k)
      PROVE  Goal
    BY <1>2 DEF Put
<1>3. ASSUME NEW r \in Requests, CreateBooking(r)
      PROVE  Goal
    <2>1. PICK q : q = requests[r]
        OBVIOUS
    <2>2. q \in BookRequest /\ Owned(q) /\ q.pc = "create"
        BY <1>3, <2>1, RequestForms DEF RequestsOK, CreateBooking, At
    <2>3. q.row.booker \notin SeedMemberIds
        BY <2>2, GuestsAreNotSeeded DEF Owned, BookRequest
    <2>4. PICK b : b = NewId(usedBookings)
        OBVIOUS
    <2>5. bookings' = Put(bookings, b, q.row) \/ UNCHANGED bookings
        BY <1>3, <2>1, <2>4 DEF CreateBooking
    <2> QED
        BY <1>1, <1>2, <2>3, <2>5
<1>4. ASSUME NEW r \in Requests, SaveBooking(r)
      PROVE  Goal
    <2>1. PICK q : q = requests[r]
        OBVIOUS
    <2>2. q \in HoldRequest /\ Owned(q) /\ q.pc = "save"
        BY <1>4, <2>1, RequestForms DEF RequestsOK, SaveBooking, At
    <2>3. q.row.booker \notin SeedMemberIds
        BY <2>2, GuestsAreNotSeeded DEF Owned, HoldRequest
    <2>4. bookings' = Put(bookings, q.booking, q.row) \/ UNCHANGED bookings
        BY <1>4, <2>1 DEF SaveBooking
    <2> QED
        BY <1>1, <1>2, <2>3, <2>4
<1>5. ASSUME NEW r \in Requests, CancelBooking(r)
      PROVE  Goal
    <2>1. PICK q, c : q = requests[r] /\ c = q.booking
        OBVIOUS
    <2>2. q \in CancelRequest /\ Owned(q) /\ q.pc = "cancel"
        BY <1>5, <2>1, RequestForms DEF RequestsOK, CancelBooking, At
    <2>3. CASE c \notin DOMAIN bookings
        BY <1>1, <1>5, <2>1, <2>3 DEF CancelBooking
    <2>4. CASE c \in DOMAIN bookings
        <3>1. bookings[c].booker \notin SeedMemberIds /\ bookings[c] \in BookingRow
            <4>1. OwnsBooking(q.subject, c) /\ q.subject \in Guests
                BY <2>1, <2>2, <2>4 DEF Owned, CancelRequest
            <4> QED
                BY <2>4, <4>1, GuestsAreNotSeeded DEF OwnsBooking, TablesOK, BookingsOK
        <3>2. bookings' = [bookings EXCEPT ![c].status = Domain!Cancelled]
            BY <1>5, <2>1, <2>4 DEF CancelBooking
        <3>3. /\ DOMAIN bookings' = DOMAIN bookings
              /\ \A b \in DOMAIN bookings : b # c => bookings'[b] = bookings[b]
              /\ bookings'[c] = [bookings[c] EXCEPT !.status = Domain!Cancelled]
            BY <2>4, <3>2
        <3>4. bookings'[c].booker = bookings[c].booker
            BY <3>1, <3>3 DEF BookingRow
        <3> QED
            BY <3>1, <3>3, <3>4
    <2> QED
        BY <2>3, <2>4
<1>6. ASSUME NEW r \in Requests, Request(r)
      PROVE  UNCHANGED bookings \/ CreateBooking(r) \/ SaveBooking(r) \/ CancelBooking(r)
    BY <1>6 DEF Request, BeginRoomType, BeginInventory, BeginBook, BeginCancel, Begin, tables,
                CreateRoomType, OperateInventory, ReadCapacity, HoldNight, ReleaseNight, Cut
<1>7. UNCHANGED bookings \/ \E r \in Requests : Request(r)
    BY DEF API, CreateBooker, CreateAccommodation
<1> QED
    BY <1>1, <1>3, <1>4, <1>5, <1>6, <1>7

\* w is v, or one hold of the booking b came or went.
OneHold(v, w, b) == \E h : HoldAdded(v, w, b, h) \/ HoldRemoved(v, w, b, h)

OfGuest(b) == b \in DOMAIN bookings /\ bookings[b].booker \notin SeedMemberIds

\* The inventories of loadseed are written for the bookings of guests only.
LEMMA SeedRoomsStay ==
    ASSUME TablesOK, RequestsOK, API, NEW t \in SeedRooms, Registered(t)
    PROVE  /\ Registered(t)'
           /\ \/ inventories'[t] = inventories[t]
              \/ \E b : OfGuest(b) /\ OneHold(inventories[t], inventories'[t], b)
<1> DEFINE Goal == /\ Registered(t)'
                   /\ \/ inventories'[t] = inventories[t]
                      \/ \E b : OfGuest(b) /\ OneHold(inventories[t], inventories'[t], b)
<1>1. CASE UNCHANGED inventories
    BY <1>1 DEF Registered
<1>2. ASSUME NEW x, NEW w, x # t, inventories' = Put(inventories, x, w)
      PROVE  Goal
    BY <1>2 DEF Put, Registered
<1>3. ASSUME NEW w, inventories' = Put(inventories, t, w)
      PROVE  Registered(t)' /\ inventories'[t] = w
    BY <1>3 DEF Put, Registered
<1>4. ASSUME NEW r \in Requests, NEW quantity \in Quantities, OperateInventory(r, quantity)
      PROVE  Goal
    <2>1. PICK q, x, s : q = requests[r] /\ x = q.roomType /\ s = q.subject
        OBVIOUS
    <2>2. q \in InventoryRequest /\ Owned(q) /\ q.pc = "inventory"
        BY <1>4, <2>1, RequestForms DEF RequestsOK, OperateInventory, At
    <2>3. x # t
        <3>1. SUFFICES ASSUME x = t PROVE FALSE
            OBVIOUS
        <3>2. t \in DOMAIN roomTypes
            BY DEF SeedRooms, RoomTypesOf
        <3>3. t \in RoomTypesOf(s) /\ s \in Operators
            BY <2>1, <2>2, <3>1, <3>2 DEF Owned, InventoryRequest
        <3>4. s # marker
            BY <3>3, SubjectsAssumption
        <3> QED
            BY <3>3, <3>4 DEF SeedRooms, RoomTypesOf, InnsOf
    <2>4. UNCHANGED inventories \/ \E w : inventories' = Put(inventories, x, w)
        BY <1>4, <2>1 DEF OperateInventory
    <2> QED
        BY <1>1, <1>2, <2>3, <2>4
<1>5. ASSUME NEW r \in Requests, HoldNight(r)
      PROVE  Goal
    <2>1. PICK q, x, b : q = requests[r] /\ x = q.row.roomType /\ b = q.booking
        OBVIOUS
    <2>2. q \in HoldRequest /\ Owned(q) /\ q.pc = "hold"
        BY <1>5, <2>1, RequestForms DEF RequestsOK, HoldNight, At
    <2>3. CASE ~CanHold(x, b)
        BY <1>1, <1>5, <2>1, <2>3 DEF HoldNight
    <2>4. CASE CanHold(x, b)
        <3>1. PICK w : w = Inv!AfterHold(inventories[x], b, 1)
            OBVIOUS
        <3>2. inventories' = Put(inventories, x, w)
            BY <1>5, <2>1, <2>4, <3>1 DEF HoldNight
        <3>3. CASE x # t
            BY <1>2, <3>2, <3>3
        <3>4. CASE x = t
            <4>1. b \in DOMAIN bookings /\ Inv!CanHold(inventories[t], b, 1, 0) /\ b \in Nat
                BY <2>4, <3>4 DEF CanHold, TablesOK, BookingsOK
            <4>2. inventories[t] \in Inv!InventoryType
                BY DEF Registered, TablesOK, InventoriesOK
            <4>3. PICK h : HoldAdded(inventories[t], w, b, h)
                BY <3>1, <3>4, <4>1, <4>2, HeldSlot
            <4>4. OfGuest(b)
                BY <2>1, <2>2, <4>1, GuestsAreNotSeeded DEF OfGuest, Owned, HoldRequest
            <4>5. Registered(t)' /\ inventories'[t] = w
                BY <1>3, <3>2, <3>4
            <4> QED
                BY <4>3, <4>4, <4>5 DEF OneHold
        <3> QED
            BY <3>3, <3>4
    <2> QED
        BY <2>3, <2>4
<1>6. ASSUME NEW r \in Requests, ReleaseNight(r)
      PROVE  Goal
    <2>1. PICK q, x, b : q = requests[r] /\ x = q.roomType /\ b = q.booking
        OBVIOUS
    <2>2. q \in ReleaseRequest /\ Owned(q) /\ q.pc = "release"
        BY <1>6, <2>1, RequestForms DEF RequestsOK, ReleaseNight, At
    <2>3. CASE ~(Registered(x) /\ Inv!CanRelease(inventories[x], b))
        BY <1>1, <1>6, <2>1, <2>3 DEF ReleaseNight
    <2>4. CASE Registered(x) /\ Inv!CanRelease(inventories[x], b)
        <3>1. PICK w : w = Inv!AfterRelease(inventories[x], b)
            OBVIOUS
        <3>2. inventories' = Put(inventories, x, w)
            BY <1>6, <2>1, <2>4, <3>1 DEF ReleaseNight
        <3>3. CASE x # t
            BY <1>2, <3>2, <3>3
        <3>4. CASE x = t
            <4>1. inventories[t] \in Inv!InventoryType
                BY DEF Registered, TablesOK, InventoriesOK
            <4>2. PICK h : HoldRemoved(inventories[t], w, b, h)
                BY <2>4, <3>1, <3>4, <4>1, ReleasedHold
            <4>3. b \in DOMAIN bookings
                BY <4>2 DEF HoldRemoved, Registered, TablesOK, InventoriesOK
            <4>4. OwnsBooking(q.subject, b) /\ q.subject \in Guests
                BY <2>1, <2>2, <4>3 DEF Owned, ReleaseRequest
            <4>5. OfGuest(b)
                BY <4>3, <4>4, GuestsAreNotSeeded DEF OfGuest, OwnsBooking
            <4>6. Registered(t)' /\ inventories'[t] = w
                BY <1>3, <3>2, <3>4
            <4> QED
                BY <4>2, <4>5, <4>6 DEF OneHold
        <3> QED
            BY <3>3, <3>4
    <2> QED
        BY <2>3, <2>4
<1>7. ASSUME NEW r \in Requests, Request(r)
      PROVE  \/ UNCHANGED inventories \/ HoldNight(r) \/ ReleaseNight(r)
             \/ \E quantity \in Quantities : OperateInventory(r, quantity)
    BY <1>7 DEF Request, BeginRoomType, BeginInventory, BeginBook, BeginCancel, Begin, tables,
                CreateRoomType, ReadCapacity, CreateBooking, SaveBooking, CancelBooking, Cut
<1>8. UNCHANGED inventories \/ \E r \in Requests : Request(r)
    BY DEF API, CreateBooker, CreateAccommodation
<1> QED
    BY <1>1, <1>4, <1>5, <1>6, <1>7, <1>8

\* A hold that comes or goes leaves the slots distinct and within the quantity, and
\* the holds of other bookings alone.
LEMMA OneHoldLeaves ==
    ASSUME NEW v, NEW w, NEW b, OneHold(v, w, b),
           Inv!UsedSlots(v) \subseteq 1 .. v.quantityAvailable,
           \A g, h \in v.holds : g.slotNo = h.slotNo => g = h
    PROVE  /\ Inv!UsedSlots(w) \subseteq 1 .. w.quantityAvailable
           /\ \A g, h \in w.holds : g.slotNo = h.slotNo => g = h
           /\ \A c : c # b => Inv!HoldsOf(w, c) = Inv!HoldsOf(v, c)
<1>1. PICK x : HoldAdded(v, w, b, x) \/ HoldRemoved(v, w, b, x)
    BY DEF OneHold
<1>2. CASE HoldAdded(v, w, b, x)
    <2>1. /\ w.holds = v.holds \cup {x} /\ w.quantityAvailable = v.quantityAvailable
          /\ x.bookingId = b /\ x.slotNo \in 1 .. v.quantityAvailable
          /\ \A h \in v.holds : h.slotNo # x.slotNo
        BY <1>2 DEF HoldAdded
    <2> QED
        BY <2>1 DEF Inv!UsedSlots, Inv!HoldsOf
<1>3. CASE HoldRemoved(v, w, b, x)
    <2>1. /\ w.holds = v.holds \ {x} /\ w.quantityAvailable = v.quantityAvailable
          /\ x.bookingId = b
        BY <1>3 DEF HoldRemoved
    <2> QED
        BY <2>1 DEF Inv!UsedSlots, Inv!HoldsOf
<1> QED
    BY <1>1, <1>2, <1>3

LEMMA ConsistentIsKept ==
    ASSUME TablesOK, RequestsOK, Consistent, API
    PROVE  Consistent'
<1>1. Grows /\ LeavesAlone(marker)
    BY APIEffect, SubjectsAssumption DEF LeavesCommandsAlone
<1>2. SeedRooms' = SeedRooms /\ InnsOf(marker)' = InnsOf(marker)
    BY <1>1 DEF LeavesAlone, SeedRooms
<1>3. SeedMemberIds \subseteq DOMAIN bookers'
    BY <1>1 DEF Consistent, Grows
<1>4. ASSUME NEW t \in SeedRooms
      PROVE  /\ Registered(t)'
             /\ Inv!UsedSlots(inventories'[t]) \subseteq 1 .. inventories'[t].quantityAvailable
             /\ \A g, h \in inventories'[t].holds : g.slotNo = h.slotNo => g = h
             /\ \A c \in DOMAIN bookings : ~OfGuest(c) =>
                   Inv!HoldsOf(inventories'[t], c) = Inv!HoldsOf(inventories[t], c)
    <2>1. /\ Registered(t)
          /\ Inv!UsedSlots(inventories[t]) \subseteq 1 .. inventories[t].quantityAvailable
          /\ \A g, h \in inventories[t].holds : g.slotNo = h.slotNo => g = h
        BY DEF Consistent, SlotsFit
    <2>2. PICK v, w : v = inventories[t] /\ w = inventories'[t]
        OBVIOUS
    <2>3. Registered(t)' /\ (w = v \/ \E b : OfGuest(b) /\ OneHold(v, w, b))
        BY <2>1, <2>2, SeedRoomsStay
    <2>4. CASE w = v
        BY <2>1, <2>2, <2>3, <2>4
    <2>5. CASE \E b : OfGuest(b) /\ OneHold(v, w, b)
        <3>1. PICK b : OfGuest(b) /\ OneHold(v, w, b)
            BY <2>5
        <3>2. /\ Inv!UsedSlots(w) \subseteq 1 .. w.quantityAvailable
              /\ \A g, h \in w.holds : g.slotNo = h.slotNo => g = h
              /\ \A c : c # b => Inv!HoldsOf(w, c) = Inv!HoldsOf(v, c)
            BY <2>1, <2>2, <3>1, OneHoldLeaves
        <3> QED
            BY <2>2, <2>3, <3>1, <3>2
    <2> QED
        BY <2>3, <2>4, <2>5
<1>5. SlotsFit'
    BY <1>2, <1>4 DEF SlotsFit
<1>6. ASSUME NEW b \in DOMAIN bookings', bookings'[b].booker \in SeedMemberIds
      PROVE  Seeded(b, 1)' /\ Housed(b)'
    <2>1. b \in DOMAIN bookings /\ bookings'[b] = bookings[b]
        BY <1>6, SeededRowsStay
    <2>2. PICK t : t = bookings[b].roomType
        OBVIOUS
    <2>3. Seeded(b, 1) /\ Housed(b) /\ ~OfGuest(b)
        BY <1>6, <2>1 DEF Consistent, OfGuest
    <2>4. t \in SeedRooms
        BY <1>6, <2>1, <2>2 DEF TablesOK, BookingsOK
    <2>5. Registered(t) /\ Registered(t)'
        BY <1>4, <2>4 DEF Consistent, SlotsFit
    <2>6. PICK h \in HoldsOf(t) :
              h.status = Inv!HoldConfirmed /\ Inv!HoldsOf(inventories[t], b) = {h}
        BY <2>2, <2>3 DEF Housed
    <2>7. Inv!HoldsOf(inventories'[t], b) = {h}
        BY <1>4, <2>1, <2>3, <2>4, <2>6
    <2>8. h \in HoldsOf(t)'
        BY <2>5, <2>7 DEF Inv!HoldsOf, HoldsOf
    <2> QED
        BY <2>1, <2>2, <2>3, <2>6, <2>7, <2>8 DEF Seeded, Housed
<1> QED
    BY <1>2, <1>3, <1>5, <1>6 DEF Consistent

LEMMA SeedInvNext ==
    ASSUME OwnInv, SeedInv, [Next]_vars
    PROVE  SeedInv'
<1>1. TablesOK /\ RequestsOK
    BY DEF OwnInv
<1>2. CASE APIStep
    <2>1. API /\ UNCHANGED <<seed, prep>>
        BY <1>2 DEF APIStep
    <2>2. LeavesAlone(marker)
        BY <1>1, <2>1, APIEffect, SubjectsAssumption DEF LeavesCommandsAlone
    <2>3. NoSeedMembers => NoSeedMembers'
        BY <2>1, NoSeedMembersStay
    <2>4. ASSUME ~disturbed', NEW k \in 1 .. 13, seed = Statements[k]
          PROVE  Phase(k)'
        <3>1. SeedRuns
            BY <2>4, SeedRunsAt
        <3>2. ~disturbed /\ RowsOf(SeedRooms)' = RowsOf(SeedRooms)
            BY <1>2, <2>4, <3>1, Undisturbed
        <3>3. SameRows(marker)
            BY <2>2, <3>2, RowsAreTheSame DEF SeedRooms
        <3>4. Phase(k)
            BY <2>4, <3>2 DEF SeedInv
        <3> QED
            BY <2>2, <2>3, <3>3, <3>4, PhaseIsKept
    <2>5. ASSUME ~disturbed', seed = "done"
          PROVE  Consistent'
        <3>1. Consistent
            BY <1>2, <2>5, Undisturbed DEF SeedInv
        <3> QED
            BY <1>1, <2>1, <3>1, ConsistentIsKept
    <2>6. seed' # "idle" => ~PrepRuns'
        BY <2>1 DEF SeedInv, PrepRuns
    <2> QED
        BY <2>1, <2>4, <2>5, <2>6 DEF SeedInv
<1>3. CASE StartSeed /\ BeginRun /\ prep' = NoPrep
    <2>1. seed' = Statements[1]
        BY <1>3 DEF StartSeed
    <2>2. ~PrepRuns'
        BY <1>3 DEF PrepRuns, NoPrep
    <2>3. PICK j \in 1 .. 13 : j = 1 /\ seed' = Statements[j]
        BY <2>1
    <2>4. \A k \in 1 .. 13 : seed' = Statements[k] => k = 1
        BY <2>3, StatementNumber
    <2>5. Phase(1)'
        BY DEF Phase
    <2>6. seed' # "done"
        BY <2>3, NotAStatement
    <2> QED
        BY <2>2, <2>4, <2>5, <2>6 DEF SeedInv
<1>4. CASE \E v \in Vacancies : StartPrep(v) /\ BeginRun /\ seed' = "idle"
    <2>1. seed' = "idle"
        BY <1>4
    <2> QED
        BY <2>1, NotAStatement DEF SeedInv
<1>5. CASE SeedStep /\ UNCHANGED <<requests, begun, prep, runs, disturbed>>
    BY <1>5, SeedStepKeeps
<1>6. CASE PrepStep /\ UNCHANGED <<requests, begun, seed, runs, disturbed>>
    <2>1. PrepRuns
        BY <1>6, PrepStepEffect DEF OwnInv
    <2>2. seed' = "idle"
        BY <1>6, <2>1 DEF SeedInv
    <2> QED
        BY <2>2, NotAStatement DEF SeedInv
<1>7. CASE UNCHANGED vars
    <2>1. UNCHANGED <<tables, seed, prep, disturbed>>
        BY <1>7 DEF vars, registryVars
    <2>2. LeavesAlone(marker) /\ SameRows(marker) /\ (NoSeedMembers => NoSeedMembers')
        BY <2>1 DEF LeavesAlone, SameRows, NoSeedMembers, RoomTypesOf, InnsOf, BookingsIn,
                    Registered, tables
    <2>3. \A k \in 1 .. 13 : Phase(k) => Phase(k)'
        BY <2>2, PhaseIsKept
    <2>4. Consistent => Consistent'
        BY <2>1 DEF Consistent, SlotsFit, Seeded, Housed, HoldsOf, Registered, SeedRooms,
                    RoomTypesOf, InnsOf, tables
    <2> QED
        BY <2>1, <2>3, <2>4 DEF SeedInv, PrepRuns
<1> QED
    BY <1>2, <1>3, <1>4, <1>5, <1>6, <1>7 DEF Next

LEMMA SeedInvariant == Spec => [](OwnInv /\ PrepInv /\ SeedInv)
<1>1. LoadInit => SeedInv
    BY NotAStatement DEF LoadInit, SeedInv
<1>2. LoadInit => OwnInv /\ PrepInv
    BY OwnInit, PrepInvInit
<1>3. OwnInv /\ PrepInv /\ SeedInv /\ [Next]_vars => (OwnInv /\ PrepInv /\ SeedInv)'
    BY OwnNext, PrepInvNext, SeedInvNext
<1> QED
    BY <1>1, <1>2, <1>3, PTL DEF Spec

\* An undisturbed run of loadseed leaves what it was asked for and rows that keep the
\* rules of the domain model they went around, and the API's requests keep them so.
THEOREM SeededRowsKeepTheRules == Spec => []SeededIsConsistent
<1>1. SeedInv => SeededIsConsistent
    BY DEF SeedInv, SeededIsConsistent, Consistent, SlotsFit, Seeded, Housed
<1> QED
    BY <1>1, SeedInvariant, PTL

\* The database refuses an undisturbed run nothing, whatever killed runs left before
\* it, but for a quantity below the highest slot in use.
THEOREM QuietRunsAreNotRefused == Spec => QuietRunsSucceed
<1> DEFINE Refusal == PrepRuns /\ prep'.pc = "failed" =>
                          LET inv == inventories[prep.rooms[prep.i]] IN
                          Inv!maxSlotNo(inv) > Cardinality(inv.holds) + prep.vacancy
           Quiet == ~disturbed => ~(SeedRuns /\ seed' = "failed") /\ Refusal
<1>1. ASSUME OwnInv, PrepInv, SeedInv, Next, ~disturbed, SeedRuns, seed' = "failed"
      PROVE  FALSE
    <2>1. PICK i \in 1 .. 13 : seed = Statements[i]
        BY <1>1, SeedRunsAt
    <2>2. seed # "failed" /\ seed # "idle"
        BY <2>1, NotAStatement
    <2>3. SeedStep /\ UNCHANGED <<requests, prep, disturbed>>
        BY <1>1, <2>2 DEF Next, APIStep, StartSeed, BeginRun
    <2> QED
        BY <1>1, <2>3, SeedStepKeeps
<1>2. ASSUME OwnInv, PrepInv, Next, ~disturbed, PrepRuns, prep'.pc = "failed", NEW inv,
             inv = inventories[prep.rooms[prep.i]]
      PROVE  Inv!maxSlotNo(inv) > Cardinality(inv.holds) + prep.vacancy
    <2>1. PrepStep
        <3>1. prep.pc # "failed"
            BY <1>2 DEF OwnInv, PrepOK, PrepForms
        <3>2. prep' # prep /\ prep' # NoPrep
            BY <1>2, <3>1 DEF NoPrep
        <3>3. ~ \E v \in Vacancies : StartPrep(v)
            BY <1>2 DEF StartPrep
        <3> QED
            BY <1>2, <3>2, <3>3 DEF Next, APIStep
    <2> QED
        BY <1>2, <2>1, RefusedQuantity DEF OwnInv, PrepInv
<1>3. OwnInv /\ PrepInv /\ SeedInv /\ [Next]_vars => [Quiet]_vars
    BY <1>1, <1>2
<1> QED
    BY <1>3, SeedInvariant, PTL DEF Spec, QuietRunsSucceed

=============================================================================
