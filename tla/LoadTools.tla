------------------------------ MODULE LoadTools ------------------------------
(***************************************************************************)
(* The API beside the commands that prepare its database for load tests.   *)
(* One command runs at a time; requests go on while it does.               *)
(***************************************************************************)
EXTENDS LoadSeed, LoadPrep

CONSTANT MaxRuns       \* bound on the runs of the two commands together

ASSUME MaxRunsAssumption == MaxRuns \in Nat

\* Logins carry the UUIDs of their realm, never a subject made up by a command.
ASSUME SubjectsAssumption ==
    {marker, rush, Nobody} \cap Operators = {} /\ Range(SeedMembers) \cap Guests = {}

VARIABLES
    runs,              \* runs begun
    disturbed          \* history: a request wrote to the run's rows during the run

vars == <<registryVars, seed, prep, runs, disturbed>>

LoadInit ==
    /\ Init
    /\ seed = "idle"
    /\ prep = NoPrep
    /\ runs = 0
    /\ disturbed = FALSE

\* What requests can change of a set of room types.
RowsOf(rooms) ==
    <<[t \in rooms \cap DOMAIN inventories |-> inventories[t]],
      [b \in BookingsIn(rooms) |-> bookings[b]]>>

Disturbs ==
    \/ SeedRuns /\ RowsOf(SeedRooms)' # RowsOf(SeedRooms)
    \/ PrepRuns /\ RowsOf(RoomTypesOf(rush))' # RowsOf(RoomTypesOf(rush))

APIStep == API /\ disturbed' = (disturbed \/ Disturbs) /\ UNCHANGED <<seed, prep, runs>>

\* What the run before it came to is history.
BeginRun ==
    /\ ~SeedRuns /\ ~PrepRuns
    /\ runs < MaxRuns
    /\ runs' = runs + 1
    /\ disturbed' = FALSE
    /\ UNCHANGED <<requests, begun>>

Next ==
    \/ APIStep
    \/ StartSeed /\ BeginRun /\ prep' = NoPrep
    \/ \E v \in Vacancies : StartPrep(v) /\ BeginRun /\ seed' = "idle"
    \/ SeedStep /\ UNCHANGED <<requests, begun, prep, runs, disturbed>>
    \/ PrepStep /\ UNCHANGED <<requests, begun, seed, runs, disturbed>>

Spec == LoadInit /\ [][Next]_vars

-----------------------------------------------------------------------------
(* Properties *)

\* However often a registration is sent again, and whatever members loadseed
\* inserts and deletes: ResolveBookerId finds at most one member for a login.
OneMemberPerSubject ==
    \A s \in Guests \cup Range(SeedMembers) : Cardinality(MembersOf(s)) <= 1

\* The rows that differ between two states of a table.
Changed(old, new) ==
    {i \in DOMAIN old \cup DOMAIN new :
        ~(i \in DOMAIN old /\ i \in DOMAIN new /\ old[i] = new[i])}

HoldsOf(t) == IF Registered(t) THEN inventories[t].holds ELSE {}

\* The rows of a set of subjects, as members or as operators.
Rooms(subjects) == UNION {RoomTypesOf(s) : s \in subjects}
Stays(subjects) == {b \in DOMAIN bookings :
    \/ bookings[b].roomType \in Rooms(subjects)
    \/ bookings[b].booker \in UNION {MembersOf(s) : s \in subjects}}

OnlyRowsOf(subjects) ==
    /\ Changed(bookers, bookers') \subseteq
         UNION {MembersOf(s) \cup MembersOf(s)' : s \in subjects}
    /\ Changed(accommodations, accommodations') \subseteq
         UNION {InnsOf(s) \cup InnsOf(s)' : s \in subjects}
    /\ Changed(roomTypes, roomTypes') \subseteq Rooms(subjects) \cup Rooms(subjects)'
    /\ Changed(bookings, bookings') \subseteq Stays(subjects) \cup Stays(subjects)'
    /\ \A t \in Changed(inventories, inventories') \ (Rooms(subjects) \cup Rooms(subjects)') :
          /\ Registered(t) /\ Registered(t)'
          /\ inventories'[t] = [inventories[t] EXCEPT !.holds = HoldsOf(t)']
          /\ {h.bookingId : h \in (HoldsOf(t) \cup HoldsOf(t)') \ (HoldsOf(t) \cap HoldsOf(t)')}
                \subseteq Stays(subjects) \cup Stays(subjects)'

\* A request changes only what belongs to the login it came with, though it was
\* checked statements before; loadseed changes only what stands under its marker
\* and loadprep only its own inn, of which loadseed's marker is a prefix.
ActsOnOwn ==
    [][/\ \A r \in Requests, s \in Guests \cup Operators :
             (requests'[r] # requests[r] /\ ~At(r, "idle") /\ requests[r].subject = s)
                => OnlyRowsOf({s})
       /\ seed' # seed => OnlyRowsOf({marker} \cup Range(SeedMembers))
       /\ prep' # prep => OnlyRowsOf({rush})]_vars

\* Whatever earlier runs left when they were killed or failed, a run that no
\* request disturbs is refused nothing by the database: the deletes come in the
\* order of the foreign keys and leave nothing the inserts could collide with.
\* loadprep can be refused its quantity, but only where a hold stands in a higher
\* slot than the rooms that are held and the vacant ones together.
QuietRunsSucceed ==
    [][~disturbed =>
          /\ ~(SeedRuns /\ seed' = "failed")
          /\ PrepRuns /\ prep'.pc = "failed" =>
                LET inv == inventories[prep.rooms[prep.i]] IN
                Inv!maxSlotNo(inv) > Cardinality(inv.holds) + prep.vacancy]_vars

\* After an undisturbed run the load test finds what was asked for, and rows that
\* keep the rules of the domain model they went around: each seeded booking is
\* housed once, has a guest, and no night is oversold, for all the API does next.
SeededIsConsistent ==
    (seed = "done" /\ ~disturbed) =>
        /\ Cardinality(InnsOf(marker)) = Inns
        /\ Cardinality(SeedRooms) = Inns * RoomTypesPerInn
        /\ SeedMemberIds \subseteq DOMAIN bookers
        /\ \A t \in SeedRooms :
              /\ Registered(t)
              /\ Inv!UsedSlots(inventories[t]) \subseteq 1 .. inventories[t].quantityAvailable
              /\ \A g, h \in inventories[t].holds : g.slotNo = h.slotNo => g = h
        /\ \A b \in DOMAIN bookings : bookings[b].booker \in SeedMemberIds =>
              /\ bookings[b].status = Domain!Confirmed /\ bookings[b].guests = 1
              /\ \E h \in HoldsOf(bookings[b].roomType) :
                    /\ h.status = Inv!HoldConfirmed
                    /\ Inv!HoldsOf(inventories[bookings[b].roomType], b) = {h}

\* However many runs were killed before it, a run of loadprep that ends without
\* being disturbed leaves one inn, its room types and exactly the vacant rooms it
\* was asked for: no killed run left a second inn behind.
PrepMakesRoom ==
    [][prep.pc # "done" /\ prep'.pc = "done" /\ ~disturbed =>
          /\ Cardinality(InnsOf(rush)') = 1
          /\ Cardinality(RoomTypesOf(rush)') = PrepRoomTypes
          /\ \A t \in RoomTypesOf(rush)' :
                Inv!Available(inventories'[t]) = prep.vacancy]_vars

=============================================================================
