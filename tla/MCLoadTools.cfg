SPECIFICATION Spec
CONSTANTS
    r1 = r1
    r2 = r2
    Guests = {"guest"}
    Operators = {"operator"}
    Capacities = {1}
    GuestCounts = {1}
    Quantities = {1}
    Requests <- MCRequests
    MaxRequests = 3
    Inns = 1
    RoomTypesPerInn = 1
    SeedMembers <- MCSeedMembers
    SeedQuantities = {1}
    PrepRoomTypes = 1
    Vacancies = {0, 1}
    MaxRuns = 2
SYMMETRY Symmetry
CHECK_DEADLOCK FALSE
INVARIANTS
    OneMemberPerSubject
    SeededIsConsistent
PROPERTIES
    ActsOnOwn
    QuietRunsSucceed
    PrepMakesRoom
