SPECIFICATION SearchSpec
CONSTANTS
    b1 = b1
    single = single
    double = double
    tokyo = tokyo
    kyoto = kyoto
    guest = guest
    Bookings <- MCBookings
    RoomTypes <- MCRoomTypes
    Dates = {1, 2}
    Prefectures <- MCPrefectures
    PrefectureOf <- MCPrefectureOf
    CapacityOf <- MCCapacityOf
    Quantities = {1, 2}
    Fees = {1, 3}
    Guest = guest
    Asked <- MCAsked
    Half = 4
INVARIANTS
    OffersCanBeBooked
    StaysAreOffered
