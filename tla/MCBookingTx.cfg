SPECIFICATION FairSpec
CONSTANTS
    g1 = g1
    g2 = g2
    g3 = g3
    r1 = r1
    r2 = r2
    r3 = r3
    NoRequest = NoRequest
    Guests <- MCGuests
    Capacity = 2
    Totals = {1}
    Days = {0}
    Requests <- MCRequests
    PoolSize = 4
INVARIANTS
    GuestsWithinCapacity
PROPERTIES
    ImplementsBooking
    GuestsStay
    RowIsFreedAgain
