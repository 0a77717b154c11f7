SPECIFICATION FairSpec
CONSTANTS
    b1 = b1
    b2 = b2
    r1 = r1
    r2 = r2
    r3 = r3
    NoRequest = NoRequest
    Bookings <- MCBookings
    Requests <- MCRequests
    Quantities <- MCQuantities
    Fees <- MCFees
    Times <- MCTimes
    InventoryDate <- MCDate
INVARIANTS
    ReadIsCurrent
    ConstraintNeverFires
PROPERTIES
    ImplementsInventory
    RowIsFreedAgain
