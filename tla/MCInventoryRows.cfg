SPECIFICATION Spec
CONSTANTS
    b1 = b1
    b2 = b2
    b3 = b3
    h1 = h1
    h2 = h2
    h3 = h3
    Bookings <- MCBookings
    HoldIds <- MCHoldIds
    Amounts <- MCAmounts
    Times <- MCTimes
    InventoryDate = 5
    TTL = 2
    Half = 4
    Micro = 2
SYMMETRY Symmetry
INVARIANTS
    StoredCanBeLoaded
    StoredAsAnswered
    ListingAgreesWithCollecting
PROPERTY ImplementsInventory
