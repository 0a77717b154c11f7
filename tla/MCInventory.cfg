SPECIFICATION Spec
CONSTANTS
    b1 = b1
    b2 = b2
    b3 = b3
    Bookings <- MCBookings
    Quantities <- MCQuantities
    Fees <- MCFees
    Times <- MCTimes
    InventoryDate <- MCDate
SYMMETRY Symmetry
INVARIANTS
    TypeOK
    SlotsDistinct
    NoOverbooking
    OneHoldPerBooking
    ExpiryIffTemporary
    SearchAgreesWithHold
PROPERTY HoldsAdvance
\* An inventory not registered before its date begins never will be: once the
\* clock stops nothing is left to do.
CHECK_DEADLOCK FALSE
