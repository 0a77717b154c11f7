SPECIFICATION Spec
CONSTANTS
    b1 = b1
    b2 = b2
    c1 = c1
    c2 = c2
    Bookings <- MCBookings
    Nights <- MCNights
    Stay <- MCStay
    Quantity = 1
    Quantities = {0, 1}
    Operated = {2}
    OperatorCloses = TRUE
    Requests <- MCRequests
    TTL = 1
    MaxNow = 3
    MaxFaults = 1
    DaysBefore = 0
    ClientsWait = TRUE
SYMMETRY Symmetry
INVARIANTS
    ConfirmedIsHoused
    PaidHoldHasPaidBooking
    ConfirmedIsPriced
    ConfirmedFitQuantity
PROPERTIES
    ImplementsReservation
    LifecycleRespected
    PaidHoldsStay
