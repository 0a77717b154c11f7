SPECIFICATION Spec
CONSTANTS
    b1 = b1
    b2 = b2
    c1 = c1
    c2 = c2
    Bookings <- MCBookings
    Nights <- MCNights
    Stay <- MCStay
    Quantity = 1
    Quantities = {}
    Operated = {}
    OperatorCloses = FALSE
    Requests <- MCRequests
    TTL = 1
    MaxNow = 3
    MaxFaults = 0
    DaysBefore = 0
    ClientsWait = FALSE
PROPERTY CancelledIsFinal
