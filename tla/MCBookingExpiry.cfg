SPECIFICATION FairSpec
CONSTANTS
    b1 = b1
    b2 = b2
    c1 = c1
    c2 = c2
    Bookings = {b1}
    Nights <- MCNights
    Stay <- SoloStay
    Quantity = 1
    Quantities = {}
    Operated = {}
    OperatorCloses = FALSE
    Requests <- MCRequests
    TTL = 1
    MaxNow = 3
    MaxFaults = 1
    DaysBefore = 0
    ClientsWait = FALSE
PROPERTIES
    TemporaryBookingEnds
    TemporaryHoldEnds
    CancelledIsReleased
