SPECIFICATION Spec
CONSTANTS
    Zones <- MCZones
    Dates <- MCDates
    Totals <- MCTotals
    Horizon <- MCHorizon
    Step = 3
    Half = 8
CHECK_DEADLOCK FALSE
INVARIANTS
    BookableDays
    EndsByTheClock
    TotalAsAnswered
PROPERTY WaitingNeverPays
