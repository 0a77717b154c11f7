------------------------------ MODULE Inventory ------------------------------
(***************************************************************************)
(* What the inventory service promises its callers about one inventory:    *)
(* each operation of internal/inventory/app/service.go happens atomically, *)
(* or fails and changes nothing.  InventoryTx shows how the transactions   *)
(* of the repository keep this promise.                                    *)
(***************************************************************************)
EXTENDS InventoryDomain

CONSTANTS Quantities,    \* quantities an operator may ask for, negative ones too
          Fees,          \* fees an operator may ask for, negative ones too
          Times,         \* the instants the clock shows; finite for model checking
          InventoryDate  \* the instant at which the inventory's date begins

ASSUME QuantitiesAssumption == Quantities \subseteq Int
ASSUME FeesAssumption == Fees \subseteq Int
ASSUME TimesAssumption == Times \subseteq Nat /\ 0 \in Times
ASSUME DateAssumption == InventoryDate \in Nat

VARIABLES now,           \* the clock shared by every process
          registered,    \* the inventory's row exists
          inv            \* the aggregate, as stored

vars == <<now, registered, inv>>

TypeOK ==
    /\ now \in Times
    /\ registered \in BOOLEAN
    /\ inv \in InventoryType

Init ==
    /\ now = 0
    /\ registered = FALSE
    /\ inv = NewInventory(0, 0)

\* A clock is read when a request or a pass of the worker begins: it may be
\* older than now when the operation runs, never newer.
ClockReadings == {t \in Times : t <= now}

-----------------------------------------------------------------------------
(* Operations.  The guard `registered` is ErrInventoryNotFound.            *)

Register(quantity, fee, at) ==
    /\ ~registered                       \* ErrAlreadyRegistered otherwise
    /\ InventoryDate >= at               \* ErrPast otherwise
    /\ validFee(fee)
    /\ validQuantity(quantity)
    /\ registered' = TRUE
    /\ inv' = NewInventory(quantity, fee)
    /\ UNCHANGED now

Mutate(value) ==
    /\ registered
    /\ inv' = value
    /\ UNCHANGED <<now, registered>>

ChangeQuantity(n) == CanChangeQuantity(inv, n) /\ Mutate(AfterChangeQuantity(inv, n))

ChangeFee(amount) == validFee(amount) /\ Mutate(AfterChangeFee(inv, amount))

Close == CanClose(inv) /\ Mutate(AfterClose(inv))

Reopen == CanReopen(inv) /\ Mutate(AfterReopen(inv))

Hold(b, expiredAt, at) == CanHold(inv, b, expiredAt, at) /\ Mutate(AfterHold(inv, b, expiredAt))

StartPayment(b) == CanStartPayment(inv, b) /\ Mutate(AfterStartPayment(inv, b))

Confirm(b) == CanConfirm(inv, b) /\ Mutate(AfterConfirm(inv, b))

Release(b) == CanRelease(inv, b) /\ Mutate(AfterRelease(inv, b))

CollectExpired(at) ==
    /\ ExpiredHolds(inv, at) # {}        \* n == 0: nothing is saved
    /\ Mutate(AfterCollectExpired(inv, at))

Tick ==
    /\ now + 1 \in Times
    /\ now' = now + 1
    /\ UNCHANGED <<registered, inv>>

Next ==
    \/ \E quantity \in Quantities, fee \in Fees, at \in ClockReadings :
            Register(quantity, fee, at)
    \/ \E n \in Quantities : ChangeQuantity(n)
    \/ \E amount \in Fees : ChangeFee(amount)
    \/ Close
    \/ Reopen
    \/ \E b \in Bookings, expiredAt \in Times, at \in ClockReadings : Hold(b, expiredAt, at)
    \/ \E b \in Bookings : StartPayment(b)
    \/ \E b \in Bookings : Confirm(b)
    \/ \E b \in Bookings : Release(b)
    \/ \E at \in ClockReadings : CollectExpired(at)
    \/ Tick

Spec == Init /\ [][Next]_vars

-----------------------------------------------------------------------------
(* Properties *)

\* No two holds of the night share a slot, whatever order bookings, releases,
\* collections and changes of the quantity come in: what uq_slot guards.
SlotsDistinct == \A g, h \in inv.holds : g.slotNo = h.slotNo => g = h

\* The night is never sold more often than the operator's current quantity,
\* although slots are freed in any order and the quantity is raised and lowered
\* while they are held.
NoOverbooking ==
    /\ UsedSlots(inv) \subseteq 1 .. inv.quantityAvailable
    /\ Cardinality(inv.holds) <= inv.quantityAvailable

\* A booking holds at most one slot of a night, so that the first hold found
\* (indexOfHold) is the booking's only one.
OneHoldPerBooking == \A g, h \in inv.holds : g.bookingId = h.bookingId => g = h

\* A hold carries an expiry exactly while it is temporary: a paid hold can not
\* be collected, a temporary one can not be kept for ever.
ExpiryIffTemporary ==
    \A h \in inv.holds : h.expiredAt # NoExpiry <=> h.status = TemporaryHold

\* The search page counts (quantity - holds > 0) where Hold looks for a free
\* number: the two agree, so what search offers can be held.
SearchAgreesWithHold == Available(inv) > 0 <=> VacantSlots(inv) # {}

\* A hold that survives a step keeps its slot and never moves back towards
\* temporary, whoever else's payment, release or collection the step is.
rank(status) == CASE status = TemporaryHold -> 0
                  [] status = ProcessingPayment -> 1
                  [] status = HoldConfirmed -> 2
HoldsAdvance ==
    [][\A g \in inv.holds, h \in inv'.holds :
         g.bookingId = h.bookingId =>
            g.slotNo = h.slotNo /\ rank(g.status) <= rank(h.status)]_vars

=============================================================================
