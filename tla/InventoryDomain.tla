--------------------------- MODULE InventoryDomain ---------------------------
(***************************************************************************)
(* The inventory aggregate: one room type on one date.                     *)
(* src/server/internal/inventory/domain/inventory.go, hold.go and fee.go.  *)
(*                                                                         *)
(* Every method of the aggregate is a pair of operators on the aggregate's *)
(* value: CanX is the conjunction of the conditions under which X returns  *)
(* no error, and AfterX is the value it leaves.  A method that returns an  *)
(* error leaves the value alone, so an X whose CanX is false is a stutter. *)
(* The specifications of the service, of its transactions and of the       *)
(* booking process apply these operators; nothing here has state.          *)
(*                                                                         *)
(* An operator X_Fault is X with a plausible bug.  No specification uses   *)
(* it: it is put in X's place to see that a property would notice.         *)
(***************************************************************************)
EXTENDS Integers, FiniteSets, FiniteSetsExt

CONSTANT Bookings        \* booking ids (UUIDs)

TemporaryHold     == "temporary_hold"
ProcessingPayment == "processing_payment"
HoldConfirmed     == "confirmed"
HoldStatus == {TemporaryHold, ProcessingPayment, HoldConfirmed}

\* The nil expiredAt of a hold that does not expire.
NoExpiry == -1

(***************************************************************************)
(* A hold's own id is left out: it is drawn afresh by every Hold and only  *)
(* tells apart holds that already differ in booking or slot.               *)
(***************************************************************************)
HoldType == [bookingId : Bookings, slotNo : Nat \ {0},
             status : HoldStatus, expiredAt : Nat \cup {NoExpiry}]

(***************************************************************************)
(* The slice of holds is a set: it is read back from the database in no    *)
(* particular order.  Nothing in this type makes slots, or the bookings    *)
(* that hold them, distinct.                                               *)
(***************************************************************************)
InventoryType == [quantityAvailable : Nat, fee : Nat, isClosed : BOOLEAN,
                  holds : SUBSET HoldType]

NewInventory(quantity, fee) ==
    [quantityAvailable |-> quantity, fee |-> fee, isClosed |-> FALSE, holds |-> {}]

-----------------------------------------------------------------------------
(* Queries *)

validQuantity_None(n) == n \in Int
validQuantity(n) == n >= 0
validFee(amount) == amount >= 0

UsedSlots(inv) == {h.slotNo : h \in inv.holds}

Available(inv) == inv.quantityAvailable - Cardinality(inv.holds)

HoldsOf(inv, b) == {h \in inv.holds : h.bookingId = b}

HasHold(inv, b) == HoldsOf(inv, b) # {}

VacantSlots_Counted(inv) ==
    IF Available(inv) > 0 THEN {Cardinality(inv.holds) + 1} ELSE {}
VacantSlots_Exclusive(inv) == {s \in 1 .. inv.quantityAvailable - 1 : s \notin UsedSlots(inv)}

VacantSlots(inv) == {s \in 1 .. inv.quantityAvailable : s \notin UsedSlots(inv)}

vacantSlotNo(inv) == Min(VacantSlots(inv))

maxSlotNo(inv) == Max(UsedSlots(inv) \cup {0})

-----------------------------------------------------------------------------
(* Operations of the inn's operator *)

CanChangeQuantity_UnpaidOnly(inv, n) ==
    validQuantity(n) /\ \A h \in inv.holds : h.status = TemporaryHold => n >= h.slotNo
CanChangeQuantity_ByCount(inv, n) == validQuantity(n) /\ n >= Cardinality(inv.holds)

CanChangeQuantity(inv, n) == validQuantity(n) /\ n >= maxSlotNo(inv)
AfterChangeQuantity(inv, n) == [inv EXCEPT !.quantityAvailable = n]

AfterChangeFee(inv, amount) == [inv EXCEPT !.fee = amount]

CanClose(inv) == ~inv.isClosed
AfterClose(inv) == [inv EXCEPT !.isClosed = TRUE]

CanReopen(inv) == inv.isClosed
AfterReopen(inv) == [inv EXCEPT !.isClosed = FALSE]

-----------------------------------------------------------------------------
(* Operations of a booking *)

CanHold_NoDuplicateCheck(inv, b, expiredAt, at) ==
    ~inv.isClosed /\ expiredAt > at /\ VacantSlots(inv) # {}

\* at: the caller's clock, read when its request arrived
CanHold(inv, b, expiredAt, at) ==
    /\ ~inv.isClosed
    /\ expiredAt > at
    /\ ~HasHold(inv, b)
    /\ VacantSlots(inv) # {}

AfterHold(inv, b, expiredAt) ==
    [inv EXCEPT !.holds = @ \cup
        {[bookingId |-> b, slotNo |-> vacantSlotNo(inv),
          status |-> TemporaryHold, expiredAt |-> expiredAt]}]

\* The first hold of the booking in the slice.
holdOf(inv, b) == CHOOSE h \in HoldsOf(inv, b) : TRUE

WithStatus_KeepsExpiry(inv, h, status) ==
    [inv EXCEPT !.holds = (@ \ {h}) \cup {[h EXCEPT !.status = status]}]

WithStatus(inv, h, status) ==
    [inv EXCEPT !.holds = (@ \ {h}) \cup
        {[h EXCEPT !.status = status, !.expiredAt = NoExpiry]}]

CanStartPayment_AnyStatus(inv, b) == HasHold(inv, b)

CanStartPayment(inv, b) == HasHold(inv, b) /\ holdOf(inv, b).status = TemporaryHold
AfterStartPayment(inv, b) == WithStatus(inv, holdOf(inv, b), ProcessingPayment)

CanConfirm(inv, b) == HasHold(inv, b) /\ holdOf(inv, b).status # TemporaryHold
AfterConfirm(inv, b) == WithStatus(inv, holdOf(inv, b), HoldConfirmed)

CanRelease(inv, b) == HasHold(inv, b)
AfterRelease(inv, b) == [inv EXCEPT !.holds = @ \ {holdOf(inv, b)}]

\* now: the worker's clock, read when its pass began
ExpiredHolds(inv, now) ==
    {h \in inv.holds : /\ h.status = TemporaryHold
                       /\ h.expiredAt # NoExpiry
                       /\ h.expiredAt < now}
AfterCollectExpired_Unsaved(inv, now) == IF now >= 0 THEN inv ELSE inv
AfterCollectExpired(inv, now) == [inv EXCEPT !.holds = @ \ ExpiredHolds(inv, now)]

=============================================================================
