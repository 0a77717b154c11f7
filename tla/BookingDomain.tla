---------------------------- MODULE BookingDomain ----------------------------
(***************************************************************************)
(* The booking aggregate: src/server/internal/booking/domain/booking.go,   *)
(* cancellation.go and total_fee.go.  As in InventoryDomain, CanX says     *)
(* when a method returns no error and AfterX what it leaves.  The guests   *)
(* are kept beside this value, by the modules that follow them: no method  *)
(* changes them together with the rest.  The booker never changes.         *)
(* As there, X_Fault is a faulty X that no specification uses.             *)
(***************************************************************************)
EXTENDS Integers, FiniteSets

TemporaryHold     == "temporary_hold"
ProcessingPayment == "processing_payment"
Confirmed         == "confirmed"
Cancelled         == "cancelled"
Status == {TemporaryHold, ProcessingPayment, Confirmed, Cancelled}

ByGuest       == "by_guest"
PaymentFailed == "payment_failed"
Expired       == "expired"
\* ByAccommodation is declared in the code, but nothing cancels with it.
CancellationReason == {ByGuest, PaymentFailed, Expired}

BookingType == [status : Status, totalFee : Nat, cancellationFee : Nat]

allowedTransitions ==
    [s \in Status |->
        CASE s = TemporaryHold -> {ProcessingPayment, Cancelled}
          [] s = ProcessingPayment -> {Confirmed, Cancelled}
          [] s = Confirmed -> {Cancelled}
          [] s = Cancelled -> {}]

canTransition(from, to) == to \in allowedTransitions[from]

\* Book: the fee is not known until the nights are held.
NewBooking == [status |-> TemporaryHold, totalFee |-> 0, cancellationFee |-> 0]

CanStartPayment(k) == canTransition(k.status, ProcessingPayment)
AfterStartPayment(k) == [k EXCEPT !.status = ProcessingPayment]

CanConfirm_Unchecked(k) == k.status \in Status
CanConfirm(k) == k.status = Confirmed \/ canTransition(k.status, Confirmed)
AfterConfirm(k) == [k EXCEPT !.status = Confirmed]

CanFixTotalFee(k) == k.status = TemporaryHold
AfterFixTotalFee(k, total) == [k EXCEPT !.totalFee = total]

CalculateCancellationFee_Signed(days, total, reason) ==
    IF reason # ByGuest \/ days >= 7 THEN 0 ELSE 0 - total

CalculateCancellationFee_Swapped(days, total, reason) ==
    IF reason # ByGuest \/ days >= 7 THEN 0
    ELSE IF days >= 3 THEN total
    ELSE (total * 50) \div 100

\* days: whole days from the cancellation to the check-in date
CalculateCancellationFee(days, total, reason) ==
    IF reason # ByGuest \/ days >= 7 THEN 0
    ELSE IF days >= 3 THEN (total * 50) \div 100
    ELSE total

\* Cancelling what is cancelled answers the stored fee and changes nothing.
\* Every other status may be cancelled.
CanCancel(k) == k.status = Cancelled \/ canTransition(k.status, Cancelled)
AfterCancel(k, reason, days) ==
    IF k.status = Cancelled THEN k
    ELSE [k EXCEPT !.status = Cancelled,
                   !.cancellationFee =
                      IF k.status = Confirmed
                      THEN CalculateCancellationFee(days, k.totalFee, reason)
                      ELSE 0]

-----------------------------------------------------------------------------
(* Guests: a set of ids, drawn afresh for every list a client sends *)

isChangeable(k) == k.status \in {TemporaryHold, ProcessingPayment, Confirmed}

validGuests(guests, capacity) == guests # {} /\ Cardinality(guests) <= capacity

CanChangeGuests(k, guests, capacity) == isChangeable(k) /\ validGuests(guests, capacity)

=============================================================================
