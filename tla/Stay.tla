--------------------------------- MODULE Stay ---------------------------------
(***************************************************************************)
(* One booking between two calendars: src/server/internal/booking/domain,  *)
(* stay_period.go and cancellation.go, with the clock readings and the     *)
(* 32-bit columns that reach them.                                         *)
(*                                                                         *)
(* A date that a client sends, or a DATE column, becomes the midnight that *)
(* begins it in Greenwich; time.Now() is an instant with the calendar of   *)
(* the server's zone.  Some of the code compares the instants, some the    *)
(* calendar days.  An instant is a number of hours, a date the number of   *)
(* its day.  The interleavings of the steps of Book and of the payment are *)
(* BookingProcess's, and so is what a night has to offer; here Book is one *)
(* step with each of its outcomes.                                         *)
(***************************************************************************)
EXTENDS BookingDomain, Widths

CONSTANTS Zones,         \* hours by which the server may be ahead of Greenwich
          Dates,         \* dates that clients ask for
          Totals,        \* what the fees of the nights add up to
          Step,          \* hours from one clock reading to the next
          Horizon        \* the last instant

Day == 24

\* A zone is less than a day away from Greenwich.
ASSUME ZonesAssumption == Zones \subseteq -23 .. 23
ASSUME DatesAssumption == Dates \subseteq Nat
ASSUME TotalsAssumption == Totals \subseteq Nat
ASSUME HorizonAssumption == Horizon \in Nat /\ Step \in Nat \ {0}

VARIABLES zone,          \* of the server: no step changes it
          now,           \* the clock
          stay,          \* the dates of the booking, or NoStay
          row,           \* the rest of its row
          expiry,        \* "fresh", "stale" after HoldTTL, "listed" by the worker
          answered,      \* the total that Book answered, or NoAnswer
          asked,         \* the clock reading of a guest's cancellation under way
          ending         \* why and by which reading the confirmed booking ended

vars == <<zone, now, stay, row, expiry, answered, asked, ending>>

NoAnswer == -1
NoReading == -1
NoStay == [in |-> 0, out |-> 0]
NotEnded == [reason |-> "none", at |-> NoReading]

-----------------------------------------------------------------------------
(* Calendars *)

\* The day that the server's calendar shows at an instant
LocalDay(t) == (t + zone) \div Day

\* The instant of a date in Greenwich, and of the midnight truncateToDate makes
Midnight(date) == date * Day
LocalMidnight(date) == date * Day - zone
truncateToDate(t) == LocalMidnight(LocalDay(t))

daysBetween_Elapsed(t, date) == (Midnight(date) - t) \div Day

\* Each side counts on its own calendar.
daysBetween(t, date) == date - LocalDay(t)

NewStayPeriod(in, out) == Midnight(out) > Midnight(in)

CanBookAt_Exact(date, t) == Midnight(date) >= t
\* Book: a check-in before today is over.
CanBookAt(date, t) == Midnight(date) >= truncateToDate(t)

\* validDate: an inventory is registered before its date begins in Greenwich.
CanRegisterAt(date, t) == Midnight(date) >= t

StoresTotal_Unchecked(total) == Int32(total) < Half
\* CHECK (total_fee >= 0), after int32(total)
StoresTotal(total) == Int32(total) >= 0

-----------------------------------------------------------------------------
(* The operations *)

TypeOK ==
    /\ zone \in Zones
    /\ now \in 0 .. Horizon
    /\ stay \in [in : Dates, out : Dates] \cup {NoStay}
    /\ row \in BookingType /\ row.totalFee < Half /\ row.cancellationFee < Half
    /\ expiry \in {"fresh", "stale", "listed"}
    /\ answered \in Nat \cup {NoAnswer}
    /\ asked \in 0 .. now \cup {NoReading}
    /\ ending \in [reason : CancellationReason, at : 0 .. now] \cup {NotEnded}

Init ==
    /\ zone \in Zones
    /\ now = 0
    /\ stay = NoStay
    /\ row = NewBooking
    /\ expiry = "fresh"
    /\ answered = NoAnswer
    /\ asked = NoReading
    /\ ending = NotEnded

Arrives(in, out) ==
    /\ stay = NoStay
    /\ NewStayPeriod(in, out)
    /\ CanBookAt(in, now)
    /\ stay' = [in |-> in, out |-> out]
    /\ UNCHANGED <<zone, now, expiry, asked, ending>>

\* Every night was held.  A total whose column refuses it leaves the booking with
\* its holds and without a price.
Book(in, out) ==
    /\ Arrives(in, out)
    /\ \E total \in Totals :
         IF StoresTotal(total)
         THEN /\ row' = AfterFixTotalFee(row, Int32(total))
              /\ answered' = total
         ELSE UNCHANGED <<row, answered>>

\* A night can not be held: compensate cancels the booking.
BookRefused(in, out) ==
    /\ Arrives(in, out)
    /\ row' = AfterCancel(row, Expired, daysBetween(now, in))
    /\ UNCHANGED answered

\* The transactions of Service.Confirm that write the booking
StartPayment ==
    /\ stay # NoStay
    /\ CanStartPayment(row)
    /\ row' = AfterStartPayment(row)
    /\ UNCHANGED <<zone, now, stay, expiry, answered, asked, ending>>

Confirm ==
    /\ stay # NoStay
    /\ CanConfirm(row)
    /\ row' = AfterConfirm(row)
    /\ UNCHANGED <<zone, now, stay, expiry, answered, asked, ending>>

\* The transaction of Service.Cancel, by the reading the handler took
Cancel(reason, at) ==
    /\ stay # NoStay
    /\ CanCancel(row)
    /\ row' = AfterCancel(row, reason, daysBetween(at, stay.in))
    /\ ending' = IF row.status = Confirmed THEN [reason |-> reason, at |-> at] ELSE ending
    /\ UNCHANGED <<zone, now, stay, expiry, answered>>

\* Handler.Cancel reads the clock, then waits for the booking's row.
AskToCancel ==
    /\ stay # NoStay
    /\ asked = NoReading
    /\ asked' = now
    /\ UNCHANGED <<zone, now, stay, row, expiry, answered, ending>>

GuestCancels ==
    /\ asked # NoReading
    /\ Cancel(ByGuest, asked)
    /\ asked' = NoReading

\* Handler.Payment with "failure", whatever the booking's status is by now
PaymentFails == Cancel(PaymentFailed, now) /\ UNCHANGED asked

\* ExpireStale: the list is read before the booking is locked.
ListStale ==
    /\ stay # NoStay
    /\ row.status = TemporaryHold
    /\ expiry = "stale"
    /\ expiry' = "listed"
    /\ UNCHANGED <<zone, now, stay, row, answered, asked, ending>>

Expire == expiry = "listed" /\ Cancel(Expired, now) /\ UNCHANGED asked

\* A step is longer than HoldTTL, and than a handler waits for a row: nobody
\* cancels by a reading that is two steps old.
Tick ==
    /\ now + Step <= Horizon
    /\ asked \in {NoReading, now}
    /\ now' = now + Step
    /\ expiry' = IF stay # NoStay /\ expiry = "fresh" THEN "stale" ELSE expiry
    /\ UNCHANGED <<zone, stay, row, answered, asked, ending>>

Next ==
    \/ \E in, out \in Dates : Book(in, out) \/ BookRefused(in, out)
    \/ StartPayment
    \/ Confirm
    \/ AskToCancel
    \/ GuestCancels
    \/ PaymentFails
    \/ ListStale
    \/ Expire
    \/ Tick

Spec == Init /\ [][Next]_vars

-----------------------------------------------------------------------------
(* Properties *)

\* The days for which a guest can check in are today, on the server's calendar,
\* and the days to come, although Book compares a local midnight with one in
\* Greenwich: in a zone that is behind, today is refused.  What can still be
\* registered can be booked.
BookableDays ==
    \A date \in Dates :
        /\ CanBookAt(date, now) <=> IF zone >= 0 THEN date >= LocalDay(now)
                                                ELSE date > LocalDay(now)
        /\ CanRegisterAt(date, now) => CanBookAt(date, now)

\* What the guest would pay who cancels now
Quote == CalculateCancellationFee(daysBetween(now, stay.in), row.totalFee, ByGuest)

\* Waiting never makes a cancellation cheaper, the check-in day and the days after
\* it included.
WaitingNeverPays ==
    [][row.status = Confirmed /\ row'.status = Confirmed => Quote' >= Quote]_vars

\* The fee by the hours that were left until the check-in day began for the server
ClockFee(at) ==
    LET left == LocalMidnight(stay.in) - at
    IN  IF left > 6 * Day THEN 0
        ELSE IF left > 2 * Day THEN row.totalFee \div 2
        ELSE row.totalFee

\* A confirmed booking ends with the fee of the instant at which its guest asked,
\* however late the cancellation runs and whatever runs before it; only a failed
\* payment, even one reported after a success, and a pass that had listed it
\* before it was paid waive the fee.
EndsByTheClock ==
    ending # NotEnded =>
        row.cancellationFee = IF ending.reason = ByGuest THEN ClockFee(ending.at) ELSE 0

\* What Book answered is what the guest will be charged: a total that does not fit
\* its column is refused, up to 2^32, from where on a wrapped total is positive
\* again.  A booking that was not answered costs nothing, although it can be paid.
TotalAsAnswered ==
    IF answered = NoAnswer THEN row.totalFee = 0
    ELSE row.totalFee = answered \/ answered >= 2 * Half

=============================================================================
