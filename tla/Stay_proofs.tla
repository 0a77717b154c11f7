----------------------------- MODULE Stay_proofs -----------------------------
(***************************************************************************)
(* The calendar rules of Stay, proved for every zone that is less than a   *)
(* day away from Greenwich, every clock reading and every fee.             *)
(***************************************************************************)
EXTENDS Stay, TLAPS

-----------------------------------------------------------------------------
(* Columns *)

\* What is narrowed to a column lies in the column, for every width.
LEMMA Narrowed ==
    ASSUME NEW n \in Int
    PROVE  Int32(n) \in Columns
BY WidthAssumption DEF Int32, Columns

LEMMA ModBelow ==
    ASSUME NEW m \in Nat \ {0}, NEW x \in 0 .. m - 1
    PROVE  x % m = x
OBVIOUS

LEMMA ModAbove ==
    ASSUME NEW m \in Nat \ {0}, NEW x \in m .. 2 * m - 1
    PROVE  x % m = x - m
OBVIOUS

\* Below 2^32 a number either fits its column or becomes a negative one.
LEMMA FirstTurn ==
    ASSUME NEW n \in Nat, n < 2 * Half
    PROVE  Int32(n) = IF n < Half THEN n ELSE n - 2 * Half
<1> DEFINE m == 2 * Half
<1>1. m \in Nat \ {0} /\ Half \in Nat \ {0}
    BY WidthAssumption
<1>2. CASE n < Half
    BY <1>1, <1>2, ModBelow DEF Int32
<1>3. CASE n >= Half
    BY <1>1, <1>3, ModAbove DEF Int32
<1> QED
    BY <1>1, <1>2, <1>3

-----------------------------------------------------------------------------
(* Days *)

\* The server's calendar shows the day that its clock is in: the day begins before
\* the clock and ends after it.
LEMMA LocalDayBounds ==
    ASSUME zone \in Int, NEW t \in Int
    PROVE  /\ LocalDay(t) \in Int
           /\ LocalMidnight(LocalDay(t)) <= t
           /\ t < LocalMidnight(LocalDay(t) + 1)
BY DEF LocalDay, LocalMidnight, Day

\* The calendar does not run back.
LEMMA LocalDayMonotone ==
    ASSUME zone \in Int, NEW s \in Int, NEW t \in Int, s <= t
    PROVE  LocalDay(s) <= LocalDay(t)
BY DEF LocalDay, Day

\* The days of a cancellation stand for hours: seven days and more are more than
\* six days' hours before the check-in day begins.
LEMMA DaysAreHours ==
    ASSUME zone \in Int, NEW t \in Int, NEW date \in Int, NEW k \in Int
    PROVE  daysBetween(t, date) >= k <=> LocalMidnight(date) - t > (k - 1) * Day
BY DEF daysBetween, LocalDay, LocalMidnight, Day

\* Half of a total is not above it, and the fee never is.
LEMMA FeeBounds ==
    ASSUME NEW days \in Int, NEW total \in Nat, NEW reason
    PROVE  /\ CalculateCancellationFee(days, total, reason) \in 0 .. total
           /\ (total * 50) \div 100 = total \div 2
BY DEF CalculateCancellationFee

\* Fewer days never mean a lower fee.
LEMMA FeeGrows ==
    ASSUME NEW d \in Int, NEW e \in Int, e <= d, NEW total \in Nat
    PROVE  CalculateCancellationFee(d, total, ByGuest)
             <= CalculateCancellationFee(e, total, ByGuest)
BY DEF CalculateCancellationFee

-----------------------------------------------------------------------------
(* Types *)

LEMMA CancelTyped ==
    ASSUME NEW k \in BookingType, NEW reason \in CancellationReason, NEW days \in Int
    PROVE  /\ AfterCancel(k, reason, days) \in BookingType
           /\ AfterCancel(k, reason, days).status = Cancelled
           /\ AfterCancel(k, reason, days).totalFee = k.totalFee
           /\ AfterCancel(k, reason, days).cancellationFee <= k.totalFee
              \/ AfterCancel(k, reason, days) = k
           /\ k.status = Cancelled => AfterCancel(k, reason, days) = k
           /\ k.status = Confirmed =>
                 AfterCancel(k, reason, days).cancellationFee
                   = CalculateCancellationFee(days, k.totalFee, reason)
<1> DEFINE fee == CalculateCancellationFee(days, k.totalFee, reason)
<1>1. fee \in 0 .. k.totalFee
    BY FeeBounds DEF BookingType
<1> HIDE DEF fee
<1>2. Cancelled \in Status
    BY DEF Status
<1>3. CASE k.status = Cancelled
    BY <1>3 DEF AfterCancel, Cancelled, Confirmed
<1>4. CASE k.status # Cancelled
  <2>1. AfterCancel(k, reason, days) =
          [k EXCEPT !.status = Cancelled,
                    !.cancellationFee = IF k.status = Confirmed THEN fee ELSE 0]
      BY <1>4 DEF AfterCancel, fee
  <2> DEFINE charged == IF k.status = Confirmed THEN fee ELSE 0
             cancelled == [k EXCEPT !.status = Cancelled]
  <2>2. charged \in 0 .. k.totalFee /\ charged \in Nat
      BY <1>1 DEF BookingType
  <2> HIDE DEF charged
  <2>3. cancelled \in BookingType
      BY <1>2 DEF BookingType
  <2>4. \A m \in BookingType : [m EXCEPT !.cancellationFee = charged] \in BookingType
      BY <2>2 DEF BookingType
  <2>5. AfterCancel(k, reason, days) \in BookingType
      BY <2>1, <2>3, <2>4, Zenon DEF charged
  <2>6. /\ AfterCancel(k, reason, days).status = Cancelled
        /\ AfterCancel(k, reason, days).totalFee = k.totalFee
        /\ AfterCancel(k, reason, days).cancellationFee = charged
      BY <2>1 DEF BookingType, charged
  <2>7. AfterCancel(k, reason, days).cancellationFee <= k.totalFee
      BY <2>2, <2>6 DEF BookingType
  <2>8. k.status = Confirmed =>
          AfterCancel(k, reason, days).cancellationFee
            = CalculateCancellationFee(days, k.totalFee, reason)
      BY <2>6 DEF charged, fee
  <2> QED
      BY <1>4, <2>5, <2>6, <2>7, <2>8
<1> QED
    BY <1>3, <1>4

LEMMA StayTyped == TypeOK => stay.in \in Nat
<1> SUFFICES ASSUME TypeOK
             PROVE  stay.in \in Nat
    OBVIOUS
<1>1. CASE stay = NoStay
    BY <1>1 DEF NoStay
<1>2. CASE stay \in [in : Dates, out : Dates]
    BY <1>2, DatesAssumption
<1> QED
    BY <1>1, <1>2 DEF TypeOK

\* Only a cancelled booking has an ending, and it keeps its row and its dates.
IInv ==
    /\ TypeOK
    /\ ending # NotEnded => row.status = Cancelled
    /\ row.status # TemporaryHold => stay # NoStay
    /\ EndsByTheClock

LEMMA InitIInv == Init => IInv
<1> SUFFICES ASSUME Init
             PROVE  IInv
    OBVIOUS
<1>1. row \in BookingType /\ row.totalFee = 0 /\ row.cancellationFee = 0
    BY DEF Init, NewBooking, BookingType, Status
<1>2. TypeOK
    BY <1>1, HorizonAssumption, WidthAssumption DEF Init, TypeOK
<1> QED
    BY <1>2 DEF Init, IInv, EndsByTheClock, NewBooking

\* A cancellation by a reading that was taken keeps the rest of the invariant.
LEMMA CancelIInv ==
    ASSUME IInv, NEW reason \in CancellationReason, NEW at \in 0 .. now,
           Cancel(reason, at), asked' \in 0 .. now \cup {NoReading}
    PROVE  IInv'
<1> DEFINE days == daysBetween(at, stay.in)
<1>1. zone \in Int /\ stay.in \in Int /\ at \in Int /\ row \in BookingType
  <2>1. zone \in -23 .. 23 /\ now \in Nat
      BY ZonesAssumption, HorizonAssumption DEF IInv, TypeOK
  <2>2. stay.in \in Nat
      BY StayTyped DEF IInv
  <2>3. row \in BookingType
      BY DEF IInv, TypeOK
  <2> QED
      BY <2>1, <2>2, <2>3
<1>2. days \in Int
    BY <1>1, LocalDayBounds DEF daysBetween
<1>3. row' = AfterCancel(row, reason, days)
    BY DEF Cancel
<1> HIDE DEF days
<1>4. /\ row' \in BookingType /\ row'.status = Cancelled
      /\ row'.totalFee = row.totalFee
      /\ row'.cancellationFee <= row.totalFee \/ row' = row
      /\ row.status = Cancelled => row' = row
      /\ row.status = Confirmed =>
            row'.cancellationFee = CalculateCancellationFee(days, row.totalFee, reason)
    BY <1>1, <1>2, <1>3, CancelTyped
<1>5. row'.cancellationFee < Half /\ row'.totalFee < Half
    BY <1>1, <1>4, WidthAssumption DEF IInv, TypeOK, BookingType
<1>6. TypeOK'
    BY <1>4, <1>5 DEF IInv, TypeOK, Cancel
<1>7. stay # NoStay /\ stay' = stay /\ zone' = zone
    BY DEF Cancel
<1>8. CASE row.status = Confirmed
  <2>1. ending' = [reason |-> reason, at |-> at]
      BY <1>8 DEF Cancel
  <2>2. reason # ByGuest => row'.cancellationFee = 0
      BY <1>4, <1>8 DEF CalculateCancellationFee
  <2>3. ASSUME reason = ByGuest
        PROVE  row'.cancellationFee = ClockFee(at)
    <3>1. row.totalFee \in Nat
        BY <1>1 DEF BookingType
    <3>2. (row.totalFee * 50) \div 100 = row.totalFee \div 2
        BY <1>2, <3>1, FeeBounds
    <3>3. /\ days >= 7 <=> LocalMidnight(stay.in) - at > 6 * Day
          /\ days >= 3 <=> LocalMidnight(stay.in) - at > 2 * Day
      <4> PICK date : date = stay.in
          OBVIOUS
      <4>0. days = daysBetween(at, date) /\ date \in Int
          BY <1>1 DEF days
      <4>1. days >= 7 <=> LocalMidnight(date) - at > (7 - 1) * Day
          BY <1>1, <4>0, DaysAreHours
      <4>2. days >= 3 <=> LocalMidnight(date) - at > (3 - 1) * Day
          BY <1>1, <4>0, DaysAreHours
      <4> QED
          BY <4>1, <4>2 DEF Day
    <3> QED
        BY <1>4, <1>8, <2>3, <3>2, <3>3 DEF CalculateCancellationFee, ClockFee
  <2>4. ClockFee(at)' = ClockFee(at)
      BY <1>4, <1>7 DEF ClockFee, LocalMidnight
  <2>5. EndsByTheClock'
      BY <2>1, <2>2, <2>3, <2>4 DEF EndsByTheClock
  <2> QED
      BY <1>4, <1>6, <1>7, <2>5 DEF IInv
<1>9. CASE row.status # Confirmed
  <2>1. ending' = ending
      BY <1>9 DEF Cancel
  <2>2. CASE ending = NotEnded
      BY <1>4, <1>6, <1>7, <2>1, <2>2 DEF IInv, EndsByTheClock
  <2>3. CASE ending # NotEnded
    <3>1. row' = row
        BY <1>4, <2>3 DEF IInv
    <3>2. EndsByTheClock'
        BY <1>7, <2>1, <3>1 DEF IInv, EndsByTheClock, ClockFee, LocalMidnight
    <3> QED
        BY <1>4, <1>6, <1>7, <2>1, <3>2 DEF IInv
  <2> QED
      BY <2>2, <2>3
<1> QED
    BY <1>8, <1>9

\* No transition leads from cancelled.
LEMMA CancelledStays ==
    ASSUME row \in BookingType, row.status = Cancelled
    PROVE  ~CanStartPayment(row) /\ ~CanConfirm(row)
<1>1. allowedTransitions[Cancelled] = {}
    BY DEF allowedTransitions, Status, Cancelled, TemporaryHold, ProcessingPayment, Confirmed
<1> QED
    BY <1>1 DEF CanStartPayment, CanConfirm, canTransition, Cancelled, Confirmed

\* A step that leaves the ending alone keeps the invariant if its types are right
\* and it touches the row of no booking that has ended.
LEMMA CancelStatus ==
    ASSUME row \in BookingType, NEW reason, NEW days
    PROVE  AfterCancel(row, reason, days).status = Cancelled
BY DEF AfterCancel, BookingType

LEMMA Untouched ==
    ASSUME IInv, TypeOK', ending' = ending, zone' = zone,
           ending # NotEnded => row' = row /\ stay' = stay,
           row'.status # TemporaryHold => stay' # NoStay
    PROVE  IInv'
BY DEF IInv, EndsByTheClock, ClockFee, LocalMidnight

LEMMA NextIInv == IInv /\ [Next]_vars => IInv'
<1> SUFFICES ASSUME IInv, [Next]_vars
             PROVE  IInv'
    OBVIOUS
<1>n. Cancelled # TemporaryHold
    BY DEF Cancelled, TemporaryHold
<1>s. ASSUME NEW in \in Dates, NEW out \in Dates, Arrives(in, out)
      PROVE  stay' # NoStay /\ ending = NotEnded
    BY <1>n, <1>s, DatesAssumption DEF Arrives, NewStayPeriod, Midnight, Day, NoStay, IInv
<1>a. TypeOK /\ row \in BookingType /\ row.totalFee < Half /\ row.cancellationFee < Half
    BY DEF IInv, TypeOK
<1>b. now \in Nat /\ zone \in Int
    BY ZonesAssumption, HorizonAssumption DEF IInv, TypeOK
<1>1. ASSUME NEW in \in Dates, NEW out \in Dates, Book(in, out)
      PROVE  IInv'
  <2>1. PICK total \in Totals :
          IF StoresTotal(total)
          THEN row' = AfterFixTotalFee(row, Int32(total)) /\ answered' = total
          ELSE UNCHANGED <<row, answered>>
      BY <1>1 DEF Book
  <2>2. total \in Nat
      BY TotalsAssumption
  <2>3. CASE StoresTotal(total)
    <3>1. Int32(total) \in Nat /\ Int32(total) < Half
        BY <2>2, <2>3, Narrowed, WidthAssumption DEF StoresTotal, Columns
    <3>2. row' \in BookingType /\ row'.totalFee < Half /\ row'.cancellationFee < Half
        BY <1>a, <2>1, <2>3, <3>1 DEF AfterFixTotalFee, BookingType
    <3> QED
        BY <1>1, <1>s, <1>a, <2>1, <2>2, <2>3, <3>2, Untouched DEF Book, Arrives, TypeOK, IInv
  <2>4. CASE ~StoresTotal(total)
      BY <1>1, <1>s, <1>a, <2>1, <2>4, Untouched DEF Book, Arrives, TypeOK, IInv
  <2> QED
      BY <2>3, <2>4
<1>2. ASSUME NEW in \in Dates, NEW out \in Dates, BookRefused(in, out)
      PROVE  IInv'
  <2>1. daysBetween(now, in) \in Int
      BY <1>b, DatesAssumption, LocalDayBounds DEF daysBetween
  <2>2. row' = AfterCancel(row, Expired, daysBetween(now, in))
      BY <1>2 DEF BookRefused
  <2>3. Expired \in CancellationReason
      BY DEF CancellationReason
  <2>4. /\ row' \in BookingType /\ row'.totalFee = row.totalFee
        /\ row'.cancellationFee <= row.totalFee \/ row' = row
      BY <1>a, <2>1, <2>2, <2>3, CancelTyped
  <2>5. row'.totalFee < Half /\ row'.cancellationFee < Half
      BY <1>a, <2>4, WidthAssumption DEF BookingType
  <2> QED
      BY <1>2, <1>s, <1>a, <2>4, <2>5, Untouched DEF BookRefused, Arrives, TypeOK, IInv
<1>3. ASSUME StartPayment
      PROVE  IInv'
  <2>1. row' \in BookingType /\ row'.totalFee < Half /\ row'.cancellationFee < Half
      BY <1>3, <1>a DEF StartPayment, AfterStartPayment, BookingType, Status
  <2> QED
      BY <1>3, <1>a, <2>1, CancelledStays, Untouched DEF StartPayment, TypeOK, IInv
<1>4. ASSUME Confirm
      PROVE  IInv'
  <2>1. row' \in BookingType /\ row'.totalFee < Half /\ row'.cancellationFee < Half
      BY <1>4, <1>a DEF Confirm, AfterConfirm, BookingType, Status
  <2> QED
      BY <1>4, <1>a, <2>1, CancelledStays, Untouched DEF Confirm, TypeOK, IInv
<1>5. ASSUME AskToCancel
      PROVE  IInv'
    BY <1>5, <1>a, <1>b, Untouched DEF AskToCancel, TypeOK, IInv
<1>6. ASSUME GuestCancels
      PROVE  IInv'
  <2>1. asked \in 0 .. now /\ ByGuest \in CancellationReason
      BY <1>6, <1>a DEF GuestCancels, TypeOK, CancellationReason
  <2> QED
      BY <1>6, <2>1, CancelIInv DEF GuestCancels
<1>7. ASSUME PaymentFails
      PROVE  IInv'
  <2>1. PaymentFailed \in CancellationReason /\ asked' \in 0 .. now \cup {NoReading}
      BY <1>7, <1>a DEF PaymentFails, TypeOK, CancellationReason
  <2> QED
      BY <1>7, <1>b, <2>1, CancelIInv DEF PaymentFails
<1>8. ASSUME ListStale
      PROVE  IInv'
    BY <1>8, <1>a, Untouched DEF ListStale, TypeOK, IInv
<1>9. ASSUME Expire
      PROVE  IInv'
  <2>1. Expired \in CancellationReason /\ asked' \in 0 .. now \cup {NoReading}
      BY <1>9, <1>a DEF Expire, TypeOK, CancellationReason
  <2> QED
      BY <1>9, <1>b, <2>1, CancelIInv DEF Expire
<1>10. ASSUME Tick
       PROVE  IInv'
  <2>1. now' \in 0 .. Horizon /\ now <= now'
      BY <1>10, <1>b, HorizonAssumption DEF Tick
  <2>2. 0 .. now \subseteq 0 .. now'
      BY <1>b, <2>1
  <2>3. /\ asked' \in 0 .. now' \cup {NoReading}
        /\ ending' \in [reason : CancellationReason, at : 0 .. now'] \cup {NotEnded}
      BY <1>10, <1>a, <2>2 DEF Tick, TypeOK
  <2>4. expiry' \in {"fresh", "stale", "listed"}
      BY <1>10, <1>a DEF Tick, TypeOK
  <2> QED
      BY <1>10, <1>a, <2>1, <2>3, <2>4, Untouched DEF Tick, TypeOK, IInv
<1>11. CASE UNCHANGED vars
    BY <1>11, <1>a, Untouched DEF vars, TypeOK, IInv
<1> QED
    BY <1>1, <1>2, <1>3, <1>4, <1>5, <1>6, <1>7, <1>8, <1>9, <1>10, <1>11 DEF Next

LEMMA Invariant == Spec => []IInv
BY InitIInv, NextIInv, PTL DEF Spec

-----------------------------------------------------------------------------
(* Theorems *)

\* The row, the clock readings and the dates have their types, and what is stored
\* fits its columns, whatever the totals are.
THEOREM TypeCorrect == Spec => []TypeOK
<1>1. IInv => TypeOK
    BY DEF IInv
<1> QED
    BY <1>1, Invariant, PTL

\* Book accepts today and the days to come on the server's calendar, from tomorrow
\* in a zone behind Greenwich, and every date that can still be registered.
THEOREM TodayIsBookable == Spec => []BookableDays
<1>1. IInv => BookableDays
  <2> SUFFICES ASSUME IInv, NEW date \in Dates
               PROVE  /\ CanBookAt(date, now) <=> IF zone >= 0 THEN date >= LocalDay(now)
                                                            ELSE date > LocalDay(now)
                      /\ CanRegisterAt(date, now) => CanBookAt(date, now)
      BY DEF BookableDays
  <2>1. now \in Int /\ zone \in -23 .. 23 /\ date \in Int
      BY ZonesAssumption, HorizonAssumption, DatesAssumption DEF IInv, TypeOK
  <2>2. LocalDay(now) \in Int /\ LocalMidnight(LocalDay(now)) <= now
      BY <2>1, LocalDayBounds
  <2> QED
      BY <2>1, <2>2 DEF CanBookAt, CanRegisterAt, truncateToDate, LocalMidnight, Midnight, Day
<1> QED
    BY <1>1, Invariant, PTL

\* Waiting never makes the cancellation of a confirmed booking cheaper.
THEOREM QuoteNeverFalls == Spec => WaitingNeverPays
<1>1. IInv /\ [Next]_vars
        => [row.status = Confirmed /\ row'.status = Confirmed => Quote' >= Quote]_vars
  <2> SUFFICES ASSUME IInv, Next, row.status = Confirmed, row'.status = Confirmed
               PROVE  Quote' >= Quote
      BY DEF vars
  <2>1. /\ zone' = zone /\ now' \in Nat /\ now <= now'
        /\ now \in Nat /\ zone \in Int /\ row.totalFee \in Nat
    <3>1. now \in Nat /\ zone \in Int /\ row \in BookingType
        BY ZonesAssumption, HorizonAssumption DEF IInv, TypeOK
    <3>2. zone' = zone /\ (now' = now \/ now' = now + Step)
        BY DEF Next, Book, BookRefused, Arrives, StartPayment, Confirm, AskToCancel,
               GuestCancels, PaymentFails, ListStale, Expire, Cancel, Tick
    <3> QED
        BY <3>1, <3>2, HorizonAssumption DEF BookingType
  <2>2. row'.totalFee = row.totalFee /\ stay' = stay
    <3>1. stay # NoStay
        BY DEF IInv, Confirmed, TemporaryHold
    <3>2. ASSUME NEW reason \in CancellationReason, NEW at \in 0 .. now, Cancel(reason, at)
          PROVE  FALSE
      <4>1. row \in BookingType
          BY DEF IInv, TypeOK
      <4>2. row'.status = Cancelled
          BY <3>2, <4>1, CancelStatus DEF Cancel
      <4> QED
          BY <4>2 DEF Cancelled, Confirmed
    <3>3. ~GuestCancels /\ ~PaymentFails /\ ~Expire
        BY <2>1, <3>2 DEF GuestCancels, PaymentFails, Expire, IInv, TypeOK, CancellationReason
    <3>4. CASE Confirm
        BY <3>4 DEF Confirm, AfterConfirm, BookingType, IInv, TypeOK
    <3>5. ~StartPayment
        BY DEF StartPayment, AfterStartPayment, IInv, TypeOK, BookingType, ProcessingPayment, Confirmed
    <3> QED
        BY <3>1, <3>3, <3>4, <3>5 DEF Next, Book, BookRefused, Arrives, AskToCancel, ListStale, Tick
  <2>3. stay.in \in Int
      BY StayTyped DEF IInv
  <2>4. LocalDay(now) \in Int /\ LocalDay(now') \in Int /\ LocalDay(now) <= LocalDay(now')
      BY <2>1, LocalDayBounds, LocalDayMonotone
  <2>5. daysBetween(now, stay.in)' <= daysBetween(now, stay.in)
      BY <2>1, <2>2, <2>3, <2>4 DEF daysBetween, LocalDay
  <2>6. daysBetween(now, stay.in) \in Int /\ daysBetween(now, stay.in)' \in Int
      BY <2>1, <2>2, <2>3, <2>4 DEF daysBetween, LocalDay
  <2> QED
      BY <2>1, <2>2, <2>5, <2>6, FeeGrows DEF Quote
<1> QED
    BY <1>1, Invariant, PTL DEF Spec, WaitingNeverPays

\* A confirmed booking ends with the fee of the hour at which its guest asked, or
\* with none if a payment failed or it had been listed as stale.
THEOREM FeeByTheHour == Spec => []EndsByTheClock
<1>1. IInv => EndsByTheClock
    BY DEF IInv
<1> QED
    BY <1>1, Invariant, PTL

-----------------------------------------------------------------------------
(* The total *)

PInv ==
    /\ IInv
    /\ stay = NoStay => row.totalFee = 0 /\ answered = NoAnswer
    /\ TotalAsAnswered

LEMMA NextPInv == PInv /\ [Next]_vars => PInv'
<1> SUFFICES ASSUME PInv, [Next]_vars
             PROVE  PInv'
    OBVIOUS
<1>a. IInv'
    BY NextIInv DEF PInv
<1>b. row \in BookingType /\ stay.in \in Int
    BY StayTyped DEF PInv, IInv, TypeOK
<1>c. now \in Int /\ zone \in Int /\ asked \in Int
    BY ZonesAssumption, HorizonAssumption DEF PInv, IInv, TypeOK, NoReading
<1>d. ASSUME row'.totalFee = row.totalFee, answered' = answered, stay' = NoStay => stay = NoStay
      PROVE  PInv'
    BY <1>a, <1>d DEF PInv, TotalAsAnswered
<1>e. ASSUME NEW reason \in CancellationReason, NEW at \in Int, Cancel(reason, at)
      PROVE  PInv'
  <2>1. daysBetween(at, stay.in) \in Int
      BY <1>b, <1>c, LocalDayBounds DEF daysBetween
  <2>2. row'.totalFee = row.totalFee
      BY <1>b, <1>e, <2>1, CancelTyped DEF Cancel
  <2> QED
      BY <1>d, <1>e, <2>2 DEF Cancel
<1>f. ASSUME NEW in \in Dates, NEW out \in Dates, Arrives(in, out)
      PROVE  stay' # NoStay /\ row.totalFee = 0 /\ answered = NoAnswer
    BY <1>f, DatesAssumption DEF Arrives, NewStayPeriod, Midnight, Day, NoStay, PInv
<1>1. ASSUME NEW in \in Dates, NEW out \in Dates, Book(in, out)
      PROVE  PInv'
  <2>1. PICK total \in Totals :
          IF StoresTotal(total)
          THEN row' = AfterFixTotalFee(row, Int32(total)) /\ answered' = total
          ELSE UNCHANGED <<row, answered>>
      BY <1>1 DEF Book
  <2>2. total \in Nat
      BY TotalsAssumption
  <2>3. CASE StoresTotal(total)
    <3>1. total < 2 * Half => Int32(total) = total
        BY <2>2, <2>3, FirstTurn, WidthAssumption DEF StoresTotal, Columns
    <3>2. row'.totalFee = Int32(total)
        BY <1>b, <2>1, <2>3 DEF AfterFixTotalFee, BookingType
    <3>3. TotalAsAnswered'
        BY <2>1, <2>2, <2>3, <3>1, <3>2, WidthAssumption DEF TotalAsAnswered, NoAnswer
    <3> QED
        BY <1>a, <1>1, <1>f, <3>3 DEF PInv, Book
  <2>4. CASE ~StoresTotal(total)
      BY <1>1, <1>d, <1>f, <2>1, <2>4 DEF Book
  <2> QED
      BY <2>3, <2>4
<1>2. ASSUME NEW in \in Dates, NEW out \in Dates, BookRefused(in, out)
      PROVE  PInv'
  <2>1. daysBetween(now, in) \in Int /\ Expired \in CancellationReason
      BY <1>c, DatesAssumption, LocalDayBounds DEF daysBetween, CancellationReason
  <2>2. row'.totalFee = row.totalFee
      BY <1>b, <1>2, <2>1, CancelTyped DEF BookRefused
  <2> QED
      BY <1>d, <1>f, <1>2, <2>2 DEF BookRefused
<1>3. CASE StartPayment
    BY <1>b, <1>d, <1>3 DEF StartPayment, AfterStartPayment, BookingType
<1>4. CASE Confirm
    BY <1>b, <1>d, <1>4 DEF Confirm, AfterConfirm, BookingType
<1>5. CASE GuestCancels \/ PaymentFails \/ Expire
    BY <1>c, <1>e, <1>5 DEF GuestCancels, PaymentFails, Expire, CancellationReason
<1>6. CASE AskToCancel \/ ListStale \/ Tick \/ UNCHANGED vars
    BY <1>d, <1>6 DEF AskToCancel, ListStale, Tick, vars
<1> QED
    BY <1>1, <1>2, <1>3, <1>4, <1>5, <1>6 DEF Next

\* The total that Book answered is the one that is charged, for every width of the
\* column and every total below twice its half: what does not fit is refused.
THEOREM ChargedAsAnswered == Spec => []TotalAsAnswered
<1>1. Init => PInv
    BY InitIInv DEF Init, PInv, TotalAsAnswered, NewBooking
<1>2. PInv => TotalAsAnswered
    BY DEF PInv
<1> QED
    BY <1>1, <1>2, NextPInv, PTL DEF Spec

=============================================================================
