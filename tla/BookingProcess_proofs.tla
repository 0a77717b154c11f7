------------------------ MODULE BookingProcess_proofs ------------------------
(***************************************************************************)
(* Why bookings and the holds on their nights agree at every moment,       *)
(* although each is written in a transaction of its own: for every set of  *)
(* bookings, nights, stays and requests, any HoldTTL, any number of        *)
(* failures and any operator, as long as clients wait for Book to answer.  *)
(***************************************************************************)
EXTENDS BookingProcess, TLAPS, FiniteSetTheorems, FunctionTheorems

P == INSTANCE InventoryDomain_proofs

-----------------------------------------------------------------------------
(* What an operation on one night does to the holds that are paid for      *)

\* It changes none of them.
Quiet(v, w) ==
    /\ P!WellFormed(w) /\ w.fee = v.fee
    /\ \A d \in Bookings : /\ P!Paid(w, d) <=> P!Paid(v, d)
                           /\ P!Sure(w, d) <=> P!Sure(v, d)

\* It takes none away, and only b can gain one.
Advances(v, w, b) ==
    /\ P!WellFormed(w) /\ w.fee = v.fee
    /\ \A d \in Bookings : /\ P!Paid(w, d) => P!Paid(v, d) \/ d = b
                           /\ P!Paid(v, d) => P!Paid(w, d)
                           /\ P!Sure(v, d) => P!Sure(w, d)

\* It gives none, and only b can lose one.
Frees(v, w, b) ==
    /\ P!WellFormed(w) /\ w.fee = v.fee
    /\ \A d \in Bookings : /\ P!Paid(w, d) => P!Paid(v, d)
                           /\ d # b => /\ P!Paid(v, d) => P!Paid(w, d)
                                       /\ P!Sure(v, d) => P!Sure(w, d)

LEMMA WellFormedIsTyped ==
    ASSUME NEW v, P!WellFormed(v)
    PROVE  v \in P!InventoryType /\ v \in Inv!InventoryType
BY DEF P!WellFormed, P!InventoryType, Inv!InventoryType, P!HoldType, Inv!HoldType,
       P!HoldStatus, Inv!HoldStatus, P!TemporaryHold, Inv!TemporaryHold,
       P!ProcessingPayment, Inv!ProcessingPayment, P!HoldConfirmed, Inv!HoldConfirmed,
       P!NoExpiry, Inv!NoExpiry

LEMMA NewIsWellFormed ==
    ASSUME NEW quantity \in Nat
    PROVE  /\ P!WellFormed(Inv!NewInventory(quantity, 1))
           /\ Inv!NewInventory(quantity, 1).fee = 1
           /\ \A d : ~P!Paid(Inv!NewInventory(quantity, 1), d)
<1> DEFINE w == Inv!NewInventory(quantity, 1)
<1>1. w.holds = {} /\ w.fee = 1
    BY DEF Inv!NewInventory
<1>2. w \in P!InventoryType
    BY DEF Inv!NewInventory, P!InventoryType
<1> HIDE DEF w
<1>3. P!WellFormed(w)
    BY <1>1, <1>2 DEF P!WellFormed, P!SlotsInRange, P!UsedSlots, P!Distinct,
       P!OnePerBooking, P!ExpiryMatches
<1>4. \A d : ~P!Paid(w, d)
    BY <1>1 DEF P!Paid, P!HoldsOf
<1> QED
    BY <1>1, <1>3, <1>4 DEF w

LEMMA HoldIsQuiet ==
    ASSUME NEW v, P!WellFormed(v), NEW b \in Bookings, NEW e \in Nat, NEW at \in Nat,
           Inv!CanHold(v, b, e, at)
    PROVE  Quiet(v, Inv!AfterHold(v, b, e))
<1>1. P!CanHold(v, b, e, at)
    BY DEF Inv!CanHold, P!CanHold, Inv!HasHold, P!HasHold, Inv!HoldsOf, P!HoldsOf,
           Inv!VacantSlots, P!VacantSlots, Inv!UsedSlots, P!UsedSlots
<1>2. Inv!AfterHold(v, b, e) = P!AfterHold(v, b, e)
    BY DEF Inv!AfterHold, P!AfterHold, Inv!vacantSlotNo, P!vacantSlotNo,
           Inv!VacantSlots, P!VacantSlots, Inv!UsedSlots, P!UsedSlots,
           Inv!TemporaryHold, P!TemporaryHold, Inv!Min, P!Min
<1>3. P!WellFormed(P!AfterHold(v, b, e))
    BY <1>1, P!HoldKeepsWellFormed
<1> QED
    BY <1>2, <1>3, WellFormedIsTyped, P!HoldPaysNothing DEF Quiet

LEMMA SameHoldOf ==
    ASSUME NEW v, NEW b
    PROVE  Inv!holdOf(v, b) = P!holdOf(v, b) /\ (Inv!HasHold(v, b) <=> P!HasHold(v, b))
BY DEF Inv!holdOf, P!holdOf, Inv!HasHold, P!HasHold, Inv!HoldsOf, P!HoldsOf

LEMMA WithStatusAdvances ==
    ASSUME NEW v, P!WellFormed(v), NEW b, Inv!HasHold(v, b),
           NEW status \in {P!ProcessingPayment, P!HoldConfirmed},
           Inv!holdOf(v, b).status = P!TemporaryHold \/ status = P!HoldConfirmed
    PROVE  /\ Advances(v, Inv!WithStatus(v, Inv!holdOf(v, b), status), b)
           /\ status = P!HoldConfirmed =>
                 P!Sure(Inv!WithStatus(v, Inv!holdOf(v, b), status), b)
<1> DEFINE h == P!holdOf(v, b)
           w == P!WithStatus(v, h, status)
<1>1. Inv!holdOf(v, b) = h /\ P!HasHold(v, b)
    BY SameHoldOf
<1>2. h \in v.holds /\ h.bookingId = b
    BY <1>1, P!HoldOfIsHeld
<1>3. Inv!WithStatus(v, h, status) = w
    BY DEF Inv!WithStatus, P!WithStatus, Inv!NoExpiry, P!NoExpiry
<1> HIDE DEF h
<1>4. P!WellFormed(w)
    BY <1>2, P!WithStatusKeepsWellFormed
<1>5. v \in P!InventoryType /\ (h.status = P!TemporaryHold \/ status = P!HoldConfirmed)
    BY <1>1, WellFormedIsTyped
<1>6. \A d : /\ w.fee = v.fee
             /\ P!Paid(w, d) => P!Paid(v, d) \/ d = b
             /\ P!Paid(v, d) => P!Paid(w, d)
             /\ P!Sure(v, d) => P!Sure(w, d)
             /\ status = P!HoldConfirmed => P!Sure(w, b)
    BY <1>2, <1>5, P!WithStatusPays
<1> QED
    BY <1>1, <1>3, <1>4, <1>6 DEF Advances

LEMMA PaymentAdvances ==
    ASSUME NEW v, P!WellFormed(v), NEW b, Inv!CanStartPayment(v, b)
    PROVE  Advances(v, Inv!AfterStartPayment(v, b), b)
BY WithStatusAdvances DEF Inv!CanStartPayment, Inv!AfterStartPayment,
   Inv!TemporaryHold, P!TemporaryHold, Inv!ProcessingPayment, P!ProcessingPayment

LEMMA ConfirmAdvances ==
    ASSUME NEW v, P!WellFormed(v), NEW b, Inv!CanConfirm(v, b)
    PROVE  Advances(v, Inv!AfterConfirm(v, b), b) /\ P!Sure(Inv!AfterConfirm(v, b), b)
BY WithStatusAdvances DEF Inv!CanConfirm, Inv!AfterConfirm, Inv!HoldConfirmed, P!HoldConfirmed

LEMMA ReleaseFrees ==
    ASSUME NEW v, P!WellFormed(v), NEW b, Inv!CanRelease(v, b)
    PROVE  Frees(v, Inv!AfterRelease(v, b), b)
<1> DEFINE gone == {P!holdOf(v, b)}
           w == [v EXCEPT !.holds = @ \ gone]
<1>1. Inv!AfterRelease(v, b) = w
    BY SameHoldOf DEF Inv!AfterRelease
<1>2. \A h \in gone : h.bookingId = b
    BY SameHoldOf, P!HoldOfIsHeld DEF Inv!CanRelease
<1>3. P!WellFormed(w)
    BY P!FewerHoldsKeepsWellFormed
<1>4. \A d : /\ w.fee = v.fee
             /\ P!Paid(w, d) => P!Paid(v, d)
             /\ (\A h \in gone : h.status = P!TemporaryHold \/ h.bookingId # d)
                  => (P!Paid(v, d) => P!Paid(w, d)) /\ (P!Sure(v, d) => P!Sure(w, d))
    <2> HIDE DEF gone
    <2> QED
        BY WellFormedIsTyped, P!FewerHoldsPay
<1> HIDE DEF w, gone
<1> QED
    BY <1>1, <1>2, <1>3, <1>4 DEF Frees

LEMMA CollectIsQuiet ==
    ASSUME NEW v, P!WellFormed(v), NEW at
    PROVE  Quiet(v, Inv!AfterCollectExpired(v, at))
<1> DEFINE gone == Inv!ExpiredHolds(v, at)
           w == [v EXCEPT !.holds = @ \ gone]
<1>1. Inv!AfterCollectExpired(v, at) = w
    BY DEF Inv!AfterCollectExpired
<1>2. \A h \in gone : h.status = P!TemporaryHold
    BY DEF Inv!ExpiredHolds, Inv!TemporaryHold, P!TemporaryHold
<1> HIDE DEF gone
<1>3. P!WellFormed(w)
    BY P!FewerHoldsKeepsWellFormed
<1>4. \A d : /\ w.fee = v.fee
             /\ P!Paid(w, d) => P!Paid(v, d)
             /\ P!Sure(w, d) => P!Sure(v, d)
             /\ (\A h \in gone : h.status = P!TemporaryHold \/ h.bookingId # d)
                  => (P!Paid(v, d) => P!Paid(w, d)) /\ (P!Sure(v, d) => P!Sure(w, d))
    BY WellFormedIsTyped, P!FewerHoldsPay
<1> HIDE DEF w
<1> QED
    BY <1>1, <1>2, <1>3, <1>4 DEF Quiet

LEMMA OperatorIsQuiet ==
    ASSUME NEW v, P!WellFormed(v), NEW n \in Int, NEW closed \in BOOLEAN
    PROVE  /\ Inv!CanChangeQuantity(v, n) => Quiet(v, Inv!AfterChangeQuantity(v, n))
           /\ Quiet(v, [v EXCEPT !.isClosed = closed])
<1>1. v \in P!InventoryType
    BY WellFormedIsTyped
<1>2. ASSUME Inv!CanChangeQuantity(v, n)
      PROVE  Quiet(v, Inv!AfterChangeQuantity(v, n))
    <2>1. P!CanChangeQuantity(v, n)
        BY <1>2 DEF Inv!CanChangeQuantity, P!CanChangeQuantity, Inv!validQuantity, P!validQuantity,
           Inv!maxSlotNo, P!maxSlotNo, Inv!UsedSlots, P!UsedSlots, Inv!Max, P!Max
    <2>2. P!WellFormed(P!AfterChangeQuantity(v, n))
        BY <2>1, P!ChangeQuantityKeepsWellFormed
    <2>3. Inv!AfterChangeQuantity(v, n) = P!AfterChangeQuantity(v, n)
        BY DEF Inv!AfterChangeQuantity, P!AfterChangeQuantity
    <2>4. P!AfterChangeQuantity(v, n).holds = v.holds /\ P!AfterChangeQuantity(v, n).fee = v.fee
        BY <1>1 DEF P!AfterChangeQuantity, P!InventoryType
    <2> QED
        BY <2>2, <2>3, <2>4 DEF Quiet, P!Paid, P!Sure, P!HoldsOf
<1>3. Quiet(v, [v EXCEPT !.isClosed = closed])
    <2> DEFINE w == [v EXCEPT !.isClosed = closed]
    <2>1. /\ w.holds = v.holds /\ w.fee = v.fee
          /\ w.quantityAvailable = v.quantityAvailable /\ w \in P!InventoryType
        BY <1>1 DEF P!InventoryType
    <2> HIDE DEF w
    <2>2. P!WellFormed(w)
        BY <2>1 DEF P!WellFormed, P!SlotsInRange, P!UsedSlots, P!Distinct,
           P!OnePerBooking, P!ExpiryMatches
    <2>3. Quiet(v, w)
        BY <2>1, <2>2 DEF Quiet, P!Paid, P!Sure, P!HoldsOf
    <2> QED
        BY <2>3 DEF w
<1> QED
    BY <1>2, <1>3

-----------------------------------------------------------------------------
(* The inductive invariant *)

Paid(b, n) == P!Paid(inventory[n], b)
Sure(b, n) == P!Sure(inventory[n], b)

Temporary == Domain!TemporaryHold
BegunPaying == {Domain!ProcessingPayment, Domain!Confirmed, Domain!Cancelled}

Aggregates == \A n \in Nights : P!WellFormed(inventory[n]) /\ inventory[n].fee = 1

\* A request is on a night of its booking's stay, sees the clock move at most
\* once, and counts the nights that it holds.
Placed(r) ==
    /\ r.b \in Bookings
    /\ r.at <= now /\ now <= r.at + 1
    /\ r.pc = "create" => r.held = 0 /\ r.total = 0
    /\ r.pc \in {"hold", "pay", "secure", "release"} => r.i \in 1 .. Len(Stay[r.b])
    /\ r.pc = "hold" => r.held = r.i - 1 /\ r.total = r.i - 1
    /\ r.pc = "fix" => r.total = Len(Stay[r.b])
    /\ r.pc = "undo" => 1 <= r.i /\ r.i <= r.held /\ r.held <= Len(Stay[r.b])
RequestsPlaced == \A c \in Requests : req[c].pc # "idle" => Placed(req[c])

OneBook ==
    \A c, d \in Requests :
        req[c].pc \in InBook /\ req[d].pc \in InBook /\ req[c].b = req[d].b => c = d

\* While Book runs its booking is what Book made it, and too young to be stale.
BookAhead ==
    \A c \in Requests : req[c].pc \in InBook =>
        LET k == booking[req[c].b] IN
        IF req[c].pc = "create" THEN k.status = Unsaved
        ELSE k.status = Temporary /\ req[c].at <= k.createdAt

FollowUps ==
    \A c \in Requests :
        /\ req[c].pc \in {"pay", "secure", "confirm"} => booking[req[c].b].status \in BegunPaying
        /\ req[c].pc = "release" => booking[req[c].b].status = Domain!Cancelled

WorkerPlaced ==
    /\ worker.at <= now
    /\ \A b \in worker.stale : booking[b].status # Unsaved
                               /\ booking[b].createdAt < worker.at - TTL
    /\ worker.pc = "release" => /\ worker.b \in Bookings
                                /\ worker.i \in 1 .. Len(Stay[worker.b])
                                /\ booking[worker.b].status = Domain!Cancelled

PaidIsPaidFor ==
    \A b \in Bookings, n \in Nights : Paid(b, n) => booking[b].status \in BegunPaying

\* The nights behind a request that confirms them are confirmed, unless the
\* booking has been cancelled meanwhile.
Behind ==
    \A c \in Requests : LET r == req[c] IN
        booking[r.b].status # Domain!Cancelled =>
            /\ r.pc = "secure" => \A j \in 1 .. r.i - 1 : Sure(r.b, Stay[r.b][j])
            /\ r.pc = "confirm" => \A j \in 1 .. Len(Stay[r.b]) : Sure(r.b, Stay[r.b][j])

Housed ==
    \A b \in Bookings : booking[b].status = Domain!Confirmed =>
        \A j \in 1 .. Len(Stay[b]) : Sure(b, Stay[b][j])

Priced ==
    faults = 0 => \A b \in Bookings :
        booking[b].status \notin {Unsaved, Domain!Cancelled}
            => booking[b].totalFee = Len(Stay[b]) \/ BookRuns(b)

FreeSoFar ==
    \A b \in Bookings : booking[b].status # Domain!Cancelled => booking[b].cancellationFee = 0

IInv ==
    /\ TypeOK /\ Aggregates /\ RequestsPlaced /\ OneBook /\ BookAhead /\ FollowUps
    /\ WorkerPlaced /\ PaidIsPaidFor /\ Behind /\ Housed /\ Priced /\ FreeSoFar

-----------------------------------------------------------------------------
(* Who writes what *)

LEMMA StayFacts ==
    ASSUME NEW b \in Bookings
    PROVE  /\ Len(Stay[b]) \in Nat /\ 1 <= Len(Stay[b])
           /\ \A i \in 1 .. Len(Stay[b]) : Stay[b][i] \in Nights
<1>1. Stay[b] \in Seq(Nights) /\ Stay[b] # <<>>
    BY StayAssumption
<1> QED
    BY <1>1

LEMMA BookingWriters ==
    ASSUME [Next]_vars
    PROVE  \/ booking' = booking
           \/ \E c \in Requests : Create(c) \/ SaveUndone(c) \/ SaveFixed(c) \/ ConfirmBooking(c)
           \/ \E c \in Requests, b \in Bookings :
                 StartPayment(c, b) \/ \E reason : CancelBooking(c, b, reason)
           \/ \E b \in Bookings : ExpireBooking(b)
BY DEF vars, Next, ClientAction, RequestStep, Payment, CancelByGuest, WorkerStep, WorkerFails,
   BeginBook, HoldNight, HoldRefused, HoldFails, UndoNight, PayNight, SecureNight, NightRefused,
   ReleaseNight, Cut, BeginPass, WorkerRelease, ListDue, CollectNight, Operate, Tick

LEMMA InventoryWriters ==
    ASSUME [Next]_vars
    PROVE  \/ inventory' = inventory
           \/ \E c \in Requests : \/ HoldNight(c) \/ HoldFails(c) \/ UndoNight(c)
                                  \/ PayNight(c) \/ SecureNight(c) \/ ReleaseNight(c)
           \/ WorkerRelease \/ \E n \in Nights : CollectNight(n) \/ (n \in Operated /\ Operate(n))
BY OperatorAssumption
   DEF vars, Next, ClientAction, RequestStep, Payment, CancelByGuest, WorkerStep, WorkerFails,
   BeginBook, Create, HoldRefused, SaveUndone, SaveFixed, StartPayment, NightRefused,
   ConfirmBooking, CancelBooking, Cut, BeginPass, ExpireBooking, ListDue, Tick

LEMMA FaultsCounted ==
    ASSUME TypeOK, [Next]_vars
    PROVE  faults' \in 0 .. MaxFaults /\ faults' >= faults /\ MaxFaults \in Nat
<1>1. faults' = faults \/ Fault
    BY DEF vars, Next, ClientAction, RequestStep, Payment, CancelByGuest, WorkerStep, WorkerFails,
       BeginBook, Create, HoldNight, HoldRefused, HoldFails, UndoNight, SaveUndone, SaveFixed,
       StartPayment, PayNight, SecureNight, NightRefused, ConfirmBooking, CancelBooking,
       ReleaseNight, Cut, BeginPass, ExpireBooking, WorkerRelease, ListDue, CollectNight,
       Operate, Tick
<1> QED
    BY <1>1, BoundsAssumption DEF TypeOK, Fault

-----------------------------------------------------------------------------
(* What a step makes of the bookings *)

\* Only the row of b is written, with these columns.
Writes(b, s, total, fee, at) ==
    /\ b \in Bookings
    /\ booking' \in [Bookings -> BookingRow]
    /\ \A d \in Bookings \ {b} : booking'[d] = booking[d]
    /\ booking'[b].status = s /\ booking'[b].totalFee = total
    /\ booking'[b].cancellationFee = fee /\ booking'[b].createdAt = at

LEMMA RowFacts ==
    ASSUME TypeOK, NEW b \in Bookings
    PROVE  /\ booking[b] \in BookingRow
           /\ booking[b].status \in Domain!Status \cup {Unsaved}
           /\ booking[b].totalFee \in Nat /\ booking[b].cancellationFee \in Nat
           /\ booking[b].createdAt \in Nat
BY DEF TypeOK, BookingRow

LEMMA PutWrites ==
    ASSUME TypeOK, NEW b \in Bookings, NEW k, PutBooking(b, k),
           k.status \in Domain!Status, k.totalFee \in Nat, k.cancellationFee \in Nat
    PROVE  Writes(b, k.status, k.totalFee, k.cancellationFee, booking[b].createdAt)
<1> DEFINE old == booking[b]
           new == [old EXCEPT !.status = k.status, !.totalFee = k.totalFee,
                              !.cancellationFee = k.cancellationFee]
<1>1. old \in BookingRow /\ old.createdAt \in Nat
    BY RowFacts
<1>2. /\ new.status = k.status /\ new.totalFee = k.totalFee
      /\ new.cancellationFee = k.cancellationFee /\ new.createdAt = old.createdAt
    BY <1>1 DEF BookingRow
<1>3. new \in BookingRow
    BY <1>1 DEF BookingRow
<1>4. booking' = [booking EXCEPT ![b] = new] /\ booking \in [Bookings -> BookingRow]
    BY DEF PutBooking, TypeOK
<1> HIDE DEF new
<1> QED
    BY <1>2, <1>3, <1>4 DEF Writes

LEMMA CreateWrites ==
    ASSUME TypeOK, RequestsPlaced, NEW c \in Requests, Create(c)
    PROVE  Writes(req[c].b, Temporary, 0, 0, now)
<1>1. req[c].b \in Bookings
    BY DEF Create, RequestsPlaced, Placed
<1> DEFINE new == [status |-> Domain!NewBooking.status, totalFee |-> 0,
                   cancellationFee |-> 0, createdAt |-> now]
<1>2. booking' = [booking EXCEPT ![req[c].b] = new] /\ booking \in [Bookings -> BookingRow]
    BY DEF Create, TypeOK
<1>3. new \in BookingRow /\ new.status = Temporary /\ now \in Nat
    BY BoundsAssumption DEF TypeOK, BookingRow, Domain!NewBooking, Domain!Status, Temporary
<1> QED
    BY <1>1, <1>2, <1>3 DEF Writes

LEMMA SaveUndoneWrites ==
    ASSUME TypeOK, RequestsPlaced, NEW c \in Requests, SaveUndone(c)
    PROVE  Writes(req[c].b, Domain!Cancelled, 0, 0, booking[req[c].b].createdAt)
<1> DEFINE k == Domain!AfterCancel(InMemory, Domain!Expired, DaysBefore)
<1>1. req[c].b \in Bookings /\ PutBooking(req[c].b, k)
    BY DEF SaveUndone, RequestsPlaced, Placed
<1>2. k.status = Domain!Cancelled /\ k.totalFee = 0 /\ k.cancellationFee = 0
    BY DEF Domain!AfterCancel, InMemory, Domain!NewBooking, Domain!TemporaryHold,
           Domain!Cancelled, Domain!Confirmed
<1> HIDE DEF k
<1> QED
    BY <1>1, <1>2, PutWrites DEF Domain!Status

LEMMA SaveFixedWrites ==
    ASSUME TypeOK, RequestsPlaced, NEW c \in Requests, SaveFixed(c)
    PROVE  Writes(req[c].b, Temporary, req[c].total, 0, booking[req[c].b].createdAt)
<1> DEFINE k == Domain!AfterFixTotalFee(InMemory, req[c].total)
<1>1. req[c].b \in Bookings /\ PutBooking(req[c].b, k) /\ req[c].total \in Nat
    BY DEF SaveFixed, RequestsPlaced, Placed, TypeOK, ReqType
<1>2. k.status = Temporary /\ k.totalFee = req[c].total /\ k.cancellationFee = 0
    BY DEF Domain!AfterFixTotalFee, InMemory, Domain!NewBooking, Temporary
<1> HIDE DEF k
<1> QED
    BY <1>1, <1>2, PutWrites DEF Domain!Status, Temporary

LEMMA ConfirmBookingWrites ==
    ASSUME TypeOK, RequestsPlaced, FollowUps, NEW c \in Requests, ConfirmBooking(c)
    PROVE  IF booking[req[c].b].status = Domain!Cancelled THEN booking' = booking
           ELSE Writes(req[c].b, Domain!Confirmed, booking[req[c].b].totalFee,
                       booking[req[c].b].cancellationFee, booking[req[c].b].createdAt)
<1> DEFINE old == booking[req[c].b]
           k == Domain!AfterConfirm(old)
<1>1. req[c].b \in Bookings /\ old.status \in BegunPaying
    BY DEF ConfirmBooking, RequestsPlaced, Placed, FollowUps
<1>2. /\ Domain!CanConfirm(old) <=> old.status # Domain!Cancelled
      /\ k.status = Domain!Confirmed /\ k.totalFee = old.totalFee
      /\ k.cancellationFee = old.cancellationFee
    BY <1>1, RowFacts DEF Domain!CanConfirm, Domain!canTransition, Domain!allowedTransitions,
       Domain!AfterConfirm, BegunPaying, Domain!Status, BookingRow, Domain!Cancelled,
       Domain!Confirmed, Domain!ProcessingPayment, Domain!TemporaryHold
<1> HIDE DEF k
<1>3. old.totalFee \in Nat /\ old.cancellationFee \in Nat
    BY <1>1, RowFacts
<1> QED
    BY <1>1, <1>2, <1>3, PutWrites DEF ConfirmBooking, k, Domain!Status

LEMMA StartPaymentWrites ==
    ASSUME TypeOK, NEW c \in Requests, NEW b \in Bookings, StartPayment(c, b)
    PROVE  /\ booking[b].status = Temporary
           /\ Writes(b, Domain!ProcessingPayment, booking[b].totalFee,
                     booking[b].cancellationFee, booking[b].createdAt)
<1> DEFINE old == booking[b]
           k == Domain!AfterStartPayment(old)
<1>1. PutBooking(b, k) /\ old.status # Unsaved
    BY DEF StartPayment, MayActOn, Saved
<1>2. /\ old.status = Temporary
      /\ k.status = Domain!ProcessingPayment /\ k.totalFee = old.totalFee
      /\ k.cancellationFee = old.cancellationFee
    BY <1>1, RowFacts DEF StartPayment, Domain!CanStartPayment, Domain!canTransition,
       Domain!allowedTransitions, Domain!AfterStartPayment, Domain!Status, BookingRow, Temporary,
       Domain!Cancelled, Domain!Confirmed, Domain!ProcessingPayment, Domain!TemporaryHold
<1> HIDE DEF k
<1> QED
    BY <1>1, <1>2, RowFacts, PutWrites DEF Domain!Status

\* Cancelling changes nothing of a cancelled booking, and no cancellation costs
\* less than nothing.
LEMMA CancelWrites ==
    ASSUME TypeOK, NEW b \in Bookings, NEW reason, booking[b].status # Unsaved,
           PutBooking(b, Domain!AfterCancel(booking[b], reason, DaysBefore))
    PROVE  \E fee \in Nat :
              /\ booking[b].status = Domain!Cancelled => fee = booking[b].cancellationFee
              /\ Writes(b, Domain!Cancelled, booking[b].totalFee, fee, booking[b].createdAt)
<1> DEFINE old == booking[b]
           k == Domain!AfterCancel(old, reason, DaysBefore)
           charge == Domain!CalculateCancellationFee(DaysBefore, old.totalFee, reason)
<1>1. charge \in Nat
    BY RowFacts DEF Domain!CalculateCancellationFee
<1> HIDE DEF charge
<1>2. CASE old.status = Domain!Cancelled
    <2>1. k = old
        BY <1>2 DEF Domain!AfterCancel
    <2> QED
        BY <1>2, <2>1, RowFacts, PutWrites DEF Domain!Status
<1>3. CASE old.status # Domain!Cancelled
    <2>1. /\ k.status = Domain!Cancelled /\ k.totalFee = old.totalFee
          /\ k.cancellationFee \in {0, charge}
        BY <1>3, RowFacts DEF Domain!AfterCancel, BookingRow, charge
    <2> HIDE DEF k
    <2>2. PutBooking(b, k) /\ k.cancellationFee \in Nat
        BY <1>1, <2>1 DEF k
    <2> QED
        BY <1>3, <2>1, <2>2, RowFacts, PutWrites DEF Domain!Status
<1> QED
    BY <1>2, <1>3

\* A step takes a booking forward, or leaves it.
Moves(b) ==
    LET old == booking[b]
        new == booking'[b]
    IN  /\ old.status # Unsaved => new.status # Unsaved /\ new.createdAt = old.createdAt
        /\ old.status \in BegunPaying => new.status \in BegunPaying
        /\ new.status # Domain!Cancelled => old.status # Domain!Cancelled /\ new.cancellationFee = 0
        /\ \/ old.status = Unsaved
           \/ new.status = old.status /\ new.cancellationFee = old.cancellationFee
           \/ Domain!canTransition(old.status, new.status)

\* The worker never lists a booking whose Book still runs: HoldTTL is longer than
\* a request takes.
LEMMA YoungIsNotStale ==
    ASSUME IInv, NEW c \in Requests, req[c].pc \in InBook, NEW b \in worker.stale
    PROVE  req[c].b # b
<1> SUFFICES ASSUME req[c].b = b
             PROVE  FALSE
    OBVIOUS
<1>1. booking[b].status # Unsaved /\ booking[b].createdAt < worker.at - TTL /\ worker.at <= now
    BY DEF IInv, WorkerPlaced
<1>2. req[c].at <= booking[b].createdAt
    BY <1>1 DEF IInv, BookAhead
<1>3. now <= req[c].at + 1 /\ b \in Bookings
    BY DEF IInv, RequestsPlaced, Placed, InBook
<1>4. /\ now \in Int /\ req[c].at \in Int /\ worker.at \in Int /\ booking[b].createdAt \in Int
      /\ TTL >= 1 /\ TTL \in Int
    BY <1>3, RowFacts, BoundsAssumption DEF IInv, TypeOK, ReqType, WorkerType
<1> QED
    BY <1>1, <1>2, <1>3, <1>4

LEMMA BookLeftAlone ==
    ASSUME IInv, ClientsWait, [Next]_vars, NEW c \in Requests, req[c].pc \in InBook
    PROVE  \/ booking'[req[c].b] = booking[req[c].b]
           \/ Create(c) \/ SaveUndone(c) \/ SaveFixed(c)
<1> DEFINE b == req[c].b
<1>1. b \in Bookings
    BY DEF IInv, RequestsPlaced, Placed, InBook
<1>2. ASSUME NEW d \in Requests, Create(d) \/ SaveUndone(d) \/ SaveFixed(d), req[d].b = b
      PROVE  d = c
    BY <1>2 DEF Create, SaveUndone, SaveFixed, IInv, OneBook, InBook
<1>3. ASSUME NEW d \in Requests, ConfirmBooking(d)
      PROVE  req[d].b # b
    BY <1>3 DEF ConfirmBooking, IInv, FollowUps, BookAhead, BegunPaying, Temporary, Unsaved,
       Domain!TemporaryHold, Domain!ProcessingPayment, Domain!Confirmed, Domain!Cancelled
<1>4. ASSUME NEW d \in Requests, NEW k \in Bookings,
             StartPayment(d, k) \/ \E reason : CancelBooking(d, k, reason)
      PROVE  k # b
    BY <1>4 DEF StartPayment, CancelBooking, MayActOn, BookRuns
<1>5. ASSUME NEW k \in Bookings, ExpireBooking(k)
      PROVE  k # b
    BY <1>5, YoungIsNotStale DEF ExpireBooking, NextStale
<1>6. ASSUME NEW d \in Requests, Create(d) \/ SaveUndone(d) \/ SaveFixed(d)
      PROVE  d = c \/ booking'[b] = booking[b]
    BY <1>1, <1>2, <1>6, CreateWrites, SaveUndoneWrites, SaveFixedWrites DEF IInv, Writes
<1>7. ASSUME NEW d \in Requests, ConfirmBooking(d)
      PROVE  booking'[b] = booking[b]
    BY <1>1, <1>3, <1>7, ConfirmBookingWrites DEF IInv, Writes
<1>8. ASSUME NEW d \in Requests, NEW k \in Bookings,
             StartPayment(d, k) \/ \E reason : CancelBooking(d, k, reason)
      PROVE  booking'[b] = booking[b]
    BY <1>1, <1>4, <1>8 DEF StartPayment, CancelBooking, PutBooking, IInv, TypeOK
<1>9. ASSUME NEW k \in Bookings, ExpireBooking(k)
      PROVE  booking'[b] = booking[b]
    BY <1>1, <1>5, <1>9 DEF ExpireBooking, PutBooking, IInv, TypeOK
<1> QED
    BY <1>6, <1>7, <1>8, <1>9, BookingWriters

LEMMA BookingMoves ==
    ASSUME IInv, ClientsWait, [Next]_vars
    PROVE  booking' \in [Bookings -> BookingRow] /\ \A b \in Bookings : Moves(b)
<1> USE DEF IInv
<1> DEFINE Goal == booking' \in [Bookings -> BookingRow] /\ \A b \in Bookings : Moves(b)
<1> USE DEF Temporary, Unsaved, BegunPaying, Domain!TemporaryHold, Domain!ProcessingPayment,
        Domain!Confirmed, Domain!Cancelled
<1>1. ASSUME NEW b \in Bookings, booking'[b] = booking[b]
      PROVE  Moves(b)
    BY <1>1 DEF FreeSoFar, Moves
<1>2. ASSUME NEW b, NEW s, NEW total, NEW fee, NEW at, Writes(b, s, total, fee, at), Moves(b)
      PROVE  Goal
    BY <1>1, <1>2 DEF Writes
<1>3. CASE booking' = booking
    BY <1>1, <1>3 DEF TypeOK
<1>4. ASSUME NEW c \in Requests, Create(c)
      PROVE  Goal
    <2>1. booking[req[c].b].status = Unsaved
        BY <1>4 DEF Create, BookAhead, InBook
    <2>2. Moves(req[c].b)
        BY <1>4, <2>1, CreateWrites DEF Writes, Moves
    <2> QED
        BY <1>2, <1>4, <2>2, CreateWrites
<1>5. ASSUME NEW c \in Requests, SaveUndone(c)
      PROVE  Goal
    <2>1. booking[req[c].b].status = Temporary
        BY <1>5 DEF SaveUndone, BookAhead, InBook
    <2>2. Moves(req[c].b)
        BY <1>5, <2>1, SaveUndoneWrites DEF Writes, Moves, Domain!canTransition,
           Domain!allowedTransitions, Domain!Status
    <2> QED
        BY <1>2, <1>5, <2>2, SaveUndoneWrites
<1>6. ASSUME NEW c \in Requests, SaveFixed(c)
      PROVE  Goal
    <2>1. booking[req[c].b].status = Temporary /\ req[c].b \in Bookings
        BY <1>6 DEF SaveFixed, BookAhead, InBook, RequestsPlaced, Placed
    <2>2. Moves(req[c].b)
        BY <1>6, <2>1, SaveFixedWrites DEF Writes, Moves, FreeSoFar
    <2> QED
        BY <1>2, <1>6, <2>2, SaveFixedWrites
<1>7. ASSUME NEW c \in Requests, ConfirmBooking(c)
      PROVE  Goal
    <2>1. booking[req[c].b].status \in BegunPaying /\ req[c].b \in Bookings
        BY <1>7 DEF ConfirmBooking, FollowUps, RequestsPlaced, Placed
    <2>2. CASE booking[req[c].b].status = Domain!Cancelled
        BY <1>3, <1>7, <2>2, ConfirmBookingWrites
    <2>3. CASE booking[req[c].b].status # Domain!Cancelled
        <3>1. Writes(req[c].b, Domain!Confirmed, booking[req[c].b].totalFee,
                     booking[req[c].b].cancellationFee, booking[req[c].b].createdAt)
            BY <1>7, <2>3, ConfirmBookingWrites
        <3>2. Moves(req[c].b)
            BY <2>1, <2>3, <3>1 DEF Writes, Moves, FreeSoFar, Domain!canTransition,
               Domain!allowedTransitions, Domain!Status
        <3> QED
            BY <1>2, <3>1, <3>2
    <2> QED
        BY <2>2, <2>3
<1>8. ASSUME NEW c \in Requests, NEW b \in Bookings, StartPayment(c, b)
      PROVE  Goal
    <2>1. Moves(b)
        BY <1>8, StartPaymentWrites DEF Writes, Moves, FreeSoFar, Domain!canTransition,
           Domain!allowedTransitions, Domain!Status
    <2> QED
        BY <1>2, <1>8, <2>1, StartPaymentWrites
<1>9. ASSUME NEW b \in Bookings, NEW reason, booking[b].status # Unsaved,
             PutBooking(b, Domain!AfterCancel(booking[b], reason, DaysBefore))
      PROVE  Goal
    <2>1. PICK fee \in Nat :
              /\ booking[b].status = Domain!Cancelled => fee = booking[b].cancellationFee
              /\ Writes(b, Domain!Cancelled, booking[b].totalFee, fee, booking[b].createdAt)
        BY <1>9, CancelWrites
    <2>2. booking[b].status \in Domain!Status
        BY <1>9, RowFacts
    <2>3. Moves(b)
        BY <1>9, <2>1, <2>2 DEF Writes, Moves, Domain!canTransition,
           Domain!allowedTransitions, Domain!Status
    <2> QED
        BY <1>2, <2>1, <2>3
<1>10. ASSUME NEW c \in Requests, NEW b \in Bookings, NEW reason, CancelBooking(c, b, reason)
       PROVE  Goal
    BY <1>9, <1>10 DEF CancelBooking, MayActOn, Saved
<1>11. ASSUME NEW b \in Bookings, ExpireBooking(b)
       PROVE  Goal
    <2>1. booking[b].status # Unsaved
        BY <1>11 DEF ExpireBooking, NextStale, WorkerPlaced
    <2> QED
        BY <1>9, <1>11, <2>1 DEF ExpireBooking
<1> QED
    BY <1>3, <1>4, <1>5, <1>6, <1>7, <1>8, <1>10, <1>11, BookingWriters

-----------------------------------------------------------------------------
(* What a step makes of the nights *)

\* What w, put in the place of v, makes of the holds of d.
Respects(v, w, d) ==
    /\ P!Paid(w, d) => P!Paid(v, d) \/ booking[d].status \in BegunPaying
    /\ booking[d].status # Domain!Cancelled => /\ P!Paid(v, d) => P!Paid(w, d)
                                               /\ P!Sure(v, d) => P!Sure(w, d)

NightsKept ==
    /\ inventory' \in [Nights -> Inv!InventoryType]
    /\ Aggregates'
    /\ \A d \in Bookings, n \in Nights : Respects(inventory[n], inventory'[n], d)

LEMMA SureIsPaid ==
    ASSUME NEW v, NEW b, P!Sure(v, b)
    PROVE  P!Paid(v, b)
BY DEF P!Sure, P!Paid, P!HoldConfirmed, P!TemporaryHold

LEMMA SameNights ==
    ASSUME IInv, inventory' = inventory
    PROVE  NightsKept
BY DEF IInv, TypeOK, Aggregates, NightsKept, Respects

LEMMA PutNight ==
    ASSUME IInv, NEW n \in Nights, NEW w, PutInventory(n, w), P!WellFormed(w),
           w.fee = inventory[n].fee, \A d \in Bookings : Respects(inventory[n], w, d)
    PROVE  NightsKept
<1>1. inventory \in [Nights -> Inv!InventoryType] /\ inventory' = [inventory EXCEPT ![n] = w]
    BY DEF IInv, TypeOK, PutInventory
<1>2. w \in Inv!InventoryType
    BY WellFormedIsTyped
<1>3. \A m \in Nights : inventory'[m] = IF m = n THEN w ELSE inventory[m]
    BY <1>1
<1>4. inventory' \in [Nights -> Inv!InventoryType]
    BY <1>1, <1>2
<1>5. Aggregates'
    BY <1>3 DEF IInv, Aggregates
<1>6. \A d \in Bookings, m \in Nights : Respects(inventory[m], inventory'[m], d)
    BY <1>3 DEF Respects
<1> QED
    BY <1>4, <1>5, <1>6 DEF NightsKept

LEMMA QuietIsKept ==
    ASSUME IInv, NEW n \in Nights, NEW w, PutInventory(n, w), Quiet(inventory[n], w)
    PROVE  NightsKept
BY PutNight DEF Quiet, Respects

LEMMA AdvanceIsKept ==
    ASSUME IInv, NEW n \in Nights, NEW w, PutInventory(n, w), NEW b \in Bookings,
           Advances(inventory[n], w, b), booking[b].status \in BegunPaying
    PROVE  NightsKept
BY PutNight DEF Advances, Respects

LEMMA FreeingIsKept ==
    ASSUME IInv, NEW n \in Nights, NEW w, PutInventory(n, w), NEW b \in Bookings,
           Frees(inventory[n], w, b),
           booking[b].status = Domain!Cancelled \/ ~Paid(b, n)
    PROVE  NightsKept
BY PutNight, SureIsPaid DEF Frees, Respects, Paid

LEMMA ReleaseIsKept ==
    ASSUME IInv, NEW n \in Nights, NEW b \in Bookings, ReleaseOf(n, b),
           booking[b].status = Domain!Cancelled
    PROVE  NightsKept
<1>1. P!WellFormed(inventory[n])
    BY DEF IInv, Aggregates
<1> QED
    BY <1>1, ReleaseFrees, FreeingIsKept, SameNights DEF ReleaseOf

LEMMA RequestNight ==
    ASSUME IInv, NEW c \in Requests,
           req[c].pc \in {"hold", "undo", "pay", "secure", "release"}
    PROVE  /\ req[c].b \in Bookings /\ Night(req[c]) \in Nights
           /\ req[c].at \in Nat /\ req[c].at + TTL \in Nat
           /\ P!WellFormed(inventory[Night(req[c])])
<1>1. req[c].b \in Bookings
    BY DEF IInv, RequestsPlaced, Placed
<1>2. Len(Stay[req[c].b]) \in Nat
    BY <1>1, StayFacts
<1>3. req[c].i \in 1 .. Len(Stay[req[c].b])
    <2>1. req[c].i \in Nat /\ req[c].held \in Nat
        BY DEF IInv, TypeOK, ReqType
    <2> QED
        BY <1>2, <2>1 DEF IInv, RequestsPlaced, Placed
<1>4. req[c].at \in Nat /\ TTL \in Nat
    BY BoundsAssumption DEF IInv, TypeOK, ReqType
<1> QED
    BY <1>1, <1>3, <1>4, StayFacts DEF Night, IInv, Aggregates

LEMMA NightsMove ==
    ASSUME IInv, [Next]_vars
    PROVE  NightsKept
<1>1. ASSUME NEW c \in Requests, HoldNight(c)
      PROVE  NightsKept
    BY <1>1, RequestNight, HoldIsQuiet, QuietIsKept DEF HoldNight
<1>2. ASSUME NEW c \in Requests, HoldFails(c)
      PROVE  NightsKept
    BY <1>2, RequestNight, HoldIsQuiet, QuietIsKept, SameNights DEF HoldFails
<1>3. ASSUME NEW c \in Requests, UndoNight(c)
      PROVE  NightsKept
    <2>1. ~Paid(req[c].b, Night(req[c]))
        BY <1>3, RequestNight DEF UndoNight, IInv, BookAhead, PaidIsPaidFor, InBook, BegunPaying,
           Temporary, Domain!TemporaryHold, Domain!ProcessingPayment, Domain!Confirmed,
           Domain!Cancelled
    <2> QED
        BY <1>3, <2>1, RequestNight, ReleaseFrees, FreeingIsKept, SameNights DEF UndoNight
<1>4. ASSUME NEW c \in Requests, PayNight(c)
      PROVE  NightsKept
    <2>1. booking[req[c].b].status \in BegunPaying
        BY <1>4 DEF PayNight, IInv, FollowUps
    <2> QED
        BY <1>4, <2>1, RequestNight, PaymentAdvances, AdvanceIsKept DEF PayNight
<1>5. ASSUME NEW c \in Requests, SecureNight(c)
      PROVE  NightsKept
    <2>1. booking[req[c].b].status \in BegunPaying
        BY <1>5 DEF SecureNight, IInv, FollowUps
    <2> QED
        BY <1>5, <2>1, RequestNight, ConfirmAdvances, AdvanceIsKept DEF SecureNight
<1>6. ASSUME NEW c \in Requests, ReleaseNight(c)
      PROVE  NightsKept
    <2>1. booking[req[c].b].status = Domain!Cancelled
        BY <1>6 DEF ReleaseNight, IInv, FollowUps
    <2> QED
        BY <1>6, <2>1, RequestNight, ReleaseIsKept DEF ReleaseNight
<1>7. CASE WorkerRelease
    <2>1. /\ worker.b \in Bookings /\ Night(worker) \in Nights
          /\ booking[worker.b].status = Domain!Cancelled
        BY <1>7, StayFacts DEF WorkerRelease, Night, IInv, WorkerPlaced
    <2> QED
        BY <1>7, <2>1, ReleaseIsKept DEF WorkerRelease
<1>8. ASSUME NEW n \in Nights, CollectNight(n)
      PROVE  NightsKept
    <2>1. P!WellFormed(inventory[n])
        BY DEF IInv, Aggregates
    <2> QED
        BY <1>8, <2>1, CollectIsQuiet, QuietIsKept DEF CollectNight
<1>9. ASSUME NEW n \in Nights, Operate(n)
      PROVE  NightsKept
    <2>1. P!WellFormed(inventory[n])
        BY DEF IInv, Aggregates
    <2>2. \A q \in Quantities : Inv!CanChangeQuantity(inventory[n], q)
              => Quiet(inventory[n], Inv!AfterChangeQuantity(inventory[n], q))
        BY <2>1, OperatorIsQuiet, OperatorAssumption
    <2>3. /\ Quiet(inventory[n], Inv!AfterClose(inventory[n]))
          /\ Quiet(inventory[n], Inv!AfterReopen(inventory[n]))
        BY <2>1, OperatorIsQuiet, 0 \in Int DEF Inv!AfterClose, Inv!AfterReopen
    <2> QED
        BY <1>9, <2>2, <2>3, QuietIsKept DEF Operate
<1> QED
    BY <1>1, <1>2, <1>3, <1>4, <1>5, <1>6, <1>7, <1>8, <1>9, SameNights, InventoryWriters

-----------------------------------------------------------------------------
(* What a step makes of the requests *)

\* The turn a request takes: where it may come from, by where it arrives.
Turn(c) ==
    LET r == req[c]
        q == req'[c]
        Goes(from) == r.pc \in from /\ q.b = r.b /\ q.at = r.at /\ booking' = booking
        OnStay == q.i \in 1 .. Len(Stay[q.b])
        Secured == P!Sure(inventory'[Night(r)], r.b)
    IN  /\ q \in ReqType
        /\ q.pc # "idle" => q.b \in Bookings /\ q.at <= now /\ now <= q.at + 1
        /\ q.pc = "create" => /\ r.pc = "idle" /\ ~BookRuns(q.b)
                              /\ booking[q.b].status = Unsaved /\ booking' = booking
                              /\ q.held = 0 /\ q.total = 0
        /\ q.pc = "hold" => /\ (Create(c) /\ q.b = r.b /\ q.at = r.at) \/ Goes({"hold"})
                            /\ OnStay /\ q.held = q.i - 1 /\ q.total = q.i - 1
        /\ q.pc = "fix" => Goes({"hold"}) /\ q.total = Len(Stay[q.b])
        /\ q.pc = "undo" => /\ Goes({"hold", "undo"})
                            /\ 1 <= q.i /\ q.i <= q.held /\ q.held <= Len(Stay[q.b])
        /\ q.pc = "undone" => Goes({"hold", "undo"})
        /\ q.pc = "pay" => /\ OnStay /\ booking'[q.b].status \in BegunPaying
                           /\ r.pc \in {"idle", "pay"}
        /\ q.pc = "secure" => /\ OnStay /\ Goes({"pay", "secure"})
                              /\ r.pc = "pay" => q.i = 1
                              /\ r.pc = "secure" => q.i = r.i + 1 /\ Secured
        /\ q.pc = "confirm" => Goes({"secure"}) /\ r.i = Len(Stay[q.b]) /\ Secured
        /\ q.pc = "release" => /\ OnStay /\ booking'[q.b].status = Domain!Cancelled
                               /\ r.pc \in {"idle", "release"}
        /\ q.pc = "idle" => SaveUndone(c) \/ SaveFixed(c) \/ r.pc \notin InBook \/ Fault

OthersKeep(c) == \A d \in Requests \ {c} : req'[d] = req[d]

LEMMA RequestFacts ==
    ASSUME IInv, NEW c \in Requests
    PROVE  /\ req[c] \in ReqType
           /\ req[c].i \in Nat /\ req[c].held \in Nat /\ req[c].total \in Nat /\ req[c].at \in Nat
           /\ now \in Nat /\ now <= now /\ now <= now + 1
           /\ req[c].pc # "idle" => /\ Placed(req[c]) /\ req[c].b \in Bookings
                                    /\ req[c].at <= now /\ now <= req[c].at + 1
                                    /\ Len(Stay[req[c].b]) \in Nat /\ 1 <= Len(Stay[req[c].b])
<1>1. req[c] \in ReqType /\ now \in Nat
    BY BoundsAssumption DEF IInv, TypeOK
<1>2. req[c].i \in Nat /\ req[c].held \in Nat /\ req[c].total \in Nat /\ req[c].at \in Nat
    BY <1>1 DEF ReqType
<1>3. req[c].pc # "idle" => Placed(req[c])
    BY DEF IInv, RequestsPlaced
<1> QED
    BY <1>1, <1>2, <1>3, StayFacts DEF Placed

LEMMA BecomeFacts ==
    ASSUME IInv, NEW c \in Requests, NEW q \in ReqType, Become(c, q)
    PROVE  req' \in [Requests -> ReqType] /\ req'[c] = q /\ OthersKeep(c)
BY DEF IInv, TypeOK, Become, OthersKeep

LEMMA IdleFacts ==
    /\ IdleReq \in ReqType /\ IdleReq.pc = "idle"
    /\ IdleReq.held = 0 /\ IdleReq.total = 0
BY DEF IdleReq, ReqType

LEMMA AdvanceFacts ==
    ASSUME NEW r \in ReqType, NEW stage \in {"fix", "secure", "confirm", "release"}
    PROVE  /\ Advance(r, stage) \in ReqType
           /\ Advance(r, stage).b = r.b /\ Advance(r, stage).at = r.at
           /\ Advance(r, stage).held = r.held /\ Advance(r, stage).total = r.total
           /\ LastNight(r) => Advance(r, stage).pc = stage /\ Advance(r, stage).i = 1
           /\ ~LastNight(r) => Advance(r, stage).pc = r.pc /\ Advance(r, stage).i = r.i + 1
<1>1. CASE LastNight(r)
    BY <1>1 DEF Advance, ReqType
<1>2. CASE ~LastNight(r)
    BY <1>2 DEF Advance, ReqType
<1> QED
    BY <1>1, <1>2

\* A request that takes a turn
Turned(c) == req' \in [Requests -> ReqType] /\ OthersKeep(c) /\ Turn(c) /\ now' = now

LEMMA EndTurns ==
    ASSUME IInv, NEW c \in Requests, EndRequest(c), now' = now,
           SaveUndone(c) \/ SaveFixed(c) \/ req[c].pc \notin InBook \/ Fault
    PROVE  Turned(c)
<1>1. req' \in [Requests -> ReqType] /\ req'[c] = IdleReq /\ OthersKeep(c)
    BY IdleFacts, BecomeFacts DEF EndRequest
<1> QED
    BY <1>1, IdleFacts DEF Turned, Turn

LEMMA BeginTurns ==
    ASSUME IInv, NEW c \in Requests, NEW b \in Bookings,
           \/ BeginBook(c, b)
           \/ StartPayment(c, b)
           \/ \E reason : CancelBooking(c, b, reason)
    PROVE  Turned(c)
<1>1. now \in Nat /\ now <= now /\ now <= now + 1 /\ 1 \in 1 .. Len(Stay[b])
    BY RequestFacts, StayFacts
<1>2. CASE BeginBook(c, b)
    <2> DEFINE q == [IdleReq EXCEPT !.pc = "create", !.b = b, !.at = now]
    <2>2. q \in ReqType /\ q.pc = "create" /\ q.b = b /\ q.at = now /\ q.held = 0 /\ q.total = 0
        BY <1>1, IdleFacts DEF ReqType
    <2> HIDE DEF q
    <2>3. Become(c, q)
        BY <1>2 DEF BeginBook, q
    <2>4. req' \in [Requests -> ReqType] /\ req'[c] = q /\ OthersKeep(c)
        BY <2>2, <2>3, BecomeFacts
    <2> QED
        BY <1>1, <1>2, <2>2, <2>4 DEF BeginBook, Turned, Turn, Saved
<1>3. CASE StartPayment(c, b)
    <2> DEFINE q == [IdleReq EXCEPT !.pc = "pay", !.b = b, !.i = 1, !.at = now]
    <2>2. q \in ReqType /\ q.pc = "pay" /\ q.b = b /\ q.at = now /\ q.i = 1
        BY <1>1, IdleFacts DEF ReqType
    <2> HIDE DEF q
    <2>3. Become(c, q)
        BY <1>3 DEF StartPayment, q
    <2>4. req' \in [Requests -> ReqType] /\ req'[c] = q /\ OthersKeep(c)
        BY <2>2, <2>3, BecomeFacts
    <2>5. booking'[b].status \in BegunPaying
        BY <1>3, StartPaymentWrites DEF IInv, Writes, BegunPaying
    <2> QED
        BY <1>1, <1>3, <2>2, <2>4, <2>5 DEF StartPayment, Turned, Turn
<1>4. ASSUME NEW reason, CancelBooking(c, b, reason)
      PROVE  Turned(c)
    <2> DEFINE q == [IdleReq EXCEPT !.pc = "release", !.b = b, !.i = 1, !.at = now]
    <2>2. q \in ReqType /\ q.pc = "release" /\ q.b = b /\ q.at = now /\ q.i = 1
        BY <1>1, IdleFacts DEF ReqType
    <2> HIDE DEF q
    <2>3. Become(c, q)
        BY <1>4 DEF CancelBooking, q
    <2>4. req' \in [Requests -> ReqType] /\ req'[c] = q /\ OthersKeep(c)
        BY <2>2, <2>3, BecomeFacts
    <2>5. booking'[b].status = Domain!Cancelled
        BY <1>4, CancelWrites DEF CancelBooking, MayActOn, Saved, IInv, Writes
    <2> QED
        BY <1>1, <1>4, <2>2, <2>4, <2>5 DEF CancelBooking, Turned, Turn
<1> QED
    BY <1>2, <1>3, <1>4

LEMMA CreateTurns ==
    ASSUME IInv, NEW c \in Requests, Create(c)
    PROVE  Turned(c)
<1> DEFINE r == req[c]
           q == [r EXCEPT !.pc = "hold", !.i = 1]
<1>1. r.held = 0 /\ r.total = 0
    BY DEF IInv, RequestsPlaced, Placed, Create
<1>2. /\ q \in ReqType /\ q.pc = "hold" /\ q.i = 1 /\ q.b = r.b /\ q.at = r.at
      /\ q.held = 0 /\ q.total = 0
    BY <1>1, RequestFacts DEF ReqType
<1> HIDE DEF q
<1>3. Become(c, q)
    BY DEF Create, q
<1>4. req' \in [Requests -> ReqType] /\ req'[c] = q /\ OthersKeep(c)
    BY <1>2, <1>3, BecomeFacts
<1>5. 1 \in 1 .. Len(Stay[q.b])
    BY <1>2, RequestFacts DEF Create
<1> QED
    BY <1>2, <1>4, <1>5, RequestFacts DEF Create, Turned, Turn

LEMMA HoldTurns ==
    ASSUME IInv, NEW c \in Requests, HoldNight(c)
    PROVE  Turned(c)
<1> DEFINE r == req[c]
           next == Advance(r, "fix")
           q == [next EXCEPT !.held = @ + 1, !.total = @ + inventory[Night(r)].fee]
<1>1. inventory[Night(r)].fee = 1
    BY RequestNight DEF HoldNight, IInv, Aggregates
<1>2. r.i \in 1 .. Len(Stay[r.b]) /\ r.held = r.i - 1 /\ r.total = r.i - 1
    BY RequestFacts DEF HoldNight, Placed
<1>3. next \in ReqType /\ next.held = r.i - 1 /\ next.total = r.i - 1
    BY <1>2, RequestFacts, AdvanceFacts
<1> HIDE DEF next
<1>4. /\ q \in ReqType /\ q.pc = next.pc /\ q.i = next.i /\ q.b = next.b /\ q.at = next.at
      /\ q.held = r.i /\ q.total = r.i
    <2>1. next.held + 1 = r.i /\ next.total + inventory[Night(r)].fee = r.i /\ r.i \in Nat
        BY <1>1, <1>3, RequestFacts
    <2>2. next.held + 1 \in Nat /\ next.total + inventory[Night(r)].fee \in Nat
        BY <2>1
    <2>3. PICK x \in Nat, y \in Nat :
             x = next.held + 1 /\ y = next.total + inventory[Night(r)].fee
        BY <2>2
    <2>4. q = [next EXCEPT !.held = x, !.total = y]
        BY <2>3, Zenon
    <2>5. PICK k : k = [next EXCEPT !.held = x, !.total = y]
        OBVIOUS
    <2>6. /\ k \in ReqType /\ k.pc = next.pc /\ k.i = next.i /\ k.b = next.b /\ k.at = next.at
          /\ k.held = x /\ k.total = y
        BY <1>3, <2>5 DEF ReqType
    <2>7. q = k
        BY <2>4, <2>5, Zenon
    <2> HIDE DEF q
    <2> QED
        BY <2>1, <2>3, <2>6, <2>7
<1> HIDE DEF q
<1>5. Become(c, q)
    BY DEF HoldNight, q, next
<1>6. req' \in [Requests -> ReqType] /\ req'[c] = q /\ OthersKeep(c)
    BY <1>4, <1>5, BecomeFacts
<1>7. /\ q.b = r.b /\ q.at = r.at
      /\ LastNight(r) => q.pc = "fix" /\ q.i = 1
      /\ ~LastNight(r) => q.pc = "hold" /\ q.i = r.i + 1
    BY <1>4, RequestFacts, AdvanceFacts DEF next, HoldNight
<1>8. q.pc = "fix" => q.total = Len(Stay[q.b])
    BY <1>4, <1>7 DEF LastNight
<1>9. q.pc = "hold" => q.i \in 1 .. Len(Stay[q.b]) /\ q.held = q.i - 1 /\ q.total = q.i - 1
    BY <1>2, <1>4, <1>7, RequestFacts DEF LastNight, HoldNight
<1> QED
    BY <1>4, <1>6, <1>7, <1>8, <1>9, RequestFacts DEF HoldNight, Turned, Turn

LEMMA CompensateTurns ==
    ASSUME IInv, NEW c \in Requests, req[c].pc = "hold", Become(c, Compensate(req[c])),
           UNCHANGED <<now, booking>>
    PROVE  Turned(c)
<1> DEFINE r == req[c]
           q == Compensate(r)
<1>1. r.i \in 1 .. Len(Stay[r.b]) /\ r.held = r.i - 1
    BY RequestFacts DEF Placed
<1>2. /\ q \in ReqType /\ q.b = r.b /\ q.at = r.at /\ q.held = r.held /\ q.i = 1
      /\ q.pc = IF r.held = 0 THEN "undone" ELSE "undo"
    BY RequestFacts DEF Compensate, ReqType
<1> HIDE DEF q
<1>3. Become(c, q)
    BY DEF q
<1>4. req' \in [Requests -> ReqType] /\ req'[c] = q /\ OthersKeep(c)
    BY <1>2, <1>3, BecomeFacts
<1>5. q.pc = "undo" => 1 <= q.i /\ q.i <= q.held /\ q.held <= Len(Stay[q.b])
    BY <1>1, <1>2, RequestFacts
<1> QED
    BY <1>2, <1>4, <1>5, RequestFacts DEF Turned, Turn

LEMMA UndoTurns ==
    ASSUME IInv, NEW c \in Requests, UndoNight(c)
    PROVE  Turned(c)
<1> DEFINE r == req[c]
           q == AfterUndo(r)
<1>1. r.pc = "undo" /\ 1 <= r.i /\ r.i <= r.held /\ r.held <= Len(Stay[r.b])
    BY RequestFacts DEF UndoNight, Placed
<1>2. /\ q \in ReqType /\ q.b = r.b /\ q.at = r.at /\ q.held = r.held
      /\ r.i = r.held => q.pc = "undone"
      /\ r.i # r.held => q.pc = "undo" /\ q.i = r.i + 1
    <2>1. CASE r.i = r.held
        BY <2>1, RequestFacts DEF AfterUndo, ReqType
    <2>2. CASE r.i # r.held
        BY <1>1, <2>2, RequestFacts DEF AfterUndo, ReqType
    <2> QED
        BY <2>1, <2>2
<1> HIDE DEF q
<1>3. Become(c, q)
    BY DEF UndoNight, q
<1>4. req' \in [Requests -> ReqType] /\ req'[c] = q /\ OthersKeep(c)
    BY <1>2, <1>3, BecomeFacts
<1>5. q.pc = "undo" => 1 <= q.i /\ q.i <= q.held /\ q.held <= Len(Stay[q.b])
    BY <1>1, <1>2, RequestFacts
<1> QED
    BY <1>1, <1>2, <1>4, <1>5, RequestFacts DEF UndoNight, Turned, Turn

\* A request that goes on to the next night of the stay, or to the next stage
LEMMA AdvanceTurns ==
    ASSUME IInv, NEW c \in Requests, NEW stage \in {"secure", "confirm", "release"},
           req[c].pc \in {"pay", "secure", "release"}, Become(c, Advance(req[c], stage))
    PROVE  LET r == req[c]
               q == req'[c]
           IN  /\ req' \in [Requests -> ReqType] /\ OthersKeep(c)
               /\ q \in ReqType /\ q.b = r.b /\ q.at = r.at
               /\ q.b \in Bookings /\ q.at <= now /\ now <= q.at + 1
               /\ q.i \in 1 .. Len(Stay[q.b])
               /\ LastNight(r) => q.pc = stage /\ q.i = 1 /\ r.i = Len(Stay[q.b])
               /\ ~LastNight(r) => q.pc = r.pc /\ q.i = r.i + 1
<1> DEFINE r == req[c]
           q == Advance(r, stage)
<1>1. /\ q \in ReqType /\ q.b = r.b /\ q.at = r.at
      /\ LastNight(r) => q.pc = stage /\ q.i = 1
      /\ ~LastNight(r) => q.pc = r.pc /\ q.i = r.i + 1
    BY RequestFacts, AdvanceFacts
<1> HIDE DEF q
<1>2. Become(c, q)
    BY DEF q
<1>3. req' \in [Requests -> ReqType] /\ req'[c] = q /\ OthersKeep(c)
    BY <1>1, <1>2, BecomeFacts
<1>4. r.i \in 1 .. Len(Stay[r.b])
    BY RequestFacts DEF Placed
<1>5. q.i \in 1 .. Len(Stay[q.b]) /\ (LastNight(r) => r.i = Len(Stay[q.b]))
    BY <1>1, <1>4, RequestFacts DEF LastNight
<1> QED
    BY <1>1, <1>3, <1>5, RequestFacts

LEMMA PayTurns ==
    ASSUME IInv, NEW c \in Requests, PayNight(c)
    PROVE  Turned(c)
<1> USE DEF PayNight
<1>1. booking[req[c].b].status \in BegunPaying
    BY DEF IInv, FollowUps
<1>2. CASE LastNight(req[c])
    BY <1>1, <1>2, AdvanceTurns DEF Turned, Turn
<1>3. CASE ~LastNight(req[c])
    BY <1>1, <1>3, AdvanceTurns DEF Turned, Turn
<1> QED
    BY <1>2, <1>3

LEMMA SecureTurns ==
    ASSUME IInv, NEW c \in Requests, SecureNight(c)
    PROVE  Turned(c)
<1> USE DEF SecureNight
<1>1. P!Sure(inventory'[Night(req[c])], req[c].b)
    <2> DEFINE w == Inv!AfterConfirm(inventory[Night(req[c])], req[c].b)
    <2>1. P!Sure(w, req[c].b)
        BY RequestNight, ConfirmAdvances
    <2> HIDE DEF w
    <2>2. PutInventory(Night(req[c]), w)
        BY DEF w
    <2>3. inventory'[Night(req[c])] = w
        BY <2>2, RequestNight DEF PutInventory, IInv, TypeOK
    <2> QED
        BY <2>1, <2>3
<1>2. CASE LastNight(req[c])
    BY <1>1, <1>2, AdvanceTurns DEF Turned, Turn
<1>3. CASE ~LastNight(req[c])
    BY <1>1, <1>3, AdvanceTurns DEF Turned, Turn
<1> QED
    BY <1>2, <1>3

LEMMA ReleaseTurns ==
    ASSUME IInv, NEW c \in Requests, ReleaseNight(c)
    PROVE  Turned(c)
<1> USE DEF ReleaseNight
<1>1. booking[req[c].b].status = Domain!Cancelled
    BY DEF IInv, FollowUps
<1>2. CASE LastNight(req[c])
    BY <1>2, EndTurns DEF InBook
<1>3. CASE ~LastNight(req[c])
    BY <1>1, <1>3, AdvanceTurns DEF Turned, Turn
<1> QED
    BY <1>2, <1>3

LEMMA RequestTurns ==
    ASSUME IInv, [Next]_vars
    PROVE  \/ req' = req /\ (now' = now \/ Tick)
           \/ \E c \in Requests : Turned(c)
<1>1. ASSUME NEW c \in Requests, ClientAction(c)
      PROVE  Turned(c)
    BY <1>1, BeginTurns DEF ClientAction, Payment, CancelByGuest
<1>2. ASSUME NEW c \in Requests, Create(c) \/ HoldNight(c) \/ UndoNight(c)
      PROVE  Turned(c)
    BY <1>2, CreateTurns, HoldTurns, UndoTurns
<1>3. ASSUME NEW c \in Requests, HoldRefused(c) \/ HoldFails(c)
      PROVE  Turned(c)
    BY <1>3, CompensateTurns DEF HoldRefused, HoldFails
<1>4. ASSUME NEW c \in Requests, SaveUndone(c) \/ SaveFixed(c) \/ ConfirmBooking(c)
      PROVE  Turned(c)
    BY <1>4, EndTurns DEF SaveUndone, SaveFixed, ConfirmBooking, InBook
<1>5. ASSUME NEW c \in Requests, NightRefused(c) \/ Cut(c)
      PROVE  Turned(c)
    BY <1>5, EndTurns DEF NightRefused, Cut, InBook
<1>6. ASSUME NEW c \in Requests, PayNight(c) \/ SecureNight(c) \/ ReleaseNight(c)
      PROVE  Turned(c)
    BY <1>6, PayTurns, SecureTurns, ReleaseTurns
<1>7. CASE WorkerStep \/ WorkerFails \/ (\E n \in Operated : Operate(n)) \/ Tick \/ UNCHANGED vars
    BY <1>7 DEF WorkerStep, WorkerFails, BeginPass, ExpireBooking, WorkerRelease, ListDue,
       CollectNight, Operate, Tick, vars
<1> QED
    BY <1>1, <1>2, <1>3, <1>4, <1>5, <1>6, <1>7 DEF Next, RequestStep

-----------------------------------------------------------------------------
(* Every step keeps the invariant *)

LEMMA PlacedKept ==
    ASSUME IInv, [Next]_vars
    PROVE  RequestsPlaced'
<1>1. CASE req' = req /\ now' = now
    BY <1>1 DEF IInv, RequestsPlaced, Placed
<1>2. CASE req' = req /\ Tick
    <2> SUFFICES ASSUME NEW c \in Requests, req'[c].pc # "idle"
                 PROVE  Placed(req[c])'
        BY <1>2 DEF RequestsPlaced
    <2>1. Placed(req[c]) /\ req[c].at = now /\ now' = now + 1 /\ now \in Nat
        BY <1>2, RequestFacts DEF Tick
    <2> QED
        BY <1>2, <2>1 DEF Placed
<1>3. ASSUME NEW c \in Requests, Turned(c)
      PROVE  RequestsPlaced'
    <2>1. ASSUME NEW d \in Requests \ {c}, req'[d].pc # "idle"
          PROVE  Placed(req[d])'
        BY <1>3, <2>1 DEF Turned, OthersKeep, IInv, RequestsPlaced, Placed
    <2>2. req'[c].pc # "idle" => Placed(req[c])'
        BY <1>3 DEF Turned, Turn, Placed
    <2> QED
        BY <2>1, <2>2 DEF RequestsPlaced
<1> QED
    BY <1>1, <1>2, <1>3, RequestTurns

\* Only BeginBook lets a request enter Book, and there is none for that booking.
LEMMA TurnInBook ==
    ASSUME IInv, NEW c \in Requests, Turned(c), req'[c].pc \in InBook
    PROVE  \/ req'[c].pc = "create" /\ ~BookRuns(req'[c].b)
           \/ req[c].pc \in InBook /\ req'[c].b = req[c].b
BY DEF Turned, Turn, InBook, Create

LEMMA OneBookKept ==
    ASSUME IInv, [Next]_vars
    PROVE  OneBook'
<1>1. CASE req' = req
    BY <1>1 DEF IInv, OneBook
<1>2. ASSUME NEW c \in Requests, Turned(c)
      PROVE  OneBook'
    <2>1. ASSUME NEW d \in Requests \ {c}, req'[c].pc \in InBook, req'[d].pc \in InBook,
                 req'[c].b = req'[d].b
          PROVE  FALSE
        <3>1. req'[d] = req[d]
            BY <1>2 DEF Turned, OthersKeep
        <3>2. BookRuns(req'[c].b)
            BY <2>1, <3>1 DEF BookRuns
        <3>3. req[c].pc \in InBook /\ req'[c].b = req[c].b
            BY <1>2, <2>1, <3>2, TurnInBook
        <3> QED
            BY <2>1, <3>1, <3>3 DEF IInv, OneBook
    <2>2. \A d \in Requests \ {c} : req'[d] = req[d]
        BY <1>2 DEF Turned, OthersKeep
    <2> QED
        BY <2>1, <2>2 DEF IInv, OneBook
<1> QED
    BY <1>1, <1>2, RequestTurns

LEMMA BookAheadKept ==
    ASSUME IInv, ClientsWait, [Next]_vars
    PROVE  BookAhead'
<1> SUFFICES ASSUME NEW c \in Requests, req'[c].pc \in InBook
             PROVE  LET k == booking'[req'[c].b]
                    IN  IF req'[c].pc = "create" THEN k.status = Unsaved
                        ELSE k.status = Temporary /\ req'[c].at <= k.createdAt
    BY DEF BookAhead
<1>1. CASE req'[c] = req[c]
    <2>1. ~Create(c) /\ ~SaveUndone(c) /\ ~SaveFixed(c)
        <3>1. /\ Create(c) => Turned(c) /\ req[c].pc = "create" /\ booking'[req[c].b].status = Temporary
              /\ SaveUndone(c) \/ SaveFixed(c) => req'[c] = IdleReq
            BY CreateTurns, CreateWrites DEF Create, SaveUndone, SaveFixed, EndRequest, Become, Writes,
               IInv, TypeOK
        <3>2. Create(c) => req'[c].pc # "create"
            BY <3>1 DEF Turned, Turn, Create, BookRuns, IInv, BookAhead, InBook, Temporary, Unsaved,
               Domain!TemporaryHold
        <3> QED
            BY <1>1, <3>1, <3>2, IdleFacts DEF InBook
    <2>2. booking'[req[c].b] = booking[req[c].b]
        BY <1>1, <2>1, BookLeftAlone
    <2> QED
        BY <1>1, <2>2 DEF IInv, BookAhead
<1>2. CASE Turned(c)
    <2>1. CASE req'[c].pc = "create"
        BY <1>2, <2>1 DEF Turned, Turn
    <2>2. CASE Create(c)
        <3>1. req'[c].pc # "create" => req'[c].b = req[c].b /\ req'[c].at = req[c].at
            BY <1>2, <2>2 DEF Turned, Turn, InBook, Create
        <3>2. booking'[req[c].b].status = Temporary /\ booking'[req[c].b].createdAt = now
            BY <2>2, CreateWrites DEF IInv, Writes
        <3>3. req[c].at <= now
            BY <2>2, RequestFacts DEF Create
        <3> QED
            BY <2>1, <3>1, <3>2, <3>3
    <2>3. CASE req'[c].pc # "create" /\ ~Create(c)
        <3>1. /\ req[c].pc \in {"hold", "undo"} /\ booking' = booking
              /\ req'[c].b = req[c].b /\ req'[c].at = req[c].at
            BY <1>2, <2>3 DEF Turned, Turn, InBook
        <3> QED
            BY <2>3, <3>1 DEF IInv, BookAhead, InBook
    <2> QED
        BY <2>1, <2>2, <2>3
<1> QED
    BY <1>1, <1>2, RequestTurns DEF Turned, OthersKeep

LEMMA FollowUpsKept ==
    ASSUME IInv, ClientsWait, [Next]_vars
    PROVE  FollowUps'
<1> SUFFICES ASSUME NEW c \in Requests
             PROVE  /\ req'[c].pc \in {"pay", "secure", "confirm"}
                          => booking'[req'[c].b].status \in BegunPaying
                    /\ req'[c].pc = "release" => booking'[req'[c].b].status = Domain!Cancelled
    BY DEF FollowUps
<1>1. CASE req'[c] = req[c]
    <2>1. req[c].pc # "idle" => Moves(req[c].b)
        BY RequestFacts, BookingMoves
    <2> QED
        BY <1>1, <2>1 DEF IInv, FollowUps, Moves
<1>2. CASE Turned(c)
    BY <1>2 DEF Turned, Turn, IInv, FollowUps
<1> QED
    BY <1>1, <1>2, RequestTurns DEF Turned, OthersKeep

LEMMA WorkerKept ==
    ASSUME IInv, ClientsWait, [Next]_vars
    PROVE  worker' \in WorkerType /\ WorkerPlaced'
<1> USE DEF IInv
<1>1. now \in Nat /\ now' \in Nat /\ now' >= now /\ worker \in WorkerType /\ worker.at \in Nat
      /\ worker.stale \subseteq Bookings
    <2>1. now \in Nat /\ worker \in WorkerType
        BY BoundsAssumption DEF TypeOK
    <2>2. now' = now \/ now' = now + 1
        BY RequestTurns DEF Turned, Tick
    <2> QED
        BY <2>1, <2>2 DEF WorkerType
<1>2. CASE worker' = worker
    <2>1. worker'.at <= now'
        BY <1>1, <1>2 DEF WorkerPlaced
    <2>2. \A b \in worker.stale : /\ booking'[b].status # Unsaved
                                  /\ booking'[b].createdAt < worker.at - TTL
        BY <1>1, BookingMoves DEF WorkerPlaced, Moves
    <2>3. worker.pc = "release" => /\ worker.b \in Bookings /\ worker.i \in 1 .. Len(Stay[worker.b])
                                   /\ booking'[worker.b].status = Domain!Cancelled
        BY BookingMoves DEF WorkerPlaced, Moves
    <2> QED
        BY <1>1, <1>2, <2>1, <2>2, <2>3 DEF WorkerPlaced
<1>3. ASSUME NEW q \in WorkerType, worker' = q, booking' = booking,
             q.at <= now, q.pc # "release",
             \A b \in q.stale : booking[b].status # Unsaved /\ booking[b].createdAt < q.at - TTL
      PROVE  worker' \in WorkerType /\ WorkerPlaced'
    <2>1. q.at \in Nat
        BY DEF WorkerType
    <2> QED
        BY <1>1, <1>3, <2>1 DEF WorkerPlaced
<1>4. IdleWorker \in WorkerType /\ IdleWorker.at = 0 /\ IdleWorker.pc = "idle" /\ IdleWorker.stale = {}
    BY DEF IdleWorker, WorkerType
<1>5. CASE BeginPass(now)
    <2> DEFINE q == [IdleWorker EXCEPT !.pc = "expire", !.at = now, !.stale = Stale(now)]
    <2>1. Stale(now) \subseteq Bookings
        BY DEF Stale
    <2>2. q \in WorkerType /\ q.at = now /\ q.pc = "expire" /\ q.stale = Stale(now)
        BY <1>1, <1>4, <2>1 DEF WorkerType
    <2>3. worker' = q /\ booking' = booking
        BY <1>5 DEF BeginPass
    <2> HIDE DEF q
    <2>4. \A b \in q.stale : booking[b].status # Unsaved /\ booking[b].createdAt < q.at - TTL
        BY <2>2 DEF Stale, Unsaved, Domain!TemporaryHold
    <2> QED
        BY <1>1, <1>3, <2>2, <2>3, <2>4
<1>6. ASSUME NEW b \in Bookings, ExpireBooking(b)
      PROVE  worker' \in WorkerType /\ WorkerPlaced'
    <2> DEFINE q == [worker EXCEPT !.pc = "release", !.b = b, !.i = 1, !.stale = @ \ {b}]
    <2>1. /\ q \in WorkerType /\ q.at = worker.at /\ q.pc = "release" /\ q.b = b /\ q.i = 1
          /\ q.stale = worker.stale \ {b}
        BY <1>1 DEF WorkerType
    <2>2. worker' = q
        BY <1>6 DEF ExpireBooking
    <2> HIDE DEF q
    <2>3. booking[b].status # Unsaved
        BY <1>6 DEF ExpireBooking, NextStale, WorkerPlaced
    <2>4. booking'[b].status = Domain!Cancelled
        BY <1>6, <2>3, CancelWrites DEF ExpireBooking, Writes
    <2>5. \A k \in q.stale : /\ booking'[k].status # Unsaved
                             /\ booking'[k].createdAt < worker.at - TTL
        BY <1>1, <2>1, BookingMoves DEF WorkerPlaced, Moves
    <2>6. 1 \in 1 .. Len(Stay[b]) /\ worker.at <= now
        BY StayFacts DEF WorkerPlaced
    <2> QED
        BY <1>1, <2>1, <2>2, <2>4, <2>5, <2>6 DEF WorkerPlaced
<1>7. Released \in WorkerType /\ Released.at = worker.at /\ Released.pc = "expire"
      /\ Released.stale = worker.stale
    BY <1>1 DEF Released, WorkerType
<1>8. CASE WorkerRelease
    <2>1. CASE LastNight(worker)
        BY <1>3, <1>7, <1>8, <2>1 DEF WorkerRelease, WorkerPlaced
    <2>2. CASE ~LastNight(worker)
        <3> DEFINE q == [worker EXCEPT !.i = @ + 1]
        <3>1. worker.i \in 1 .. Len(Stay[worker.b]) /\ worker.b \in Bookings
            BY <1>8 DEF WorkerRelease, WorkerPlaced
        <3>2. /\ q \in WorkerType /\ q.at = worker.at /\ q.pc = worker.pc /\ q.b = worker.b
              /\ q.i = worker.i + 1 /\ q.stale = worker.stale
            BY <1>1 DEF WorkerType
        <3>3. worker' = q /\ booking' = booking
            BY <1>8, <2>2 DEF WorkerRelease
        <3> HIDE DEF q
        <3>4. q.i \in 1 .. Len(Stay[q.b])
            BY <2>2, <3>1, <3>2, StayFacts DEF LastNight
        <3> QED
            BY <1>1, <3>1, <3>2, <3>3, <3>4 DEF WorkerPlaced
    <2> QED
        BY <2>1, <2>2
<1>9. CASE ListDue
    <2> DEFINE q == [IdleWorker EXCEPT !.pc = "collect", !.at = worker.at, !.due = Due(worker.at)]
    <2>1. Due(worker.at) \subseteq Nights
        BY DEF Due
    <2>2. q \in WorkerType /\ q.at = worker.at /\ q.pc = "collect" /\ q.stale = {}
        BY <1>1, <1>4, <2>1 DEF WorkerType
    <2>3. worker' \in {q, IdleWorker} /\ booking' = booking
        BY <1>9 DEF ListDue
    <2> HIDE DEF q
    <2> QED
        BY <1>1, <1>3, <1>4, <2>2, <2>3 DEF WorkerPlaced
<1>10. ASSUME NEW n \in Nights, CollectNight(n)
       PROVE  worker' \in WorkerType /\ WorkerPlaced'
    <2> DEFINE q == [worker EXCEPT !.due = @ \ {n}]
    <2>1. q \in WorkerType /\ q.at = worker.at /\ q.pc = worker.pc /\ q.stale = worker.stale
        BY <1>1 DEF WorkerType
    <2>2. worker' \in {q, IdleWorker} /\ booking' = booking /\ worker.pc = "collect"
        BY <1>10 DEF CollectNight
    <2> HIDE DEF q
    <2> QED
        BY <1>1, <1>3, <1>4, <2>1, <2>2 DEF WorkerPlaced
<1>11. CASE WorkerFails
    <2> DEFINE q == [worker EXCEPT !.stale = {}]
    <2>1. q \in WorkerType /\ q.at = worker.at /\ q.pc = worker.pc /\ q.stale = {}
        BY <1>1 DEF WorkerType
    <2>2. /\ booking' = booking
          /\ worker' = IdleWorker \/ (worker' = q /\ worker.pc = "expire") \/ worker' = Released
        BY <1>11 DEF WorkerFails
    <2> HIDE DEF q
    <2> QED
        BY <1>1, <1>3, <1>4, <1>7, <2>1, <2>2 DEF WorkerPlaced
<1>12. \/ worker' = worker \/ WorkerStep \/ WorkerFails
    <2>1. ASSUME NEW c \in Requests, ClientAction(c) PROVE worker' = worker
        BY <2>1 DEF ClientAction, Payment, CancelByGuest, BeginBook, StartPayment, CancelBooking
    <2>2. ASSUME NEW c \in Requests, RequestStep(c) PROVE worker' = worker
        BY <2>2 DEF RequestStep, Create, HoldNight, HoldRefused, UndoNight, SaveUndone, SaveFixed,
           PayNight, SecureNight, NightRefused, ConfirmBooking, ReleaseNight
    <2>3. ASSUME NEW c \in Requests, HoldFails(c) \/ Cut(c) PROVE worker' = worker
        BY <2>3 DEF HoldFails, Cut
    <2>4. ASSUME UNCHANGED vars \/ Tick \/ \E n \in Operated : Operate(n) PROVE worker' = worker
        BY <2>4 DEF vars, Tick, Operate
    <2> QED
        BY <2>1, <2>2, <2>3, <2>4 DEF Next
<1> QED
    BY <1>2, <1>5, <1>6, <1>8, <1>9, <1>10, <1>11, <1>12 DEF WorkerStep

LEMMA PaidIsPaidForKept ==
    ASSUME IInv, ClientsWait, [Next]_vars
    PROVE  PaidIsPaidFor'
<1> SUFFICES ASSUME NEW b \in Bookings, NEW n \in Nights, P!Paid(inventory'[n], b)
             PROVE  booking'[b].status \in BegunPaying
    BY DEF PaidIsPaidFor, Paid
<1>1. Paid(b, n) \/ booking[b].status \in BegunPaying
    BY NightsMove DEF NightsKept, Respects, Paid
<1> QED
    BY <1>1, BookingMoves DEF Moves, IInv, PaidIsPaidFor

\* A hold that is confirmed stays, unless its booking is cancelled.
LEMMA SureStays ==
    ASSUME IInv, ClientsWait, [Next]_vars, NEW b \in Bookings, NEW n \in Nights,
           Sure(b, n), booking'[b].status # Domain!Cancelled
    PROVE  P!Sure(inventory'[n], b)
BY NightsMove, BookingMoves DEF NightsKept, Respects, Moves, Sure

LEMMA BehindKept ==
    ASSUME IInv, ClientsWait, [Next]_vars
    PROVE  Behind'
<1> SUFFICES ASSUME NEW c \in Requests, req'[c].pc \in {"secure", "confirm"},
                    booking'[req'[c].b].status # Domain!Cancelled
             PROVE  LET q == req'[c]
                        stay == Stay[q.b]
                    IN  /\ q.pc = "secure" => \A j \in 1 .. q.i - 1 : P!Sure(inventory'[stay[j]], q.b)
                        /\ q.pc = "confirm" =>
                              \A j \in 1 .. Len(stay) : P!Sure(inventory'[stay[j]], q.b)
    BY DEF Behind, Sure
<1> DEFINE r == req[c]
           q == req'[c]
           stay == Stay[q.b]
<1>1. q.b \in Bookings /\ q.b = r.b /\ r.i \in Nat /\ Len(stay) \in Nat /\ q.i \in Nat
      /\ (q.pc = "secure" => q.i \in 1 .. Len(stay))
    <2>1. CASE q = r
        BY <2>1, RequestFacts DEF Placed
    <2>2. CASE Turned(c)
        BY <2>2, RequestFacts, StayFacts DEF Turned, Turn, ReqType
    <2> QED
        BY <2>1, <2>2, RequestTurns DEF Turned, OthersKeep
<1>2. booking[r.b].status # Domain!Cancelled
    BY <1>1, BookingMoves DEF Moves
<1>3. \A j \in 1 .. Len(stay) : Sure(r.b, stay[j]) => P!Sure(inventory'[stay[j]], q.b)
    BY <1>1, StayFacts, SureStays
<1>4. CASE q = r
    BY <1>1, <1>2, <1>3, <1>4 DEF IInv, Behind
<1>5. CASE Turned(c)
    <2>1. CASE r.pc = "pay"
        <3>1. q.pc = "secure" /\ q.i = 1
            BY <1>5, <2>1 DEF Turned, Turn
        <3> QED
            BY <3>1
    <2>2. CASE r.pc = "secure"
        <3>1. /\ q.pc = "secure" => q.i = r.i + 1
              /\ q.pc = "confirm" => r.i = Len(stay)
              /\ P!Sure(inventory'[stay[r.i]], q.b)
            BY <1>1, <1>5, <2>2 DEF Turned, Turn, Night
        <3>2. r.i \in 1 .. Len(stay)
            BY <1>1, <2>2, RequestFacts DEF Placed
        <3>3. \A j \in 1 .. r.i - 1 : P!Sure(inventory'[stay[j]], q.b)
            BY <1>1, <1>2, <1>3, <2>2, <3>2 DEF IInv, Behind
        <3>4. ASSUME NEW j \in 1 .. r.i
              PROVE  P!Sure(inventory'[stay[j]], q.b)
            <4>1. CASE j = r.i
                BY <3>1, <4>1
            <4>2. CASE j # r.i
                <5>1. j \in 1 .. r.i - 1
                    BY <3>2, <4>2
                <5> QED
                    BY <3>3, <5>1
            <4> QED
                BY <4>1, <4>2
        <3>5. CASE q.pc = "secure"
            <4>1. PICK k \in Nat, i \in Nat : k = r.i /\ i = q.i
                BY <1>1
            <4>2. i = k + 1
                BY <3>1, <3>5, <4>1
            <4>3. i - 1 = k
                BY <4>2
            <4> QED
                BY <3>4, <3>5, <4>1, <4>3
        <3>6. CASE q.pc = "confirm"
            <4>1. r.i = Len(stay) /\ q.pc # "secure"
                BY <3>1, <3>6
            <4>2. \A j \in 1 .. Len(stay) : P!Sure(inventory'[stay[j]], q.b)
                BY <3>4, <4>1
            <4> QED
                BY <4>1, <4>2
        <3> QED
            BY <3>5, <3>6
    <2>3. r.pc \in {"pay", "secure"}
        BY <1>5 DEF Turned, Turn
    <2> QED
        BY <2>1, <2>2, <2>3
<1> QED
    BY <1>4, <1>5, RequestTurns DEF Turned, OthersKeep

\* A booking becomes confirmed only through a request that has confirmed its holds.
LEMMA NewlyConfirmed ==
    ASSUME IInv, [Next]_vars, NEW b \in Bookings, booking'[b].status = Domain!Confirmed
    PROVE  /\ booking[b].status # Domain!Cancelled \/ booking'[b] = booking[b]
           /\ \/ booking[b].status = Domain!Confirmed
              \/ \E c \in Requests : req[c].pc = "confirm" /\ req[c].b = b
                                     /\ booking[b].status # Domain!Cancelled
<1> USE DEF IInv, Temporary, Unsaved, Domain!TemporaryHold, Domain!ProcessingPayment,
        Domain!Confirmed, Domain!Cancelled
<1>1. ASSUME NEW c \in Requests, Create(c) \/ SaveUndone(c) \/ SaveFixed(c)
      PROVE  booking'[b] = booking[b]
    BY <1>1, CreateWrites, SaveUndoneWrites, SaveFixedWrites DEF Writes
<1>2. ASSUME NEW c \in Requests, ConfirmBooking(c)
      PROVE  \/ booking'[b] = booking[b]
             \/ req[c].pc = "confirm" /\ req[c].b = b /\ booking[b].status # Domain!Cancelled
    BY <1>2, ConfirmBookingWrites DEF ConfirmBooking, Writes
<1>3. ASSUME NEW c \in Requests, NEW k \in Bookings, StartPayment(c, k)
      PROVE  booking'[b] = booking[b]
    BY <1>3, StartPaymentWrites DEF Writes
<1>4. ASSUME NEW k \in Bookings, NEW reason, booking[k].status # Unsaved,
             PutBooking(k, Domain!AfterCancel(booking[k], reason, DaysBefore))
      PROVE  booking'[b] = booking[b]
    BY <1>4, CancelWrites DEF Writes
<1>5. ASSUME NEW c \in Requests, NEW k \in Bookings, NEW reason, CancelBooking(c, k, reason)
      PROVE  booking'[b] = booking[b]
    BY <1>4, <1>5 DEF CancelBooking, MayActOn, Saved
<1>6. ASSUME NEW k \in Bookings, ExpireBooking(k)
      PROVE  booking'[b] = booking[b]
    BY <1>4, <1>6 DEF ExpireBooking, NextStale, WorkerPlaced
<1> QED
    BY <1>1, <1>2, <1>3, <1>5, <1>6, BookingWriters

LEMMA HousedKept ==
    ASSUME IInv, ClientsWait, [Next]_vars
    PROVE  Housed'
<1> SUFFICES ASSUME NEW b \in Bookings, booking'[b].status = Domain!Confirmed,
                    NEW j \in 1 .. Len(Stay[b])
             PROVE  P!Sure(inventory'[Stay[b][j]], b)
    BY DEF Housed, Sure
<1>1. Sure(b, Stay[b][j])
    BY NewlyConfirmed DEF IInv, Housed, Behind
<1>2. booking'[b].status # Domain!Cancelled
    BY DEF Domain!Confirmed, Domain!Cancelled
<1> QED
    BY <1>1, <1>2, StayFacts, SureStays

\* The total of a booking is written by its Book alone.
LEMMA TotalMoves ==
    ASSUME IInv, [Next]_vars, NEW b \in Bookings,
           booking'[b].status \notin {Unsaved, Domain!Cancelled}
    PROVE  \/ /\ booking[b].status \notin {Unsaved, Domain!Cancelled}
              /\ booking'[b].totalFee = booking[b].totalFee
           \/ \E c \in Requests : (Create(c) \/ SaveFixed(c)) /\ req[c].b = b
<1> USE DEF IInv, Temporary, Unsaved, Domain!TemporaryHold, Domain!ProcessingPayment,
        Domain!Confirmed, Domain!Cancelled
<1> DEFINE Goal == \/ /\ booking[b].status \notin {Unsaved, Domain!Cancelled}
                      /\ booking'[b].totalFee = booking[b].totalFee
                   \/ \E c \in Requests : (Create(c) \/ SaveFixed(c)) /\ req[c].b = b
<1>1. ASSUME booking'[b] = booking[b]
      PROVE  Goal
    BY <1>1
<1> HIDE DEF Goal
<1>2. ASSUME NEW c \in Requests, Create(c) \/ SaveFixed(c)
      PROVE  Goal
    BY <1>1, <1>2, CreateWrites, SaveFixedWrites DEF Writes, Goal
<1>3. ASSUME NEW c \in Requests, SaveUndone(c)
      PROVE  Goal
    BY <1>1, <1>3, SaveUndoneWrites DEF Writes
<1>4. ASSUME NEW c \in Requests, ConfirmBooking(c)
      PROVE  Goal
    <2>1. booking[req[c].b].status \in BegunPaying
        BY <1>4 DEF ConfirmBooking, FollowUps
    <2> QED
        BY <1>1, <1>4, <2>1, ConfirmBookingWrites DEF Writes, BegunPaying, Goal
<1>5. ASSUME NEW c \in Requests, NEW k \in Bookings, StartPayment(c, k)
      PROVE  Goal
    BY <1>1, <1>5, StartPaymentWrites DEF Writes, Goal
<1>6. ASSUME NEW k \in Bookings, NEW reason, booking[k].status # Unsaved,
             PutBooking(k, Domain!AfterCancel(booking[k], reason, DaysBefore))
      PROVE  Goal
    BY <1>1, <1>6, CancelWrites DEF Writes
<1>7. ASSUME NEW c \in Requests, NEW k \in Bookings, NEW reason, CancelBooking(c, k, reason)
      PROVE  Goal
    BY <1>6, <1>7 DEF CancelBooking, MayActOn, Saved
<1>8. ASSUME NEW k \in Bookings, ExpireBooking(k)
      PROVE  Goal
    BY <1>6, <1>8 DEF ExpireBooking, NextStale, WorkerPlaced
<1>9. Goal
    BY <1>1, <1>2, <1>3, <1>4, <1>5, <1>7, <1>8, BookingWriters
<1> QED
    BY <1>9 DEF Goal

LEMMA PricedKept ==
    ASSUME IInv, ClientsWait, [Next]_vars
    PROVE  Priced'
<1> SUFFICES ASSUME faults' = 0, NEW b \in Bookings,
                    booking'[b].status \notin {Unsaved, Domain!Cancelled},
                    ~BookRuns(b)'
             PROVE  booking'[b].totalFee = Len(Stay[b])
    BY DEF Priced
<1>1. faults = 0 /\ ~Fault
    BY FaultsCounted, BoundsAssumption DEF IInv, TypeOK, Fault
<1>2. ASSUME NEW c \in Requests, Create(c), req[c].b = b
      PROVE  FALSE
    <2>1. req'[c].pc = "hold" /\ req'[c].b = b
        BY <1>2, RequestFacts DEF Create, Become, IInv, TypeOK, ReqType
    <2> QED
        BY <2>1 DEF BookRuns, InBook
<1>3. ASSUME NEW c \in Requests, SaveFixed(c), req[c].b = b
      PROVE  booking'[b].totalFee = Len(Stay[b])
    BY <1>3, SaveFixedWrites, RequestFacts DEF SaveFixed, Writes, IInv, Placed
<1>4. ASSUME NEW c \in Requests, req[c].pc \in InBook, req[c].b = b
      PROVE  SaveFixed(c)
    <2>1. req'[c].pc \notin InBook \/ req'[c].b # b
        BY DEF BookRuns
    <2>2. Turned(c)
        BY <1>4, <2>1, RequestTurns DEF Turned, OthersKeep
    <2>3. req'[c].pc = "idle"
        BY <1>4, <2>1, <2>2, RequestFacts DEF Turned, Turn, InBook, ReqType, Create
    <2>4. SaveUndone(c) => booking'[b].status = Domain!Cancelled
        BY <1>4, SaveUndoneWrites DEF Writes, IInv
    <2> QED
        BY <1>1, <1>4, <2>2, <2>3, <2>4 DEF Turned, Turn
<1>5. CASE /\ booking[b].status \notin {Unsaved, Domain!Cancelled}
           /\ booking'[b].totalFee = booking[b].totalFee
    <2>1. booking[b].totalFee = Len(Stay[b]) \/ BookRuns(b)
        BY <1>1, <1>5 DEF IInv, Priced
    <2> QED
        BY <1>3, <1>4, <1>5, <2>1 DEF BookRuns
<1> QED
    BY <1>2, <1>3, <1>5, TotalMoves

LEMMA TypeKept ==
    ASSUME IInv, ClientsWait, [Next]_vars
    PROVE  TypeOK'
<1>1. now' \in 0 .. MaxNow
    <2>1. now' = now \/ Tick
        BY RequestTurns DEF Turned
    <2> QED
        BY <2>1, BoundsAssumption DEF Tick, IInv, TypeOK
<1>2. req' \in [Requests -> ReqType]
    BY RequestTurns DEF Turned, IInv, TypeOK
<1> QED
    BY <1>1, <1>2, BookingMoves, NightsMove, WorkerKept, FaultsCounted
       DEF TypeOK, NightsKept, IInv

LEMMA NextIInv ==
    ASSUME ClientsWait
    PROVE  IInv /\ [Next]_vars => IInv'
<1> SUFFICES ASSUME IInv, [Next]_vars
             PROVE  IInv'
    OBVIOUS
<1>1. Aggregates'
    BY NightsMove DEF NightsKept
<1>2. FreeSoFar'
    BY BookingMoves DEF Moves, FreeSoFar
<1> QED
    BY <1>1, <1>2, TypeKept, PlacedKept, OneBookKept, BookAheadKept, FollowUpsKept, WorkerKept,
       PaidIsPaidForKept, BehindKept, HousedKept, PricedKept DEF IInv

LEMMA InitIInv == Init => IInv
<1> SUFFICES ASSUME Init
             PROVE  IInv
    OBVIOUS
<1> DEFINE w == Inv!NewInventory(Quantity, 1)
<1>1. P!WellFormed(w) /\ w.fee = 1 /\ w \in Inv!InventoryType /\ \A d : ~P!Paid(w, d)
    BY NewIsWellFormed, WellFormedIsTyped, BoundsAssumption
<1>2. inventory = [n \in Nights |-> w]
    BY DEF Init
<1> HIDE DEF w
<1>3. Absent \in BookingRow /\ Absent.status = Unsaved /\ Absent.cancellationFee = 0
    BY DEF Absent, BookingRow
<1>4. IdleWorker \in WorkerType /\ IdleWorker.at = 0 /\ IdleWorker.pc = "idle" /\ IdleWorker.stale = {}
    BY DEF IdleWorker, WorkerType
<1>5. TypeOK
    BY <1>1, <1>2, <1>3, <1>4, IdleFacts, BoundsAssumption DEF Init, TypeOK
<1>6. Aggregates /\ PaidIsPaidFor
    BY <1>1, <1>2 DEF Aggregates, PaidIsPaidFor, Paid
<1>7. RequestsPlaced /\ OneBook /\ BookAhead /\ FollowUps /\ Behind
    BY IdleFacts DEF Init, RequestsPlaced, OneBook, BookAhead, FollowUps, Behind, InBook
<1>8. WorkerPlaced
    BY <1>4 DEF Init, WorkerPlaced
<1>9. Housed /\ Priced /\ FreeSoFar
    BY <1>3 DEF Init, Housed, Priced, FreeSoFar, Unsaved, Domain!Confirmed, Domain!Cancelled
<1> QED
    BY <1>5, <1>6, <1>7, <1>8, <1>9 DEF IInv

LEMMA Invariance ==
    ASSUME ClientsWait
    PROVE  Spec => []IInv
BY InitIInv, NextIInv, PTL DEF Spec

-----------------------------------------------------------------------------
(* What follows from the invariant *)

\* Every variable keeps its type, whatever the order of the requests.
THEOREM TypeCorrect ==
    ASSUME ClientsWait
    PROVE  Spec => []TypeOK
<1>1. IInv => TypeOK
    BY DEF IInv
<1> QED
    BY <1>1, Invariance, PTL

LEMMA PaidIsHeld ==
    ASSUME NEW b, NEW n
    PROVE  /\ Paid(b, n) <=> \E h \in HoldsOf(b, n) : h.status # Inv!TemporaryHold
           /\ Sure(b, n) <=> \E h \in HoldsOf(b, n) : h.status = Inv!HoldConfirmed
BY DEF Paid, Sure, P!Paid, P!Sure, P!HoldsOf, HoldsOf, Inv!HoldsOf, P!TemporaryHold,
   Inv!TemporaryHold, P!HoldConfirmed, Inv!HoldConfirmed

LEMMA HousedOnEveryNight ==
    ASSUME IInv
    PROVE  ConfirmedIsHoused
BY PaidIsHeld DEF IInv, Housed, ConfirmedIsHoused, NightsOf

\* A confirmed booking has a confirmed hold on every night of its stay: Confirm
\* reaches its last save only by way of every night, and nothing that runs beside
\* it takes a paid hold away from a booking that is not cancelled.
THEOREM ConfirmedHaveTheirNights ==
    ASSUME ClientsWait
    PROVE  Spec => []ConfirmedIsHoused
BY HousedOnEveryNight, Invariance, PTL

\* A hold is never paid for before its booking is.
THEOREM HoldsAreNeverAhead ==
    ASSUME ClientsWait
    PROVE  Spec => []PaidHoldHasPaidBooking
<1>1. IInv => PaidHoldHasPaidBooking
    BY PaidIsHeld DEF IInv, PaidIsPaidFor, PaidHoldHasPaidBooking, BegunPaying,
       Domain!TemporaryHold, Domain!ProcessingPayment, Domain!Confirmed, Domain!Cancelled
<1> QED
    BY <1>1, Invariance, PTL

\* Where nothing failed, a confirmed booking carries the price of all its nights:
\* it can be paid for only once Book's last save has fixed the total.
THEOREM ConfirmedCarryTheirPrice ==
    ASSUME ClientsWait
    PROVE  Spec => []ConfirmedIsPriced
<1>1. IInv => ConfirmedIsPriced
    <2> SUFFICES ASSUME IInv, faults = 0, NEW b \in Bookings,
                        booking[b].status = Domain!Confirmed
                 PROVE  booking[b].totalFee = Len(Stay[b])
        BY DEF ConfirmedIsPriced
    <2>1. ~BookRuns(b)
        BY DEF IInv, BookAhead, BookRuns, Temporary, Unsaved, Domain!TemporaryHold,
           Domain!Confirmed
    <2> QED
        BY <2>1 DEF IInv, Priced, Unsaved, Domain!Confirmed, Domain!Cancelled
<1> QED
    BY <1>1, Invariance, PTL

LEMMA HousedFit ==
    ASSUME IInv, NEW n \in Nights
    PROVE  Cardinality({b \in Bookings : booking[b].status = Domain!Confirmed /\ n \in NightsOf(b)})
              <= inventory[n].quantityAvailable
<1> DEFINE guests == {b \in Bookings : booking[b].status = Domain!Confirmed /\ n \in NightsOf(b)}
           v == inventory[n]
           Q == 1 .. v.quantityAvailable
           hold(b) == CHOOSE h \in v.holds : h.bookingId = b
           slot == [b \in guests |-> hold(b).slotNo]
<1>1. P!WellFormed(v) /\ v.quantityAvailable \in Nat
    BY WellFormedIsTyped DEF IInv, Aggregates, Inv!InventoryType
<1>2. \A b \in guests : \E h \in v.holds : h.bookingId = b
    BY HousedOnEveryNight DEF ConfirmedIsHoused, HoldsOf, Inv!HoldsOf
<1>3. \A b \in guests : hold(b) \in v.holds /\ hold(b).bookingId = b
    BY <1>2
<1> HIDE DEF hold
<1>4. \A b \in guests : slot[b] \in Q
    BY <1>1, <1>3 DEF P!WellFormed, P!SlotsInRange, P!UsedSlots
<1>5. \A b, d \in guests : slot[b] = slot[d] => b = d
    <2> SUFFICES ASSUME NEW b \in guests, NEW d \in guests, hold(b).slotNo = hold(d).slotNo
                 PROVE  b = d
        OBVIOUS
    <2>1. hold(b) = hold(d)
        BY <1>1, <1>3 DEF P!WellFormed, P!Distinct
    <2> QED
        BY <1>3, <2>1
<1>6. slot \in Injection(guests, Q)
    <2>1. slot \in [guests -> Q]
        BY <1>4
    <2> HIDE DEF slot
    <2> QED
        BY <1>5, <2>1, Fun_IsInj
<1>7. IsFiniteSet(Q) /\ Cardinality(Q) = v.quantityAvailable
    <2>1. 1 \in Int /\ v.quantityAvailable \in Int
        BY <1>1
    <2>2. /\ IsFiniteSet(Q)
          /\ Cardinality(Q) = IF 1 > v.quantityAvailable THEN 0 ELSE v.quantityAvailable - 1 + 1
        BY <2>1, FS_Interval, Zenon
    <2> QED
        BY <1>1, <2>2
<1> HIDE DEF slot, guests, Q
<1>8. Cardinality(guests) <= Cardinality(Q)
    BY <1>6, <1>7, FS_Injection
<1> QED
    BY <1>7, <1>8 DEF guests

\* Confirmed bookings never outnumber the rooms on sale, on no night and whatever
\* the operator does: each has a hold of its own there, and the holds fit.
THEOREM ConfirmedNeverOutnumberRooms ==
    ASSUME ClientsWait
    PROVE  Spec => []ConfirmedFitQuantity
<1>1. IInv => ConfirmedFitQuantity
    BY HousedFit DEF ConfirmedFitQuantity
<1> QED
    BY <1>1, Invariance, PTL

\* The stored status moves along allowedTransitions, although Book saves without
\* reading, and a cancelled booking keeps its fee.
THEOREM StatusesAdvance ==
    ASSUME ClientsWait
    PROVE  Spec => LifecycleRespected
<1> DEFINE Step == \A b \in Bookings :
         Saved(b) =>
            \/ booking'[b].status = booking[b].status
               /\ booking'[b].cancellationFee = booking[b].cancellationFee
            \/ Domain!canTransition(booking[b].status, booking'[b].status)
<1>1. IInv /\ [Next]_vars => Step
    BY BookingMoves DEF Moves, Saved
<1> HIDE DEF Step
<1>2. Spec => [][Step]_vars
    BY <1>1, Invariance, PTL DEF Spec
<1> QED
    BY <1>2 DEF LifecycleRespected, Step

\* No step of anybody takes away a hold that has been paid for, unless its booking
\* is cancelled.
THEOREM PaidHoldsNeverVanish ==
    ASSUME ClientsWait
    PROVE  Spec => PaidHoldsStay
<1> DEFINE Step == \A b \in Bookings, n \in Nights :
         (\E h \in HoldsOf(b, n) : h.status # Inv!TemporaryHold) /\ HoldsOf(b, n)' = {}
            => booking[b].status = Domain!Cancelled
<1>1. ASSUME IInv, [Next]_vars, NEW b \in Bookings, NEW n \in Nights,
             Paid(b, n), HoldsOf(b, n)' = {}
      PROVE  booking[b].status = Domain!Cancelled
    <2>1. ~P!Paid(inventory'[n], b)
        BY <1>1 DEF HoldsOf, Inv!HoldsOf, P!Paid, P!HoldsOf
    <2> QED
        BY <1>1, <2>1, NightsMove DEF NightsKept, Respects, Paid
<1>2. IInv /\ [Next]_vars => Step
    BY <1>1, PaidIsHeld
<1> HIDE DEF Step
<1>3. Spec => [][Step]_vars
    BY <1>2, Invariance, PTL DEF Spec
<1> QED
    BY <1>3 DEF PaidHoldsStay, Step

-----------------------------------------------------------------------------
(* The stays as seen from outside *)

LEMMA StateFacts ==
    ASSUME NEW k \in BookingRow
    PROVE  /\ StateOf(k) = "confirmed" <=> k.status = Domain!Confirmed
           /\ StateOf(k) = "none" <=> k.status = Unsaved
           /\ StateOf(k) = "ended" <=> k.status = Domain!Cancelled
           /\ StateOf(k) \in {"none", "pending", "confirmed", "ended"}
BY DEF StateOf, BookingRow, Unsaved, Domain!Confirmed, Domain!Cancelled

\* A step writes one booking, or one night.
LEMMA OneAtATime ==
    ASSUME IInv, [Next]_vars
    PROVE  \/ /\ inventory' = inventory
              /\ \E b \in Bookings : \A d \in Bookings \ {b} : booking'[d] = booking[d]
           \/ /\ booking' = booking
              /\ \E n \in Nights : \A m \in Nights \ {n} : inventory'[m] = inventory[m]
           \/ booking' = booking /\ inventory' = inventory
<1> DEFINE OneBooking == /\ inventory' = inventory
                         /\ \E b \in Bookings : \A d \in Bookings \ {b} : booking'[d] = booking[d]
           OneNight == /\ booking' = booking
                       /\ \E n \in Nights : \A m \in Nights \ {n} : inventory'[m] = inventory[m]
<1> USE DEF IInv
<1>1. ASSUME NEW b \in Bookings, NEW k, PutBooking(b, k), inventory' = inventory
      PROVE  OneBooking
    BY <1>1 DEF PutBooking, TypeOK
<1>2. ASSUME NEW n \in Nights, NEW v, PutInventory(n, v), booking' = booking
      PROVE  OneNight
    BY <1>2 DEF PutInventory, TypeOK
<1>3. ASSUME NEW c \in Requests, Create(c) \/ SaveUndone(c) \/ SaveFixed(c) \/ ConfirmBooking(c)
      PROVE  OneBooking \/ booking' = booking
    <2>1. req[c].b \in Bookings
        BY <1>3 DEF Create, SaveUndone, SaveFixed, ConfirmBooking, RequestsPlaced, Placed
    <2>2. CASE Create(c)
        BY <2>1, <2>2 DEF Create, TypeOK
    <2> QED
        BY <1>1, <1>3, <2>1, <2>2 DEF SaveUndone, SaveFixed, ConfirmBooking
<1>4. ASSUME NEW c \in Requests, NEW b \in Bookings,
             StartPayment(c, b) \/ \E reason : CancelBooking(c, b, reason)
      PROVE  OneBooking
    BY <1>1, <1>4 DEF StartPayment, CancelBooking
<1>5. ASSUME NEW b \in Bookings, ExpireBooking(b)
      PROVE  OneBooking
    BY <1>1, <1>5 DEF ExpireBooking
<1>6. ASSUME NEW c \in Requests,
             \/ HoldNight(c) \/ HoldFails(c) \/ UndoNight(c)
             \/ PayNight(c) \/ SecureNight(c) \/ ReleaseNight(c)
      PROVE  OneNight \/ inventory' = inventory
    <2>1. Night(req[c]) \in Nights
        BY <1>6, RequestNight
           DEF HoldNight, HoldFails, UndoNight, PayNight, SecureNight, ReleaseNight
    <2> QED
        BY <1>2, <1>6, <2>1 DEF HoldNight, HoldFails, UndoNight, PayNight, SecureNight,
           ReleaseNight, ReleaseOf
<1>7. ASSUME WorkerRelease
      PROVE  OneNight \/ inventory' = inventory
    <2>1. Night(worker) \in Nights
        BY <1>7, StayFacts DEF WorkerRelease, WorkerPlaced, Night
    <2> QED
        BY <1>2, <1>7, <2>1 DEF WorkerRelease, ReleaseOf
<1>8. ASSUME NEW n \in Nights, CollectNight(n) \/ Operate(n)
      PROVE  OneNight
    BY <1>2, <1>8 DEF CollectNight, Operate
<1> HIDE DEF OneBooking, OneNight, IInv
<1>9. OneBooking \/ booking' = booking
    BY <1>3, <1>4, <1>5, BookingWriters
<1>10. OneNight \/ inventory' = inventory
    BY <1>6, <1>7, <1>8, InventoryWriters
<1> QED
    BY <1>9, <1>10 DEF OneBooking, OneNight

LEMMA NightsFacts ==
    ASSUME NEW b \in Bookings
    PROVE  Outside!NightsOf(b) = NightsOf(b) /\ NightsOf(b) \subseteq Nights
<1>1. DOMAIN Stay[b] = 1 .. Len(Stay[b])
    BY StayAssumption
<1> QED
    BY <1>1, StayFacts DEF Outside!NightsOf, Outside!Range, NightsOf

LEMMA PromisedAreConfirmed ==
    ASSUME TypeOK, NEW n
    PROVE  Outside!Promised(n)
             = {b \in Bookings : booking[b].status = Domain!Confirmed /\ n \in NightsOf(b)}
<1>1. \A b \in Bookings : n \in Outside!NightsOf(b) <=> n \in NightsOf(b)
    BY NightsFacts
<1>2. \A b \in Bookings : StateOf(booking[b]) = "confirmed" <=> booking[b].status = Domain!Confirmed
    BY StateFacts DEF TypeOK
<1> QED
    BY <1>1, <1>2 DEF Outside!Promised

LEMMA BeginsTemporary ==
    ASSUME IInv, [Next]_vars, NEW b \in Bookings, booking[b].status = Unsaved
    PROVE  booking'[b] = booking[b] \/ booking'[b].status = Temporary
<1> USE DEF IInv, Temporary, Unsaved, BegunPaying, Domain!TemporaryHold,
        Domain!ProcessingPayment, Domain!Confirmed, Domain!Cancelled
<1>1. ASSUME NEW c \in Requests, Create(c) \/ SaveUndone(c) \/ SaveFixed(c)
      PROVE  booking'[b] = booking[b] \/ booking'[b].status = Temporary
    <2>1. SaveUndone(c) => req[c].b # b
        BY DEF SaveUndone, BookAhead, InBook
    <2> QED
        BY <1>1, <2>1, CreateWrites, SaveUndoneWrites, SaveFixedWrites DEF Writes
<1>2. ASSUME NEW c \in Requests, ConfirmBooking(c)
      PROVE  booking'[b] = booking[b]
    <2>1. req[c].b # b
        BY <1>2 DEF ConfirmBooking, FollowUps
    <2> QED
        BY <1>2, <2>1, ConfirmBookingWrites DEF Writes
<1>3. ASSUME NEW c \in Requests, NEW k \in Bookings, StartPayment(c, k)
      PROVE  booking'[b] = booking[b]
    BY <1>3, StartPaymentWrites DEF Writes
<1>4. ASSUME NEW k \in Bookings, NEW reason, booking[k].status # Unsaved,
             PutBooking(k, Domain!AfterCancel(booking[k], reason, DaysBefore))
      PROVE  booking'[b] = booking[b]
    BY <1>4, CancelWrites DEF Writes
<1>5. ASSUME NEW c \in Requests, NEW k \in Bookings, NEW reason, CancelBooking(c, k, reason)
      PROVE  booking'[b] = booking[b]
    BY <1>4, <1>5 DEF CancelBooking, MayActOn, Saved
<1>6. ASSUME NEW k \in Bookings, ExpireBooking(k)
      PROVE  booking'[b] = booking[b]
    BY <1>4, <1>6 DEF ExpireBooking, NextStale, WorkerPlaced
<1> QED
    BY <1>1, <1>2, <1>3, <1>5, <1>6, BookingWriters

\* What a booking's step looks like from outside
LEMMA StateMoves ==
    ASSUME IInv, ClientsWait, [Next]_vars, NEW b \in Bookings
    PROVE  LET old == StateOf(booking[b])
               new == StateOf(booking'[b])
           IN  \/ new = old
               \/ old = "none" /\ new = "pending"
               \/ old = "pending" /\ new = "confirmed"
               \/ old \in {"pending", "confirmed"} /\ new = "ended"
<1>1. Moves(b) /\ booking[b] \in BookingRow /\ booking'[b] \in BookingRow
    BY BookingMoves DEF IInv, TypeOK
<1> USE DEF StateOf, Temporary, Unsaved, Domain!TemporaryHold, Domain!ProcessingPayment,
        Domain!Confirmed, Domain!Cancelled
<1>2. CASE booking[b].status = Unsaved
    BY <1>2, BeginsTemporary
<1>3. CASE booking[b].status # Unsaved /\ booking'[b].status = booking[b].status
    BY <1>3
<1>4. CASE booking[b].status # Unsaved /\ Domain!canTransition(booking[b].status, booking'[b].status)
    <2>1. \/ booking[b].status = Temporary
             /\ booking'[b].status \in {Domain!ProcessingPayment, Domain!Cancelled}
          \/ booking[b].status = Domain!ProcessingPayment
             /\ booking'[b].status \in {Domain!Confirmed, Domain!Cancelled}
          \/ booking[b].status = Domain!Confirmed /\ booking'[b].status = Domain!Cancelled
        BY <1>1, <1>4 DEF Domain!canTransition, Domain!allowedTransitions, Domain!Status,
           BookingRow
    <2> QED
        BY <2>1
<1> QED
    BY <1>1, <1>2, <1>3, <1>4 DEF Moves

\* A booking goes from one state to the next, and is confirmed only where all its
\* nights have room.
LEMMA BookingSteps ==
    ASSUME IInv, ClientsWait, [Next]_vars, ConfirmedFitQuantity', inventory' = inventory,
           NEW b \in Bookings, \A d \in Bookings \ {b} : booking'[d] = booking[d]
    PROVE  [Outside!Next]_(Outside!vars)
<1> DEFINE states == [d \in Bookings |-> StateOf(booking[d])]
           rooms == [n \in Nights |-> inventory[n].quantityAvailable]
           old == StateOf(booking[b])
           new == StateOf(booking'[b])
<1>1. rooms' = rooms /\ states' = [states EXCEPT ![b] = new] /\ states[b] = old
    OBVIOUS
<1>2. CASE new = old
    <2>1. states' = states
        BY <1>1, <1>2
    <2> QED
        BY <1>1, <2>1 DEF Outside!vars
<1>3. CASE old = "none" /\ new = "pending"
    <2>1. Outside!Request(b)
        BY <1>1, <1>3 DEF Outside!Request, Outside!Become
    <2> QED
        BY <2>1 DEF Outside!Next
<1>4. CASE old = "pending" /\ new = "confirmed"
    <2>1. ASSUME NEW n \in Outside!NightsOf(b)
          PROVE  Cardinality(Outside!Promised(n) \cup {b}) <= rooms[n]
        <3>1. n \in NightsOf(b) /\ n \in Nights
            BY <2>1, NightsFacts
        <3>2. booking'[b].status = Domain!Confirmed
            BY <1>4, StateFacts, BookingMoves
        <3>3. Outside!Promised(n) \cup {b}
                = {d \in Bookings : booking'[d].status = Domain!Confirmed /\ n \in NightsOf(d)}
            BY <3>1, <3>2, PromisedAreConfirmed DEF IInv
        <3>4. Cardinality({d \in Bookings : booking'[d].status = Domain!Confirmed
                                            /\ n \in NightsOf(d)})
                <= inventory[n].quantityAvailable
            BY <3>1 DEF ConfirmedFitQuantity, NightsOf
        <3> QED
            BY <3>1, <3>3, <3>4
    <2>2. Outside!Confirm(b)
        BY <1>1, <1>4, <2>1 DEF Outside!Confirm, Outside!Become, Outside!Cardinality, Cardinality
    <2> QED
        BY <2>2 DEF Outside!Next
<1>5. CASE old \in {"pending", "confirmed"} /\ new = "ended"
    <2>1. Outside!End(b)
        BY <1>1, <1>5 DEF Outside!End, Outside!Become
    <2> QED
        BY <2>1 DEF Outside!Next
<1> QED
    BY <1>2, <1>3, <1>4, <1>5, StateMoves

\* A night changes only so far that what is promised still fits.
LEMMA NightSteps ==
    ASSUME IInv, ClientsWait, [Next]_vars, ConfirmedFitQuantity', booking' = booking,
           NEW n \in Nights, \A m \in Nights \ {n} : inventory'[m] = inventory[m]
    PROVE  Outside!Next
<1> DEFINE rooms == [m \in Nights |-> inventory[m].quantityAvailable]
<1>1. rooms' \in [Nights -> Nat] /\ \A m \in Nights \ {n} : rooms'[m] = rooms[m]
    <2>1. \A m \in Nights : inventory'[m].quantityAvailable \in Nat
        BY NightsMove DEF NightsKept, Inv!InventoryType
    <2> QED
        BY <2>1
<1>2. Outside!Cardinality(Outside!Promised(n)) <= rooms'[n]
    <2>1. Cardinality({b \in Bookings : booking[b].status = Domain!Confirmed /\ n \in NightsOf(b)})
             <= inventory'[n].quantityAvailable
        BY DEF ConfirmedFitQuantity, NightsOf
    <2>2. Outside!Promised(n)
             = {b \in Bookings : booking[b].status = Domain!Confirmed /\ n \in NightsOf(b)}
        BY PromisedAreConfirmed DEF IInv
    <2> QED
        BY <2>1, <2>2 DEF Outside!Cardinality, Cardinality
<1>3. Outside!Resize(n)
    BY <1>1, <1>2 DEF Outside!Resize
<1> QED
    BY <1>3 DEF Outside!Next

\* However transactions interleave, fail and are cut short, whatever the worker
\* and the operator do between them: a stay is confirmed in one step, on nights
\* that all have room for it, and nobody loses it but by a cancellation.
THEOREM ProcessImplementsReservation ==
    ASSUME ClientsWait
    PROVE  Spec => ImplementsReservation
<1>1. Init => Outside!Init
    <2> SUFFICES ASSUME Init
                 PROVE  Outside!Init
        OBVIOUS
    <2>1. \A b \in Bookings : StateOf(booking[b]) = "none"
        BY DEF Init, Absent, StateOf, Unsaved, Domain!Confirmed, Domain!Cancelled
    <2>2. \A n \in Nights : inventory[n].quantityAvailable \in Nat
        BY BoundsAssumption DEF Init, Inv!NewInventory
    <2> QED
        BY <2>1, <2>2 DEF Outside!Init
<1>2. IInv /\ ConfirmedFitQuantity' /\ [Next]_vars => [Outside!Next]_(Outside!vars)
    <2> SUFFICES ASSUME IInv, ConfirmedFitQuantity', [Next]_vars
                 PROVE  [Outside!Next]_(Outside!vars)
        OBVIOUS
    <2>1. CASE booking' = booking /\ inventory' = inventory
        BY <2>1 DEF Outside!vars
    <2> QED
        BY <2>1, OneAtATime, BookingSteps, NightSteps
<1> QED
    BY <1>1, <1>2, Invariance, ConfirmedNeverOutnumberRooms, PTL
       DEF Spec, ImplementsReservation, Outside!Spec

=============================================================================
