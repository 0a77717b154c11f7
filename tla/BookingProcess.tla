--------------------------- MODULE BookingProcess ---------------------------
(***************************************************************************)
(* The booking process manager over the inventories of several nights:     *)
(* src/server/internal/booking/app/booking.go, with the HTTP requests that *)
(* call it and the worker of src/server/cmd/worker/main.go.                *)
(*                                                                         *)
(* A booking and the inventory of each of its nights are separate          *)
(* aggregates, each changed in transactions of its own: Book, Confirm and  *)
(* Cancel are sequences of such transactions that requests and the worker  *)
(* interleave, and that a failed transaction or the end of the process     *)
(* cuts short.  One transaction is one step here: InventoryTx shows that   *)
(* the inventory's are atomic, and a booking's locks its row or, where the *)
(* code does not, writes it blindly in one statement.                      *)
(***************************************************************************)
EXTENDS Integers, Sequences, FiniteSets

CONSTANTS
    Bookings,      \* booking ids
    Nights,        \* dates that have an inventory, as numbers in date order
    Stay,          \* Stay[b]: the dates of the booking's stay period, ascending
    Quantity,      \* rooms on sale each night, to begin with
    Quantities,    \* quantities the inn's operator may change a night to
    OperatorCloses,\* the operator may close and reopen nights
    Operated,      \* the nights that the operator changes
    Requests,      \* API requests that may run at the same time
    TTL,           \* HoldTTL, in ticks of the clock
    MaxNow,        \* bound on the clock
    MaxFaults,     \* bound on failed transactions and killed processes
    DaysBefore,    \* days from the cancellations to the check-in date
    ClientsWait    \* a client acts on a booking only once its Book has ended

ASSUME StayAssumption == Stay \in [Bookings -> Seq(Nights) \ {<<>>}]
ASSUME BoundsAssumption == /\ TTL \in Nat \ {0} /\ MaxNow \in Nat
                           /\ MaxFaults \in Nat /\ Quantity \in Nat
ASSUME OperatorAssumption == /\ Quantities \subseteq Int /\ OperatorCloses \in BOOLEAN
                              /\ Operated \subseteq Nights
ASSUME ClientsAssumption == ClientsWait \in BOOLEAN

Domain == INSTANCE BookingDomain
Inv == INSTANCE InventoryDomain

VARIABLES
    now,           \* the clock
    booking,       \* the bookings table
    inventory,     \* the inventories and their holds, by night
    req,           \* the API's requests
    worker,        \* the worker's pass
    faults         \* failed transactions and killed processes so far

vars == <<now, booking, inventory, req, worker, faults>>

Unsaved == "unsaved"
Absent == [status |-> Unsaved, totalFee |-> 0, cancellationFee |-> 0, createdAt |-> 0]
BookingRow == [status : Domain!Status \cup {Unsaved}, totalFee : Nat,
               cancellationFee : Nat, createdAt : Nat]

(***************************************************************************)
(* A request's pc:                                                         *)
(*   create, hold, fix          Book, while it succeeds                    *)
(*   undo, undone               Book's compensate                          *)
(*   pay, secure, confirm       Confirm, after its first transaction       *)
(*   release                    Cancel, after its first transaction        *)
(* i is the position in Stay[b] of the night in hand, total the fee of the *)
(* nights held, held the number of them that compensate will release.      *)
(***************************************************************************)
ReqType == [pc : {"idle", "create", "hold", "fix", "undo", "undone",
                  "pay", "secure", "confirm", "release"},
            b : Bookings \cup {Unsaved}, i : Nat, held : Nat, total : Nat, at : Nat]
IdleReq == [pc |-> "idle", b |-> Unsaved, i |-> 0, held |-> 0, total |-> 0, at |-> 0]

WorkerType == [pc : {"idle", "expire", "release", "list", "collect"},
               at : Nat, stale : SUBSET Bookings, due : SUBSET Nights,
               b : Bookings \cup {Unsaved}, i : Nat]
IdleWorker == [pc |-> "idle", at |-> 0, stale |-> {}, due |-> {}, b |-> Unsaved, i |-> 0]

TypeOK ==
    /\ now \in 0 .. MaxNow
    /\ booking \in [Bookings -> BookingRow]
    /\ inventory \in [Nights -> Inv!InventoryType]
    /\ req \in [Requests -> ReqType]
    /\ worker \in WorkerType
    /\ faults \in 0 .. MaxFaults

Init ==
    /\ now = 0
    /\ booking = [b \in Bookings |-> Absent]
    /\ inventory = [n \in Nights |-> Inv!NewInventory(Quantity, 1)]
    /\ req = [c \in Requests |-> IdleReq]
    /\ worker = IdleWorker
    /\ faults = 0

-----------------------------------------------------------------------------
(* State formulae and the shapes of a step *)

Saved(b) == booking[b].status # Unsaved
InBook == {"create", "hold", "fix", "undo", "undone"}
BookRuns(b) == \E c \in Requests : req[c].b = b /\ req[c].pc \in InBook

\* A client that does not wait has the booking's id from the list of its
\* bookings (ListByBooker) while Book is still running.
MayActOn(b) == Saved(b) /\ (ClientsWait => ~BookRuns(b))

\* The aggregate's part of a row, and the row with a new aggregate.
PutBooking(b, k) ==
    booking' = [booking EXCEPT ![b] = [@ EXCEPT !.status = k.status,
                    !.totalFee = k.totalFee, !.cancellationFee = k.cancellationFee]]
PutInventory(n, v) == inventory' = [inventory EXCEPT ![n] = v]

Become(c, r) == req' = [req EXCEPT ![c] = r]
EndRequest(c) == Become(c, IdleReq)

Night(r) == Stay[r.b][r.i]
LastNight(r) == r.i = Len(Stay[r.b])

Advance_Short(r, stage) ==
    IF r.i + 1 >= Len(Stay[r.b]) THEN [r EXCEPT !.pc = stage, !.i = 1]
    ELSE [r EXCEPT !.i = @ + 1]

\* The next night, or the next stage from its first night on.
Advance(r, stage) ==
    IF LastNight(r) THEN [r EXCEPT !.pc = stage, !.i = 1] ELSE [r EXCEPT !.i = @ + 1]

\* A transaction fails (ErrBusy, a lost connection, the request's deadline) or a
\* process is killed.
Fault == faults < MaxFaults /\ faults' = faults + 1

-----------------------------------------------------------------------------
(* Book *)

\* The request arrives and its clock is read.  The clock's bound leaves time for
\* the booking to become stale.
BeginBook(c, b) ==
    /\ req[c].pc = "idle"
    /\ ~Saved(b) /\ ~BookRuns(b)
    /\ now + TTL + 2 <= MaxNow
    /\ Become(c, [IdleReq EXCEPT !.pc = "create", !.b = b, !.at = now])
    /\ UNCHANGED <<now, booking, inventory, worker, faults>>

\* The first save: created_at is the database's clock.
Create(c) ==
    LET b == req[c].b IN
    /\ req[c].pc = "create"
    /\ booking' = [booking EXCEPT ![b] =
          [status |-> Domain!NewBooking.status, totalFee |-> 0,
           cancellationFee |-> 0, createdAt |-> now]]
    /\ Become(c, [req[c] EXCEPT !.pc = "hold", !.i = 1])
    /\ UNCHANGED <<now, inventory, worker, faults>>

HoldNight(c) ==
    LET r == req[c]
        v == inventory[Night(r)]
    IN  /\ r.pc = "hold"
        /\ Inv!CanHold(v, r.b, r.at + TTL, r.at)
        /\ PutInventory(Night(r), Inv!AfterHold(v, r.b, r.at + TTL))
        /\ Become(c, [Advance(r, "fix") EXCEPT !.held = @ + 1, !.total = @ + v.fee])
        /\ UNCHANGED <<now, booking, worker, faults>>

Compensate(r) == [r EXCEPT !.pc = IF r.held = 0 THEN "undone" ELSE "undo", !.i = 1]

\* The night is sold out or closed, or already held by the booking.
HoldRefused(c) ==
    LET r == req[c] IN
    /\ r.pc = "hold"
    /\ ~Inv!CanHold(inventory[Night(r)], r.b, r.at + TTL, r.at)
    /\ Become(c, Compensate(r))
    /\ UNCHANGED <<now, booking, inventory, worker, faults>>

\* Hold's transaction fails, or commits although its caller is told that it
\* failed: the night is then not among those compensate releases.
HoldFails(c) ==
    LET r == req[c]
        v == inventory[Night(r)]
    IN  /\ r.pc = "hold"
        /\ Fault
        /\ \/ UNCHANGED inventory
           \/ /\ Inv!CanHold(v, r.b, r.at + TTL, r.at)
              /\ PutInventory(Night(r), Inv!AfterHold(v, r.b, r.at + TTL))
        /\ Become(c, Compensate(r))
        /\ UNCHANGED <<now, booking, worker>>

AfterUndo(r) == IF r.i = r.held THEN [r EXCEPT !.pc = "undone"] ELSE [r EXCEPT !.i = @ + 1]

\* compensate ignores what Release returns.
UndoNight(c) ==
    LET r == req[c]
        v == inventory[Night(r)]
    IN  /\ r.pc = "undo"
        /\ Become(c, AfterUndo(r))
        /\ \/ /\ Inv!CanRelease(v, r.b)
              /\ PutInventory(Night(r), Inv!AfterRelease(v, r.b))
              /\ UNCHANGED faults
           \/ /\ ~Inv!CanRelease(v, r.b)
              /\ UNCHANGED <<inventory, faults>>
           \/ Fault /\ UNCHANGED inventory
        /\ UNCHANGED <<now, booking, worker>>

\* The blind saves of the booking that Book has kept in memory since it made it.
InMemory == Domain!NewBooking

SaveUndone(c) ==
    LET b == req[c].b IN
    /\ req[c].pc = "undone"
    /\ PutBooking(b, Domain!AfterCancel(InMemory, Domain!Expired, DaysBefore))
    /\ EndRequest(c)
    /\ UNCHANGED <<now, inventory, worker, faults>>

SaveFixed_Dropped(c) ==
    /\ req[c].pc = "fix"
    /\ EndRequest(c)
    /\ UNCHANGED <<now, booking, inventory, worker, faults>>

SaveFixed(c) ==
    LET b == req[c].b IN
    /\ req[c].pc = "fix"
    /\ PutBooking(b, Domain!AfterFixTotalFee(InMemory, req[c].total))
    /\ EndRequest(c)
    /\ UNCHANGED <<now, inventory, worker, faults>>

-----------------------------------------------------------------------------
(* Confirm: what a successful payment asks for *)

StartPayment_Unsaved(c, b) ==
    /\ req[c].pc = "idle"
    /\ MayActOn(b)
    /\ Domain!CanStartPayment(booking[b])
    /\ Become(c, [IdleReq EXCEPT !.pc = "pay", !.b = b, !.i = 1, !.at = now])
    /\ UNCHANGED <<now, booking, inventory, worker, faults>>

StartPayment(c, b) ==
    /\ req[c].pc = "idle"
    /\ MayActOn(b)
    /\ Domain!CanStartPayment(booking[b])
    /\ PutBooking(b, Domain!AfterStartPayment(booking[b]))
    /\ Become(c, [IdleReq EXCEPT !.pc = "pay", !.b = b, !.i = 1, !.at = now])
    /\ UNCHANGED <<now, inventory, worker, faults>>

PayNight(c) ==
    LET r == req[c]
        v == inventory[Night(r)]
    IN  /\ r.pc = "pay"
        /\ Inv!CanStartPayment(v, r.b)
        /\ PutInventory(Night(r), Inv!AfterStartPayment(v, r.b))
        /\ Become(c, Advance(r, "secure"))
        /\ UNCHANGED <<now, booking, worker, faults>>

SecureNight(c) ==
    LET r == req[c]
        v == inventory[Night(r)]
    IN  /\ r.pc = "secure"
        /\ Inv!CanConfirm(v, r.b)
        /\ PutInventory(Night(r), Inv!AfterConfirm(v, r.b))
        /\ Become(c, Advance(r, "confirm"))
        /\ UNCHANGED <<now, booking, worker, faults>>

\* The first night that has no hold to pay or to confirm ends the request with an
\* error; nothing is compensated.
NightRefused(c) ==
    LET r == req[c]
        v == inventory[Night(r)]
    IN  /\ \/ r.pc = "pay" /\ ~Inv!CanStartPayment(v, r.b)
           \/ r.pc = "secure" /\ ~Inv!CanConfirm(v, r.b)
        /\ EndRequest(c)
        /\ UNCHANGED <<now, booking, inventory, worker, faults>>

ConfirmBooking(c) ==
    LET b == req[c].b IN
    /\ req[c].pc = "confirm"
    /\ IF Domain!CanConfirm(booking[b])
       THEN PutBooking(b, Domain!AfterConfirm(booking[b]))
       ELSE UNCHANGED booking
    /\ EndRequest(c)
    /\ UNCHANGED <<now, inventory, worker, faults>>

-----------------------------------------------------------------------------
(* Cancel: by the guest, by a failed payment, or by the worker *)

CancelBooking_Unsaved(c, b, reason) ==
    /\ req[c].pc = "idle"
    /\ MayActOn(b)
    /\ reason \in Domain!CancellationReason
    /\ Domain!CanCancel(booking[b])
    /\ Become(c, [IdleReq EXCEPT !.pc = "release", !.b = b, !.i = 1, !.at = now])
    /\ UNCHANGED <<now, booking, inventory, worker, faults>>

CancelBooking(c, b, reason) ==
    /\ req[c].pc = "idle"
    /\ MayActOn(b)
    /\ Domain!CanCancel(booking[b])
    /\ PutBooking(b, Domain!AfterCancel(booking[b], reason, DaysBefore))
    /\ Become(c, [IdleReq EXCEPT !.pc = "release", !.b = b, !.i = 1, !.at = now])
    /\ UNCHANGED <<now, inventory, worker, faults>>

\* A hold that is no longer there counts as released.
ReleaseOf(n, b) ==
    IF Inv!CanRelease(inventory[n], b)
    THEN PutInventory(n, Inv!AfterRelease(inventory[n], b))
    ELSE UNCHANGED inventory

ReleaseNight_FirstOnly(c) ==
    LET r == req[c] IN
    /\ r.pc = "release"
    /\ ReleaseOf(Night(r), r.b)
    /\ EndRequest(c)
    /\ UNCHANGED <<now, booking, worker, faults>>

ReleaseNight(c) ==
    LET r == req[c] IN
    /\ r.pc = "release"
    /\ ReleaseOf(Night(r), r.b)
    /\ IF LastNight(r) THEN EndRequest(c) ELSE Become(c, Advance(r, "release"))
    /\ UNCHANGED <<now, booking, worker, faults>>

\* Any other transaction of a request fails and its error is returned, or the
\* process is killed between two of them: the rest of the request is not run.
Cut(c) ==
    /\ req[c].pc # "idle"
    /\ Fault
    /\ EndRequest(c)
    /\ UNCHANGED <<now, booking, inventory, worker>>

-----------------------------------------------------------------------------
(* The worker: ExpireStale, then CollectExpired, with one reading of the clock *)

Stale_StillHeld(at) ==
    {b \in Bookings : booking[b].status = Domain!TemporaryHold
                      /\ booking[b].createdAt < at - TTL
                      /\ \E n \in Nights : Inv!HasHold(inventory[n], b)}

Stale(at) ==
    {b \in Bookings : booking[b].status = Domain!TemporaryHold
                      /\ booking[b].createdAt < at - TTL}
Due(at) == {n \in Nights : Inv!ExpiredHolds(inventory[n], at) # {}}

BeginPass(at) ==
    /\ worker.pc = "idle"
    /\ worker' = [IdleWorker EXCEPT !.pc = "expire", !.at = at, !.stale = Stale(at)]
    /\ UNCHANGED <<now, booking, inventory, req, faults>>

\* The ids come ordered by created_at.
NextStale(b) ==
    /\ worker.pc = "expire"
    /\ b \in worker.stale
    /\ \A other \in worker.stale : booking[b].createdAt <= booking[other].createdAt

\* Cancel, whatever has become of the booking since it was listed.
ExpireBooking(b) ==
    /\ NextStale(b)
    /\ Domain!CanCancel(booking[b])
    /\ PutBooking(b, Domain!AfterCancel(booking[b], Domain!Expired, DaysBefore))
    /\ worker' = [worker EXCEPT !.pc = "release", !.b = b, !.i = 1, !.stale = @ \ {b}]
    /\ UNCHANGED <<now, inventory, req, faults>>

Released == [worker EXCEPT !.pc = "expire", !.b = Unsaved, !.i = 0]

WorkerRelease ==
    /\ worker.pc = "release"
    /\ ReleaseOf(Night(worker), worker.b)
    /\ worker' = IF LastNight(worker) THEN Released ELSE [worker EXCEPT !.i = @ + 1]
    /\ UNCHANGED <<now, booking, req, faults>>

ListDue ==
    /\ worker.pc = "expire"
    /\ worker.stale = {}
    /\ worker' = IF Due(worker.at) = {} THEN IdleWorker
                 ELSE [IdleWorker EXCEPT !.pc = "collect", !.at = worker.at,
                                         !.due = Due(worker.at)]
    /\ UNCHANGED <<now, booking, inventory, req, faults>>

\* The inventories come ordered by date; one without expired holds is not saved.
CollectNight(n) ==
    /\ worker.pc = "collect"
    /\ n \in worker.due
    /\ \A other \in worker.due : n <= other
    /\ PutInventory(n, Inv!AfterCollectExpired(inventory[n], worker.at))
    /\ worker' = IF worker.due = {n} THEN IdleWorker ELSE [worker EXCEPT !.due = @ \ {n}]
    /\ UNCHANGED <<now, booking, req, faults>>

\* A failed Cancel ends ExpireStale, a failed release only that booking's
\* releases, a failed collection the pass; a killed worker starts a new pass.
WorkerFails ==
    /\ worker.pc # "idle"
    /\ Fault
    /\ worker' \in {IdleWorker} \cup
          (CASE worker.pc = "expire" -> {[worker EXCEPT !.stale = {}]}
             [] worker.pc = "release" -> {Released}
             [] OTHER -> {})
    /\ UNCHANGED <<now, booking, inventory, req>>

-----------------------------------------------------------------------------
(* The inn's operator, at any moment.  Fees stay as they are, so that a total *)
(* counts nights.                                                          *)

Operate(n) ==
    LET v == inventory[n] IN
    /\ \/ \E q \in Quantities : /\ Inv!CanChangeQuantity(v, q)
                               /\ PutInventory(n, Inv!AfterChangeQuantity(v, q))
       \/ OperatorCloses /\ Inv!CanClose(v) /\ PutInventory(n, Inv!AfterClose(v))
       \/ OperatorCloses /\ Inv!CanReopen(v) /\ PutInventory(n, Inv!AfterReopen(v))
    /\ UNCHANGED <<now, booking, req, worker, faults>>

-----------------------------------------------------------------------------
\* A request's deadline (5 s) is far below HoldTTL (30 min): it sees the clock
\* move at most once.
Tick ==
    /\ now < MaxNow
    /\ \A c \in Requests : req[c].pc = "idle" \/ req[c].at = now
    /\ now' = now + 1
    /\ UNCHANGED <<booking, inventory, req, worker, faults>>

\* What a request does by itself once it has begun.
RequestStep(c) ==
    \/ Create(c)
    \/ HoldNight(c)
    \/ HoldRefused(c)
    \/ UndoNight(c)
    \/ SaveUndone(c)
    \/ SaveFixed(c)
    \/ PayNight(c)
    \/ SecureNight(c)
    \/ NightRefused(c)
    \/ ConfirmBooking(c)
    \/ ReleaseNight(c)

\* The result of a payment is reported by a request of its own.  A payment that
\* timed out changes nothing.
Payment(c, b) == StartPayment(c, b) \/ CancelBooking(c, b, Domain!PaymentFailed)

CancelByGuest(c, b) == CancelBooking(c, b, Domain!ByGuest)

\* Clients repeat and reorder their requests as they like.
ClientAction(c) ==
    \E b \in Bookings : BeginBook(c, b) \/ Payment(c, b) \/ CancelByGuest(c, b)

WorkerStep ==
    \/ BeginPass(now)
    \/ \E b \in Bookings : ExpireBooking(b)
    \/ WorkerRelease
    \/ ListDue
    \/ \E n \in Nights : CollectNight(n)

Next ==
    \/ \E c \in Requests : ClientAction(c) \/ RequestStep(c) \/ HoldFails(c) \/ Cut(c)
    \/ WorkerStep
    \/ WorkerFails
    \/ \E n \in Operated : Operate(n)
    \/ Tick

Spec == Init /\ [][Next]_vars

\* Requests that have begun run on, the worker's ticker keeps firing and time
\* passes.  No client is obliged to do anything.
FairSpec ==
    /\ Spec
    /\ \A c \in Requests : WF_vars(RequestStep(c))
    /\ WF_vars(WorkerStep)
    /\ WF_vars(Tick)

-----------------------------------------------------------------------------
(* Safety *)

HoldsOf(b, n) == Inv!HoldsOf(inventory[n], b)
NightsOf(b) == {Stay[b][i] : i \in 1 .. Len(Stay[b])}

\* A confirmed booking has a confirmed hold on every night of its stay, although
\* its status and its holds are written in as many transactions.
ConfirmedIsHoused ==
    \A b \in Bookings : booking[b].status = Domain!Confirmed =>
        \A n \in NightsOf(b) : \E h \in HoldsOf(b, n) : h.status = Inv!HoldConfirmed

\* No night has more confirmed bookings than rooms on sale.
ConfirmedFitQuantity ==
    \A n \in Nights :
        Cardinality({b \in Bookings : booking[b].status = Domain!Confirmed
                                      /\ n \in NightsOf(b)})
            <= inventory[n].quantityAvailable

\* A hold is never ahead of its booking: only a booking whose payment has begun
\* has a hold that can not expire.
PaidHoldHasPaidBooking ==
    \A b \in Bookings, n \in Nights : \A h \in HoldsOf(b, n) :
        h.status # Inv!TemporaryHold => booking[b].status # Domain!TemporaryHold

\* A confirmed booking carries the price of all its nights, unless something
\* failed: a Book that dies before its last save leaves a payable total of 0.
ConfirmedIsPriced ==
    faults = 0 => \A b \in Bookings : booking[b].status = Domain!Confirmed =>
        booking[b].totalFee = Len(Stay[b])

\* Every change of a stored status is one that allowedTransitions allows, and a
\* cancelled booking keeps its cancellation fee.
LifecycleRespected ==
    [][\A b \in Bookings :
         Saved(b) =>
            \/ booking'[b].status = booking[b].status
               /\ booking'[b].cancellationFee = booking[b].cancellationFee
            \/ Domain!canTransition(booking[b].status, booking'[b].status)]_vars

\* A hold that has been paid for disappears only once its booking is cancelled.
PaidHoldsStay ==
    [][\A b \in Bookings, n \in Nights :
         (\E h \in HoldsOf(b, n) : h.status # Inv!TemporaryHold) /\ HoldsOf(b, n)' = {}
            => booking[b].status = Domain!Cancelled]_vars

\* booking_test.go: a confirmed booking is not expired.  A step that cancels one
\* is not the worker's.
ExpirySparesConfirmed ==
    [][\A b \in Bookings :
         booking[b].status = Domain!Confirmed /\ booking'[b].status = Domain!Cancelled
            => worker' = worker]_vars

\* booking_test.go: a cancelled booking can not be paid for or confirmed any more;
\* allowedTransitions leads nowhere from cancelled.
CancelledIsFinal ==
    [][\A b \in Bookings :
         booking[b].status = Domain!Cancelled => booking'[b].status = Domain!Cancelled]_vars

-----------------------------------------------------------------------------
(* What it amounts to *)

\* A paid booking that is not confirmed has no promise yet.
StateOf(k) == CASE k.status = Unsaved -> "none"
                [] k.status = Domain!Confirmed -> "confirmed"
                [] k.status = Domain!Cancelled -> "ended"
                [] OTHER -> "pending"

Outside == INSTANCE Reservation WITH
    state <- [b \in Bookings |-> StateOf(booking[b])],
    rooms <- [n \in Nights |-> inventory[n].quantityAvailable]

\* However its transactions interleave and fail, and whatever the worker and the
\* operator do between them, a stay is confirmed in one step, on nights that all
\* have room for it.
ImplementsReservation == Outside!Spec

-----------------------------------------------------------------------------
(* Liveness *)

\* A booking nobody pays for is cancelled in the end.
TemporaryBookingEnds ==
    \A b \in Bookings :
        booking[b].status = Domain!TemporaryHold ~> booking[b].status # Domain!TemporaryHold

\* A temporary hold is paid for, released or collected in the end, even if the
\* request that made it died.
TemporaryHoldEnds ==
    \A b \in Bookings, n \in Nights :
        (\E h \in HoldsOf(b, n) : h.status = Inv!TemporaryHold)
            ~> ~(\E h \in HoldsOf(b, n) : h.status = Inv!TemporaryHold)

\* README: a payment that succeeded without its booking being confirmed is
\* recovered.  A booking whose payment has begun is confirmed or cancelled in
\* the end.
PaymentEnds ==
    \A b \in Bookings :
        booking[b].status = Domain!ProcessingPayment
            ~> booking[b].status # Domain!ProcessingPayment

\* README: holds are released, or collected when they expire.  The nights of a
\* cancelled booking are free again in the end, paid ones too, unless a release
\* failed: nothing repeats it, and a paid hold never expires.
CancelledIsReleased ==
    \A b \in Bookings, n \in Nights :
        booking[b].status = Domain!Cancelled
            ~> HoldsOf(b, n) = {} \/ booking[b].status # Domain!Cancelled \/ faults # 0

=============================================================================
