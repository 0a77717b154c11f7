---------------------------- MODULE InventoryRows ----------------------------
(***************************************************************************)
(* The rows that hold one inventory, and the conversions between them and  *)
(* the aggregate: src/server/internal/inventory/infra/postgres, mapper.go  *)
(* and the statements of db/*.sql.go that repository.go runs.              *)
(*                                                                         *)
(* A Go int is wider than the INT columns, time.Time is finer than         *)
(* TIMESTAMPTZ and the statements, not the aggregate, decide which columns *)
(* of a known hold are written again.  One transaction is one step here,   *)
(* which InventoryTx justifies; a constraint that fails aborts it and      *)
(* nothing changes.  As in InventoryDomain, X_Fault is a faulty X.         *)
(***************************************************************************)
EXTENDS InventoryDomain, Widths

CONSTANTS Amounts,       \* fees and quantities that are asked for
          HoldIds,       \* ids drawn for holds (UUIDs)
          Times,         \* the instants the clock shows
          InventoryDate, \* the instant at which the inventory's date begins
          TTL,           \* HoldTTL: how far ahead of its clock Book sets an expiry
          Micro          \* the clock's units in a microsecond

ASSUME AmountsAssumption == Amounts \subseteq Int
ASSUME TimesAssumption == Times \subseteq Nat /\ 0 \in Times
ASSUME DateAssumption == InventoryDate \in Nat
\* 30 minutes are more than a microsecond.
ASSUME TTLAssumption == Micro \in Nat \ {0} /\ TTL \in Nat /\ TTL >= Micro
\* The clock shows every instant, those at a whole microsecond among them.
ASSUME TruncationAssumption == \A t \in Times : t - (t % Micro) \in Times

VARIABLES now,           \* the clock
          row,           \* the row of inventories, or NoRow
          holdRows,      \* its rows of holds
          asked          \* the fee and the quantity the operator was last told are set

vars == <<now, row, holdRows, asked>>

-----------------------------------------------------------------------------
(* The columns *)

NoRow == [fee |-> 0, quantity_available |-> 0, is_closed |-> FALSE, exists |-> FALSE]
RowType == [fee : Columns, quantity_available : Columns, is_closed : BOOLEAN, exists : BOOLEAN]

Null == -1

DBTemporaryHold     == "hold_status.temporary_hold"
DBProcessingPayment == "hold_status.processing_payment"
DBConfirmed         == "hold_status.confirmed"
DBHoldStatus == {DBTemporaryHold, DBProcessingPayment, DBConfirmed}

HoldRowType == [id : HoldIds, booking_id : Bookings, status : DBHoldStatus,
                expired_at : Nat \cup {Null}, slot_no : Columns]

toDBHoldStatus(s) ==
    CASE s = TemporaryHold -> DBTemporaryHold
      [] s = ProcessingPayment -> DBProcessingPayment
      [] s = HoldConfirmed -> DBConfirmed

toDomainHoldStatus(s) ==
    CASE s = DBTemporaryHold -> TemporaryHold
      [] s = DBProcessingPayment -> ProcessingPayment
      [] s = DBConfirmed -> HoldConfirmed

\* TIMESTAMPTZ keeps microseconds: the driver cuts off the rest.
Truncated(t) == t - (t % Micro)

toTimestamptz(t) == IF t = NoExpiry THEN Null ELSE Truncated(t)
toTimePointer(t) == IF t = Null THEN NoExpiry ELSE t

\* load: the aggregate that the rows stand for
toInventory(r, hs) ==
    [quantityAvailable |-> r.quantity_available, fee |-> r.fee, isClosed |-> r.is_closed,
     holds |-> {[bookingId |-> h.booking_id, slotNo |-> h.slot_no,
                 status |-> toDomainHoldStatus(h.status),
                 expiredAt |-> toTimePointer(h.expired_at)] : h \in hs}]

stored == toInventory(row, holdRows)

-----------------------------------------------------------------------------
(* The statements *)

checks_SignIgnored(r) == r.fee \in Columns /\ r.quantity_available \in Columns
\* CHECK (fee >= 0), CHECK (quantity_available >= 0)
checks(r) == r.fee >= 0 /\ r.quantity_available >= 0

toUpsertInventoryParams_Swapped(inv) ==
    [fee |-> Int32(inv.quantityAvailable), quantity_available |-> Int32(inv.fee),
     is_closed |-> inv.isClosed, exists |-> TRUE]

toUpsertInventoryParams(inv) ==
    [fee |-> Int32(inv.fee), quantity_available |-> Int32(inv.quantityAvailable),
     is_closed |-> inv.isClosed, exists |-> TRUE]

\* The hold keeps its id in memory; it is known here by its booking and slot.
IsRowOf(h, r) == r.booking_id = h.bookingId /\ r.slot_no = h.slotNo

toUpsertHoldParams(h, id) ==
    [id |-> id, booking_id |-> h.bookingId, status |-> toDBHoldStatus(h.status),
     expired_at |-> toTimestamptz(h.expiredAt), slot_no |-> Int32(h.slotNo)]

\* DeleteHoldById, for every row whose hold is gone
AfterDelete(inv, hs) == {r \in hs : \E h \in inv.holds : IsRowOf(h, r)}

OnConflict_StatusOnly(r, params) == [r EXCEPT !.status = params.status]

\* ON CONFLICT (id) DO UPDATE: neither the slot nor the booking is written again
OnConflict(r, params) ==
    [r EXCEPT !.status = params.status, !.expired_at = params.expired_at]

\* UpsertHold, hold by hold; a hold without a row is new and brings the drawn id.
AfterUpsert(inv, hs, id) ==
    {LET known == {r \in hs : IsRowOf(h, r)}
     IN  IF known = {} THEN toUpsertHoldParams(h, id)
         ELSE OnConflict(CHOOSE r \in known : TRUE, toUpsertHoldParams(h, id))
       : h \in inv.holds}

\* PRIMARY KEY (id), uq_slot and CHECK (slot_no >= 1)
holdChecks(hs) ==
    /\ \A g, h \in hs : g.id = h.id \/ g.slot_no = h.slot_no => g = h
    /\ \A h \in hs : h.slot_no >= 1

\* ListExpiredHoldInventoryIds for the worker's clock
Listed_Inclusive(at) ==
    \E r \in holdRows : /\ r.status = DBTemporaryHold
                        /\ r.expired_at # Null
                        /\ r.expired_at <= toTimestamptz(at)
Listed(at) ==
    \E r \in holdRows : /\ r.status = DBTemporaryHold
                        /\ r.expired_at # Null
                        /\ r.expired_at < toTimestamptz(at)

-----------------------------------------------------------------------------
(* The transactions *)

TypeOK ==
    /\ now \in Times
    /\ row \in RowType
    /\ holdRows \subseteq HoldRowType
    /\ asked \in [fee : Nat, quantity : Nat]

Init ==
    /\ now = 0
    /\ row = NoRow
    /\ holdRows = {}
    /\ asked = [fee |-> 0, quantity |-> 0]

ClockReadings == {t \in Times : t <= now}

\* Repository.Save
Save(inv, id) ==
    /\ row' = toUpsertInventoryParams(inv)
    /\ checks(row')
    /\ holdRows' = AfterUpsert(inv, AfterDelete(inv, holdRows), id)
    /\ holdChecks(holdRows')

\* Repository.Add
Register(quantity, fee, at) ==
    /\ ~row.exists
    /\ InventoryDate >= at
    /\ validFee(fee)
    /\ validQuantity(quantity)
    /\ row' = toUpsertInventoryParams(NewInventory(quantity, fee))
    /\ checks(row')
    /\ asked' = [fee |-> fee, quantity |-> quantity]
    /\ UNCHANGED <<now, holdRows>>

\* FindForUpdate, the aggregate's method, Save.  Only Hold draws an id that ends
\* in a row.
Mutate(inv) ==
    /\ row.exists
    /\ \E id \in HoldIds : Save(inv, id)
    /\ UNCHANGED now

Operate(inv) == Mutate(inv) /\ UNCHANGED asked

ChangeQuantity(n) ==
    /\ CanChangeQuantity(stored, n)
    /\ Mutate(AfterChangeQuantity(stored, n))
    /\ asked' = [asked EXCEPT !.quantity = n]

ChangeFee(amount) ==
    /\ validFee(amount)
    /\ Mutate(AfterChangeFee(stored, amount))
    /\ asked' = [asked EXCEPT !.fee = amount]

Close == CanClose(stored) /\ Operate(AfterClose(stored))

Reopen == CanReopen(stored) /\ Operate(AfterReopen(stored))

\* Book reads its clock once, for both times.
Hold(b, at) ==
    /\ CanHold(stored, b, at + TTL, at)
    /\ Operate(AfterHold(stored, b, at + TTL))

StartPayment(b) == CanStartPayment(stored, b) /\ Operate(AfterStartPayment(stored, b))

Confirm(b) == CanConfirm(stored, b) /\ Operate(AfterConfirm(stored, b))

Release(b) == CanRelease(stored, b) /\ Operate(AfterRelease(stored, b))

\* The clock of the pass that listed the inventory
CollectExpired(at) ==
    /\ ExpiredHolds(stored, at) # {}
    /\ Operate(AfterCollectExpired(stored, at))

Tick ==
    /\ now + 1 \in Times
    /\ now' = now + 1
    /\ UNCHANGED <<row, holdRows, asked>>

Next ==
    \/ \E quantity, fee \in Amounts, at \in ClockReadings : Register(quantity, fee, at)
    \/ \E n \in Amounts : ChangeQuantity(n)
    \/ \E amount \in Amounts : ChangeFee(amount)
    \/ Close
    \/ Reopen
    \/ \E b \in Bookings, at \in {t \in ClockReadings : t + TTL \in Times} : Hold(b, at)
    \/ \E b \in Bookings : StartPayment(b)
    \/ \E b \in Bookings : Confirm(b)
    \/ \E b \in Bookings : Release(b)
    \/ \E at \in ClockReadings : CollectExpired(at)
    \/ Tick

Spec == Init /\ [][Next]_vars

-----------------------------------------------------------------------------
(* Properties *)

\* What a transaction has stored can be loaded again: toInventory fails for a
\* negative fee, and a night that can not be loaded could neither be sold nor
\* repaired through the API.
StoredCanBeLoaded == validFee(row.fee) /\ validQuantity(row.quantity_available)

FullTurn(n) == n >= 2 * Half

\* An operator who was told that a fee or a quantity is set finds it set, although
\* int32 wraps without an error: the CHECKs refuse every amount that wraps, up to
\* 2^32, from where on a wrapped amount is positive again.
StoredAsAnswered ==
    row.exists => /\ row.fee = asked.fee \/ FullTurn(asked.fee)
                  /\ row.quantity_available = asked.quantity \/ FullTurn(asked.quantity)

\* The worker lists by SQL at the resolution of a microsecond and collects by the
\* aggregate at the clock's: an inventory it lists has something to collect, and
\* one it does not list has nothing that expired a microsecond ago.
ListingAgreesWithCollecting ==
    \A at \in Times : /\ Listed(at) => ExpiredHolds(stored, at) # {}
                      /\ ExpiredHolds(stored, at - Micro) # {} => Listed(at)

\* The inventory that the rows stand for
Promise == INSTANCE Inventory WITH
    Quantities <- Amounts, Fees <- Amounts,
    registered <- row.exists, inv <- stored

Wrapped == FullTurn(asked.fee) \/ FullTurn(asked.quantity)

\* Read back through the mapper, the rows do what the inventory service promises,
\* as long as nobody asks for 2^32 or more.
ImplementsInventory ==
    /\ Promise!Init
    /\ [][Wrapped' \/ Promise!Next]_<<now, row.exists, stored>>

=============================================================================
