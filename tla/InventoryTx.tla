----------------------------- MODULE InventoryTx -----------------------------
(***************************************************************************)
(* The transactions behind the inventory service: every operation is       *)
(* FindForUpdate, the aggregate's method, Save and COMMIT, run by requests *)
(* that interleave statement by statement on one PostgreSQL database at    *)
(* READ COMMITTED.  internal/inventory/app/service.go (mutate, Register,   *)
(* CollectExpired) over internal/inventory/infra/postgres/repository.go.   *)
(*                                                                         *)
(* One inventory row is enough: an inventory transaction locks one row and *)
(* reads and writes only that row and its holds.  Nothing uncommitted is   *)
(* visible to other requests, so a transaction's writes are kept in its    *)
(* own record until COMMIT makes them the stored aggregate.                *)
(***************************************************************************)
EXTENDS InventoryDomain

CONSTANTS Quantities, Fees, Times, InventoryDate,   \* as in Inventory
          Requests,      \* transactions that may be open at the same time
          NoRequest      \* nobody

ASSUME QuantitiesAssumption == Quantities \subseteq Int
ASSUME FeesAssumption == Fees \subseteq Int
ASSUME TimesAssumption == Times \subseteq Nat /\ 0 \in Times
ASSUME DateAssumption == InventoryDate \in Nat
ASSUME NoRequestAssumption == NoRequest \notin Requests

VARIABLES now, registered, inv,   \* the clock and the committed rows, as in Inventory
          lock,                   \* the request whose transaction holds the row's lock
          tx                      \* per request: where it is, what it read and will write

vars == <<now, registered, inv, lock, tx>>
committed == <<registered, inv>>

(***************************************************************************)
(* begun     BEGIN and SET LOCAL lock_timeout are done                     *)
(* locked    SELECT ... FOR UPDATE returned the row; the holds are not yet *)
(*           read                                                          *)
(* loaded    the aggregate is rebuilt from the row and its holds           *)
(* applied   the aggregate's method returned without error                 *)
(* saved     the writes of Save were accepted                              *)
(* inserted  the row of a new inventory was accepted                       *)
(* rejected  uq_slot refused a write                                       *)
(***************************************************************************)
InTransaction == {"begun", "locked", "loaded", "applied", "saved", "inserted", "rejected"}
HoldingLock == InTransaction \ {"begun"}

TxType == [pc : InTransaction \cup {"idle"}, read : InventoryType, write : InventoryType]

TypeOK ==
    /\ now \in Times
    /\ registered \in BOOLEAN
    /\ inv \in InventoryType
    /\ lock \in Requests \cup {NoRequest}
    /\ tx \in [Requests -> TxType]

Blank == NewInventory(0, 0)
Idle == [pc |-> "idle", read |-> Blank, write |-> Blank]

Init ==
    /\ now = 0
    /\ registered = FALSE
    /\ inv = Blank
    /\ lock = NoRequest
    /\ tx = [r \in Requests |-> Idle]

ClockReadings == {t \in Times : t <= now}

-----------------------------------------------------------------------------
(* What the aggregate's methods may leave of v *)

HoldOutcomes(v) ==
    UNION {{AfterHold(v, b, e) :
              e \in {e \in Times : \E at \in ClockReadings : CanHold(v, b, e, at)}} :
           b \in Bookings}

BookingOutcomes(v) ==
    {AfterStartPayment(v, b) : b \in {b \in Bookings : CanStartPayment(v, b)}} \cup
    {AfterConfirm(v, b) : b \in {b \in Bookings : CanConfirm(v, b)}} \cup
    {AfterRelease(v, b) : b \in {b \in Bookings : CanRelease(v, b)}}

OperatorOutcomes(v) ==
    {AfterChangeQuantity(v, n) : n \in {n \in Quantities : CanChangeQuantity(v, n)}} \cup
    {AfterChangeFee(v, f) : f \in {f \in Fees : validFee(f)}} \cup
    {w \in {AfterClose(v)} : CanClose(v)} \cup
    {w \in {AfterReopen(v)} : CanReopen(v)}

CollectOutcomes(v) ==
    {AfterCollectExpired(v, at) : at \in {t \in ClockReadings : ExpiredHolds(v, t) # {}}}

Outcomes(v) ==
    HoldOutcomes(v) \cup BookingOutcomes(v) \cup OperatorOutcomes(v) \cup CollectOutcomes(v)

-----------------------------------------------------------------------------
(* Statements *)

Goto(r, pc) == tx' = [tx EXCEPT ![r].pc = pc]

\* The end of a transaction, whichever way: its record and its lock go.
LockAfter_Leaked(r) == lock
LockAfter(r) == IF lock = r THEN NoRequest ELSE lock
End(r) ==
    /\ tx' = [tx EXCEPT ![r] = Idle]
    /\ lock' = LockAfter(r)

Begin(r) ==
    /\ tx[r].pc = "idle"
    /\ Goto(r, "begun")
    /\ UNCHANGED <<now, committed, lock>>

RowIsFree_Unlocked == lock \in Requests \cup {NoRequest}
RowIsFree == lock = NoRequest

FindForUpdate_Autocommit(r) ==
    /\ tx[r].pc = "begun"
    /\ registered
    /\ RowIsFree
    /\ tx' = [tx EXCEPT ![r].pc = "locked", ![r].read = [inv EXCEPT !.holds = {}]]
    /\ UNCHANGED <<now, committed, lock>>

\* SELECT ... FOR UPDATE returns the committed row once nobody else locks it.
FindForUpdate(r) ==
    /\ tx[r].pc = "begun"
    /\ registered
    /\ RowIsFree
    /\ lock' = r
    /\ tx' = [tx EXCEPT ![r].pc = "locked", ![r].read = [inv EXCEPT !.holds = {}]]
    /\ UNCHANGED <<now, committed>>

\* No row: ErrInventoryNotFound, and the transaction rolls back.
NotFound(r) ==
    /\ tx[r].pc = "begun"
    /\ ~registered
    /\ End(r)
    /\ UNCHANGED <<now, committed>>

\* lock_timeout ran out while another transaction held the row: ErrBusy.
LockTimeout(r) ==
    /\ tx[r].pc = "begun"
    /\ ~RowIsFree
    /\ End(r)
    /\ UNCHANGED <<now, committed>>

\* load: the holds come from a statement of their own, after the lock.
LoadHolds(r) ==
    /\ tx[r].pc = "locked"
    /\ tx' = [tx EXCEPT ![r].pc = "loaded", ![r].read.holds = inv.holds]
    /\ UNCHANGED <<now, committed, lock>>

\* The method the request asked for.  Nothing before this point depends on
\* which one it is, so it is chosen here.
Apply(r) ==
    /\ tx[r].pc = "loaded"
    /\ \E w \in Outcomes(tx[r].read) :
          tx' = [tx EXCEPT ![r].pc = "applied", ![r].write = w]
    /\ UNCHANGED <<now, committed, lock>>

\* The method or Save returned an error and the transaction rolls back, or there
\* was nothing to collect and it commits no write.
Refuse(r) ==
    /\ tx[r].pc \in {"loaded", "rejected"}
    /\ End(r)
    /\ UNCHANGED <<now, committed>>

(***************************************************************************)
(* Save upserts the row, deletes the stored holds that are not kept and    *)
(* upserts the rest one by one.  ON CONFLICT (id) leaves a stored slot     *)
(* alone, so uq_slot can only refuse a hold that is inserted, for a slot   *)
(* of a row that was kept or inserted before.  A transaction applies one   *)
(* method, so a booking stands for the id of its hold.                     *)
(***************************************************************************)
KeptRows(stored, holds) == {h \in stored : \E g \in holds : g.bookingId = h.bookingId}
InsertedRows(stored, holds) ==
    {g \in holds : \A h \in stored : h.bookingId # g.bookingId}

ViolatesUqSlot(stored, holds) ==
    \E g \in InsertedRows(stored, holds),
       h \in KeptRows(stored, holds) \cup InsertedRows(stored, holds) :
        g # h /\ g.slotNo = h.slotNo

Save(r) ==
    /\ tx[r].pc = "applied"
    /\ Goto(r, IF ViolatesUqSlot(inv.holds, tx[r].write.holds) THEN "rejected" ELSE "saved")
    /\ UNCHANGED <<now, committed, lock>>

Commit(r) ==
    /\ tx[r].pc = "saved"
    /\ inv' = tx[r].write
    /\ End(r)
    /\ UNCHANGED <<now, registered>>

\* Add: an INSERT waits for another one of the same key to end, and fails with
\* ErrAlreadyRegistered if that one committed.
Insert(r, quantity, fee, at) ==
    /\ tx[r].pc = "begun"
    /\ ~registered
    /\ RowIsFree
    /\ InventoryDate >= at
    /\ validFee(fee)
    /\ validQuantity(quantity)
    /\ lock' = r
    /\ tx' = [tx EXCEPT ![r].pc = "inserted", ![r].write = NewInventory(quantity, fee)]
    /\ UNCHANGED <<now, committed>>

AlreadyRegistered(r) ==
    /\ tx[r].pc = "begun"
    /\ registered
    /\ End(r)
    /\ UNCHANGED <<now, committed>>

CommitInsert(r) ==
    /\ tx[r].pc = "inserted"
    /\ registered' = TRUE
    /\ inv' = tx[r].write
    /\ End(r)
    /\ UNCHANGED now

\* The process dies, its connection drops or its context expires before COMMIT:
\* PostgreSQL discards the transaction.
Abort(r) ==
    /\ tx[r].pc \in InTransaction
    /\ End(r)
    /\ UNCHANGED <<now, committed>>

Tick ==
    /\ now + 1 \in Times
    /\ now' = now + 1
    /\ UNCHANGED <<committed, lock, tx>>

\* What a request does by itself once its transaction is open.
Statement(r) ==
    \/ FindForUpdate(r)
    \/ NotFound(r)
    \/ LockTimeout(r)
    \/ LoadHolds(r)
    \/ Apply(r)
    \/ Refuse(r)
    \/ Save(r)
    \/ Commit(r)
    \/ \E quantity \in Quantities, fee \in Fees, at \in ClockReadings :
          Insert(r, quantity, fee, at)
    \/ AlreadyRegistered(r)
    \/ CommitInsert(r)

Next ==
    \/ \E r \in Requests : Begin(r) \/ Statement(r) \/ Abort(r)
    \/ Tick

Spec == Init /\ [][Next]_vars

\* A request's goroutine runs on, and neither lock_timeout nor the request's
\* deadline lets a statement wait for ever.  Nothing makes a request begin.
FairSpec == Spec /\ \A r \in Requests : WF_vars(Statement(r))

-----------------------------------------------------------------------------
(* Properties *)

\* Between loading the aggregate and committing it, nobody else's commit can
\* have changed what was read: no update is lost to Save's blind write.
ReadIsCurrent ==
    \A r \in Requests :
        tx[r].pc \in {"loaded", "applied", "saved"} => tx[r].read = inv

\* uq_slot is the last line of defence and never has to act: no hold that Save
\* inserts meets a row on its slot, whatever was stored since the aggregate was read.
ConstraintNeverFires == \A r \in Requests : tx[r].pc # "rejected"

\* However their statements interleave, abort and time out, the transactions
\* on an inventory do what its operations would do one at a time.
Atomic == INSTANCE Inventory
ImplementsInventory == Atomic!Spec

\* The row never stays locked: whoever waits for it is served or told so, and
\* the next request finds it free again.
RowIsFreedAgain == []<>(lock = NoRequest)

=============================================================================
