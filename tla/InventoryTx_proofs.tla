------------------------- MODULE InventoryTx_proofs -------------------------
(***************************************************************************)
(* The transactions of InventoryTx implement the operations of Inventory,  *)
(* for any number of concurrent requests.                                  *)
(*                                                                         *)
(* The argument is the lock's: from FindForUpdate to COMMIT a transaction  *)
(* is the only one past its lock (LockDiscipline), so what it read is      *)
(* still what is stored (ReadIsCurrent) and what it will write is what an  *)
(* operation leaves of the stored aggregate (WriteIsOutcome).  COMMIT is   *)
(* then that operation, and every other statement changes nothing stored.  *)
(***************************************************************************)
EXTENDS InventoryTx, InventoryDomain_proofs

LockDiscipline == \A r \in Requests : tx[r].pc \in HoldingLock => lock = r

RowExists ==
    \A r \in Requests : tx[r].pc \in HoldingLock => (registered <=> tx[r].pc # "inserted")

RowIsCurrent ==
    \A r \in Requests : tx[r].pc = "locked" => tx[r].read = [inv EXCEPT !.holds = {}]

WriteIsOutcome ==
    \A r \in Requests : tx[r].pc \in {"applied", "saved"} => tx[r].write \in Outcomes(inv)

InsertIsRegistration ==
    \A r \in Requests : tx[r].pc = "inserted" =>
        \E quantity \in Quantities, fee \in Fees, at \in ClockReadings :
            /\ InventoryDate >= at
            /\ validFee(fee)
            /\ validQuantity(quantity)
            /\ tx[r].write = NewInventory(quantity, fee)

IInv ==
    /\ TypeOK
    /\ WellFormed(inv)
    /\ LockDiscipline
    /\ RowExists
    /\ RowIsCurrent
    /\ ReadIsCurrent
    /\ WriteIsOutcome
    /\ InsertIsRegistration

\* A new inventory is well-formed.
LEMMA NewIsWellFormed ==
    ASSUME NEW quantity \in Nat, NEW fee \in Nat
    PROVE  WellFormed(NewInventory(quantity, fee))
<1> DEFINE w == NewInventory(quantity, fee)
<1>1. w \in InventoryType /\ w.holds = {} /\ UsedSlots(w) = {}
    BY DEF NewInventory, InventoryType, UsedSlots
<1> QED
    BY <1>1 DEF WellFormed, SlotsInRange, Distinct, OnePerBooking, ExpiryMatches

\* Whatever method a request applied to a well-formed aggregate, it left a
\* well-formed one.
LEMMA OutcomesWellFormed ==
    ASSUME NEW v, WellFormed(v), NEW w \in Outcomes(v)
    PROVE  WellFormed(w)
<1>1. CASE w \in HoldOutcomes(v)
    <2>1. PICK b \in Bookings, e \in Times, at \in ClockReadings :
             CanHold(v, b, e, at) /\ w = AfterHold(v, b, e)
        BY <1>1 DEF HoldOutcomes
    <2>2. e \in Nat /\ at \in Nat
        BY TimesAssumption DEF ClockReadings
    <2> QED
        BY <2>1, <2>2, HoldKeepsWellFormed
<1>2. CASE w \in BookingOutcomes(v)
    <2>1. PICK b \in Bookings :
             \/ CanStartPayment(v, b) /\ w = AfterStartPayment(v, b)
             \/ CanConfirm(v, b) /\ w = AfterConfirm(v, b)
             \/ CanRelease(v, b) /\ w = AfterRelease(v, b)
        BY <1>2 DEF BookingOutcomes
    <2>2. holdOf(v, b) \in v.holds
        BY <2>1, HoldOfIsHeld DEF CanStartPayment, CanConfirm, CanRelease
    <2>3. /\ WellFormed(WithStatus(v, holdOf(v, b), ProcessingPayment))
          /\ WellFormed(WithStatus(v, holdOf(v, b), HoldConfirmed))
        BY <2>2, WithStatusKeepsWellFormed
    <2>4. WellFormed([v EXCEPT !.holds = @ \ {holdOf(v, b)}])
        BY FewerHoldsKeepsWellFormed
    <2> QED
        BY <2>1, <2>3, <2>4 DEF AfterStartPayment, AfterConfirm, AfterRelease
<1>3. CASE w \in OperatorOutcomes(v)
    <2>1. ASSUME NEW n \in Quantities, CanChangeQuantity(v, n), w = AfterChangeQuantity(v, n)
          PROVE  WellFormed(w)
        BY <2>1, ChangeQuantityKeepsWellFormed, QuantitiesAssumption
    <2>2. ASSUME NEW f \in Fees, validFee(f), w = AfterChangeFee(v, f)
          PROVE  WellFormed(w)
        <3>1. f \in Nat
            BY <2>2, FeesAssumption DEF validFee
        <3> QED
            BY <2>2, <3>1 DEF AfterChangeFee, WellFormed, InventoryType, SlotsInRange,
                              UsedSlots, Distinct, OnePerBooking, ExpiryMatches
    <2>3. ASSUME NEW closed \in BOOLEAN, w = [v EXCEPT !.isClosed = closed]
          PROVE  WellFormed(w)
        BY <2>3 DEF WellFormed, InventoryType, SlotsInRange,
                    UsedSlots, Distinct, OnePerBooking, ExpiryMatches
    <2> QED
        BY <1>3, <2>1, <2>2, <2>3 DEF OperatorOutcomes, AfterClose, AfterReopen
<1>4. CASE w \in CollectOutcomes(v)
    <2>1. PICK at \in ClockReadings : w = [v EXCEPT !.holds = @ \ ExpiredHolds(v, at)]
        BY <1>4 DEF CollectOutcomes, AfterCollectExpired
    <2> QED
        BY <2>1, FewerHoldsKeepsWellFormed
<1> QED
    BY <1>1, <1>2, <1>3, <1>4 DEF Outcomes

\* A booking that was held before and after a method has the same slot, so the
\* row that Save keeps and the hold it was loaded into agree.
LEMMA OutcomesKeepSlots ==
    ASSUME NEW v, WellFormed(v), NEW w \in Outcomes(v),
           NEW h \in v.holds, NEW g \in w.holds, g.bookingId = h.bookingId
    PROVE  g.slotNo = h.slotNo
<1>0. v \in InventoryType /\ \A x, y \in v.holds : x.bookingId = y.bookingId => x = y
    BY DEF WellFormed, OnePerBooking
<1>1. ASSUME g \in v.holds
      PROVE  g.slotNo = h.slotNo
    BY <1>0, <1>1
<1>2. CASE w \in HoldOutcomes(v)
    <2>1. PICK b \in Bookings, e \in Times, at \in ClockReadings :
             CanHold(v, b, e, at) /\ w = AfterHold(v, b, e)
        BY <1>2 DEF HoldOutcomes
    <2>2. w.holds = v.holds \cup
             {[bookingId |-> b, slotNo |-> vacantSlotNo(v),
               status |-> TemporaryHold, expiredAt |-> e]}
        BY <1>0, <2>1 DEF AfterHold, InventoryType
    <2>3. h.bookingId # b
        BY <2>1 DEF CanHold, HasHold, HoldsOf
    <2>4. g \in v.holds
        BY <2>2, <2>3
    <2> QED
        BY <1>1, <2>4
<1>3. CASE w \in BookingOutcomes(v)
    <2>1. PICK b \in Bookings :
             \/ CanStartPayment(v, b) /\ w = AfterStartPayment(v, b)
             \/ CanConfirm(v, b) /\ w = AfterConfirm(v, b)
             \/ CanRelease(v, b) /\ w = AfterRelease(v, b)
        BY <1>3 DEF BookingOutcomes
    <2>2. holdOf(v, b) \in v.holds
        BY <2>1, HoldOfIsHeld DEF CanStartPayment, CanConfirm, CanRelease
    <2>3. ASSUME NEW status, w = WithStatus(v, holdOf(v, b), status)
          PROVE  g.slotNo = h.slotNo
        <3> DEFINE old == holdOf(v, b)
                   new == [old EXCEPT !.status = status, !.expiredAt = NoExpiry]
        <3>1. w.holds = (v.holds \ {old}) \cup {new}
            BY <1>0, <2>3 DEF WithStatus, InventoryType
        <3>2. old \in HoldType
            BY <1>0, <2>2 DEF InventoryType
        <3>3. new.bookingId = old.bookingId /\ new.slotNo = old.slotNo
            BY <3>2 DEF HoldType
        <3> HIDE DEF old, new
        <3>4. CASE g = new
            <4>1. h = old
                BY <1>0, <2>2, <3>3, <3>4 DEF old
            <4> QED
                BY <3>3, <3>4, <4>1
        <3>5. CASE g # new
            BY <1>1, <3>1, <3>5
        <3> QED
            BY <3>4, <3>5
    <2>4. CASE w = AfterRelease(v, b)
        <3>1. g \in v.holds
            BY <1>0, <2>4 DEF AfterRelease, InventoryType
        <3> QED
            BY <1>1, <3>1
    <2> QED
        BY <2>1, <2>3, <2>4 DEF AfterStartPayment, AfterConfirm
<1>4. CASE w \in OperatorOutcomes(v)
    <2>1. w.holds = v.holds
        BY <1>0, <1>4 DEF OperatorOutcomes, InventoryType, AfterChangeQuantity,
                          AfterChangeFee, AfterClose, AfterReopen
    <2> QED
        BY <1>1, <2>1
<1>5. CASE w \in CollectOutcomes(v)
    <2>1. PICK at \in ClockReadings : w = [v EXCEPT !.holds = @ \ ExpiredHolds(v, at)]
        BY <1>5 DEF CollectOutcomes, AfterCollectExpired
    <2>2. g \in v.holds
        BY <1>0, <2>1 DEF InventoryType
    <2> QED
        BY <1>1, <2>2
<1> QED
    BY <1>2, <1>3, <1>4, <1>5 DEF Outcomes

-----------------------------------------------------------------------------
\* With no row, no lock and no open transaction there is nothing to break.
LEMMA InitIInv == Init => IInv
<1> SUFFICES ASSUME Init
             PROVE  IInv
    OBVIOUS
<1>1. WellFormed(Blank)
    BY NewIsWellFormed DEF Blank
<1>2. Blank \in InventoryType
    BY <1>1 DEF WellFormed
<1>3. \A r \in Requests : tx[r].pc = "idle" /\ tx[r] \in TxType
    BY <1>2 DEF Init, Idle, TxType
<1>4. TypeOK
    BY <1>2, TimesAssumption DEF Init, TypeOK, Idle, TxType
<1> QED
    BY <1>1, <1>3, <1>4
       DEF Init, IInv, LockDiscipline, RowExists, RowIsCurrent, ReadIsCurrent,
           WriteIsOutcome, InsertIsRegistration, HoldingLock, InTransaction

\* The clock's readings, and so a method's outcomes, only grow with the clock.
LEMMA OutcomesGrow ==
    ASSUME now \in Times, now' \in Times, now' >= now, inv' = inv
    PROVE  ClockReadings \subseteq ClockReadings' /\ Outcomes(inv) \subseteq Outcomes(inv)'
<1>1. ClockReadings \subseteq ClockReadings'
    <2> SUFFICES ASSUME NEW t \in Times, t <= now
                 PROVE  t <= now'
        BY DEF ClockReadings
    <2>1. t \in Nat /\ now \in Nat /\ now' \in Nat
        BY TimesAssumption
    <2> QED
        BY <2>1
<1>2. HoldOutcomes(inv) \subseteq HoldOutcomes(inv)'
    BY <1>1 DEF HoldOutcomes
<1>3. CollectOutcomes(inv) \subseteq CollectOutcomes(inv)'
    BY <1>1 DEF CollectOutcomes
<1>4. /\ BookingOutcomes(inv) = BookingOutcomes(inv)'
      /\ OperatorOutcomes(inv) = OperatorOutcomes(inv)'
    BY DEF BookingOutcomes, OperatorOutcomes
<1> QED
    BY <1>1, <1>2, <1>3, <1>4 DEF Outcomes

\* A transaction that ends without a write disturbs no other.
LEMMA EndKeepsIInv ==
    ASSUME IInv, NEW r \in Requests, End(r), UNCHANGED <<now, committed>>
    PROVE  IInv'
<1> USE DEF committed
<1>1. /\ tx' \in [Requests -> TxType]
      /\ tx'[r] = Idle
      /\ \A q \in Requests \ {r} : tx'[q] = tx[q]
    <2>1. Idle \in TxType
        BY NewIsWellFormed DEF Idle, TxType, Blank, WellFormed
    <2> QED
        BY <2>1 DEF IInv, TypeOK, End
<1>2. tx'[r].pc = "idle"
    BY <1>1 DEF Idle
<1>3. lock' \in Requests \cup {NoRequest}
    BY DEF IInv, TypeOK, End, LockAfter
<1>4. \A q \in Requests \ {r} : lock = q => lock' = q
    BY DEF End, LockAfter
<1>5. TypeOK' /\ WellFormed(inv)'
    BY <1>1, <1>3 DEF IInv, TypeOK
<1>6. LockDiscipline'
    BY <1>1, <1>2, <1>4 DEF IInv, LockDiscipline, HoldingLock, InTransaction
<1>7. RowExists' /\ RowIsCurrent' /\ ReadIsCurrent'
    BY <1>1, <1>2 DEF IInv, RowExists, RowIsCurrent, ReadIsCurrent, HoldingLock, InTransaction
<1>8. ClockReadings' = ClockReadings /\ Outcomes(inv)' = Outcomes(inv)
    BY DEF ClockReadings, Outcomes, HoldOutcomes, BookingOutcomes, OperatorOutcomes, CollectOutcomes
<1>9. WriteIsOutcome'
    BY <1>1, <1>2, <1>8 DEF IInv, WriteIsOutcome
<1>10. InsertIsRegistration'
    BY <1>1, <1>2, <1>8 DEF IInv, InsertIsRegistration
<1> QED
    BY <1>5, <1>6, <1>7, <1>9, <1>10 DEF IInv

\* A statement of the lock's holder, or the one that takes the lock, disturbs no
\* other transaction: nobody else is past its lock.
LEMMA StatementKeepsIInv ==
    ASSUME IInv, NEW r \in Requests, NEW rec \in TxType,
           tx' = [tx EXCEPT ![r] = rec],
           UNCHANGED <<now, committed>>,
           rec.pc \in HoldingLock => lock' = r,
           lock' # lock => lock = NoRequest /\ lock' = r,
           rec.pc \in HoldingLock => (registered <=> rec.pc # "inserted"),
           rec.pc = "locked" => rec.read = [inv EXCEPT !.holds = {}],
           rec.pc \in {"loaded", "applied", "saved"} => rec.read = inv,
           rec.pc \in {"applied", "saved"} => rec.write \in Outcomes(inv),
           rec.pc = "inserted" =>
             \E quantity \in Quantities, fee \in Fees, at \in ClockReadings :
                /\ InventoryDate >= at
                /\ validFee(fee)
                /\ validQuantity(quantity)
                /\ rec.write = NewInventory(quantity, fee)
    PROVE  IInv'
<1> USE DEF committed
<1>1. /\ tx' \in [Requests -> TxType]
      /\ tx'[r] = rec
      /\ \A q \in Requests \ {r} : tx'[q] = tx[q]
    BY DEF IInv, TypeOK
<1>2. TypeOK' /\ WellFormed(inv)'
    BY <1>1 DEF IInv, TypeOK
<1>3. LockDiscipline'
    BY <1>1, NoRequestAssumption DEF IInv, LockDiscipline
<1>4. RowExists' /\ RowIsCurrent' /\ ReadIsCurrent'
    BY <1>1 DEF IInv, RowExists, RowIsCurrent, ReadIsCurrent
<1>5. ClockReadings' = ClockReadings /\ Outcomes(inv)' = Outcomes(inv)
    BY DEF ClockReadings, Outcomes, HoldOutcomes, BookingOutcomes, OperatorOutcomes, CollectOutcomes
<1>6. WriteIsOutcome'
    BY <1>1, <1>5 DEF IInv, WriteIsOutcome
<1>7. InsertIsRegistration'
    BY <1>1, <1>5 DEF IInv, InsertIsRegistration
<1> QED
    BY <1>2, <1>3, <1>4, <1>6, <1>7 DEF IInv

\* When the lock's holder commits, nobody else is past its lock, so nobody else
\* has read anything that the commit replaces.
LEMMA CommitKeepsIInv ==
    ASSUME IInv, NEW r \in Requests, tx[r].pc \in HoldingLock, End(r),
           registered', inv' = tx[r].write, WellFormed(tx[r].write), UNCHANGED now
    PROVE  IInv'
<1>1. lock = r /\ r # NoRequest
    BY NoRequestAssumption DEF IInv, LockDiscipline
<1>2. \A q \in Requests \ {r} : tx[q].pc \notin HoldingLock
    BY <1>1 DEF IInv, LockDiscipline
<1>3. /\ tx' \in [Requests -> TxType]
      /\ tx'[r] = Idle
      /\ \A q \in Requests \ {r} : tx'[q] = tx[q]
    <2>1. Idle \in TxType
        BY NewIsWellFormed DEF Idle, TxType, Blank, WellFormed
    <2> QED
        BY <2>1 DEF IInv, TypeOK, End
<1>4. \A q \in Requests : tx'[q].pc \notin HoldingLock
    BY <1>2, <1>3 DEF Idle, HoldingLock, InTransaction
<1>5. lock' = NoRequest
    BY <1>1 DEF End, LockAfter
<1>6. TypeOK' /\ WellFormed(inv)'
    BY <1>3, <1>5 DEF IInv, TypeOK, WellFormed
<1>7. /\ LockDiscipline' /\ RowExists' /\ RowIsCurrent' /\ ReadIsCurrent'
      /\ WriteIsOutcome' /\ InsertIsRegistration'
    BY <1>4 DEF LockDiscipline, RowExists, RowIsCurrent, ReadIsCurrent, WriteIsOutcome,
                InsertIsRegistration, HoldingLock, InTransaction
<1> QED
    BY <1>6, <1>7 DEF IInv

\* Every statement of every request keeps the lock's promise.
LEMMA NextIInv == IInv /\ [Next]_vars => IInv'
<1> SUFFICES ASSUME IInv, [Next]_vars
             PROVE  IInv'
    OBVIOUS
<1> USE DEF committed
<1>0. TypeOK /\ WellFormed(inv)
    BY DEF IInv
<1>1. ASSUME NEW r \in Requests, Begin(r)
      PROVE  IInv'
    <2> DEFINE rec == [tx[r] EXCEPT !.pc = "begun"]
    <2>1. tx[r] \in TxType
        BY <1>0 DEF TypeOK
    <2>2. rec \in TxType /\ rec.pc = "begun"
        BY <2>1 DEF TxType, InTransaction
    <2>3. tx' = [tx EXCEPT ![r] = rec]
        BY <1>1, <1>0 DEF Begin, Goto, TypeOK
    <2> QED
        BY <1>1, <2>2, <2>3, StatementKeepsIInv DEF Begin, HoldingLock
<1>2. ASSUME NEW r \in Requests, FindForUpdate(r)
      PROVE  IInv'
    <2> DEFINE rec == [tx[r] EXCEPT !.pc = "locked", !.read = [inv EXCEPT !.holds = {}]]
    <2>1. tx[r] \in TxType
        BY <1>0 DEF TypeOK
    <2>2. [inv EXCEPT !.holds = {}] \in InventoryType
        BY <1>0 DEF TypeOK, InventoryType
    <2>3. rec \in TxType /\ rec.pc = "locked" /\ rec.read = [inv EXCEPT !.holds = {}]
        BY <2>1, <2>2 DEF TxType, InTransaction
    <2>4. tx' = [tx EXCEPT ![r] = rec]
        BY <1>2, <1>0 DEF FindForUpdate, TypeOK
    <2> QED
        BY <1>2, <2>3, <2>4, StatementKeepsIInv DEF FindForUpdate, RowIsFree
<1>3. ASSUME NEW r \in Requests,
             NotFound(r) \/ LockTimeout(r) \/ Refuse(r) \/ AlreadyRegistered(r) \/ Abort(r)
      PROVE  IInv'
    BY <1>3, EndKeepsIInv DEF NotFound, LockTimeout, Refuse, AlreadyRegistered, Abort
<1>4. ASSUME NEW r \in Requests, LoadHolds(r)
      PROVE  IInv'
    <2> DEFINE rec == [tx[r] EXCEPT !.pc = "loaded", !.read.holds = inv.holds]
    <2>1. tx[r] \in TxType
        BY <1>0 DEF TypeOK
    <2>2. tx[r].read = [inv EXCEPT !.holds = {}]
        BY <1>4 DEF LoadHolds, IInv, RowIsCurrent
    <2>3. [[inv EXCEPT !.holds = {}] EXCEPT !.holds = inv.holds] = inv
        BY <1>0 DEF TypeOK, InventoryType
    <2>4. rec \in TxType /\ rec.pc = "loaded" /\ rec.read = inv
        BY <1>0, <2>1, <2>2, <2>3 DEF TxType, InTransaction, TypeOK
    <2>5. tx' = [tx EXCEPT ![r] = rec]
        BY <1>4, <1>0 DEF LoadHolds, TypeOK
    <2>6. lock = r /\ registered
        BY <1>4 DEF LoadHolds, IInv, LockDiscipline, RowExists, HoldingLock, InTransaction
    <2> QED
        BY <1>4, <2>4, <2>5, <2>6, StatementKeepsIInv DEF LoadHolds
<1>5. ASSUME NEW r \in Requests, Apply(r)
      PROVE  IInv'
    <2>1. PICK w \in Outcomes(tx[r].read) :
             tx' = [tx EXCEPT ![r].pc = "applied", ![r].write = w]
        BY <1>5 DEF Apply
    <2> DEFINE rec == [tx[r] EXCEPT !.pc = "applied", !.write = w]
    <2>2. tx[r] \in TxType
        BY <1>0 DEF TypeOK
    <2>3. tx[r].read = inv
        BY <1>5 DEF Apply, IInv, ReadIsCurrent
    <2>4. w \in Outcomes(inv)
        BY <2>3
    <2>5. w \in InventoryType
        BY <1>0, <2>4, OutcomesWellFormed DEF WellFormed
    <2>6. rec \in TxType /\ rec.pc = "applied" /\ rec.read = inv /\ rec.write = w
        BY <2>2, <2>3, <2>5 DEF TxType, InTransaction
    <2>7. tx' = [tx EXCEPT ![r] = rec]
        BY <2>1, <1>0 DEF TypeOK
    <2>8. lock = r /\ registered
        BY <1>5 DEF Apply, IInv, LockDiscipline, RowExists, HoldingLock, InTransaction
    <2> QED
        BY <1>5, <2>4, <2>6, <2>7, <2>8, StatementKeepsIInv DEF Apply
<1>6. ASSUME NEW r \in Requests, Save(r)
      PROVE  IInv'
    <2>1. PICK pc \in {"saved", "rejected"} : tx' = [tx EXCEPT ![r].pc = pc]
        BY <1>6 DEF Save, Goto
    <2> DEFINE rec == [tx[r] EXCEPT !.pc = pc]
    <2>2. tx[r] \in TxType /\ tx[r].pc = "applied"
        BY <1>0, <1>6 DEF TypeOK, Save
    <2>3. /\ rec \in TxType /\ rec.pc = pc
          /\ rec.read = tx[r].read /\ rec.write = tx[r].write
        BY <2>2 DEF TxType, InTransaction
    <2>4. tx' = [tx EXCEPT ![r] = rec]
        BY <2>1, <1>0 DEF TypeOK
    <2>5. tx[r].read = inv /\ tx[r].write \in Outcomes(inv)
        BY <2>2 DEF IInv, ReadIsCurrent, WriteIsOutcome
    <2>6. lock = r /\ registered
        BY <2>2 DEF IInv, LockDiscipline, RowExists, HoldingLock, InTransaction
    <2> QED
        BY <1>6, <2>3, <2>4, <2>5, <2>6, StatementKeepsIInv DEF Save
<1>7. ASSUME NEW r \in Requests, Commit(r)
      PROVE  IInv'
    <2>1. WellFormed(tx[r].write)
        BY <1>0, <1>7, OutcomesWellFormed DEF Commit, IInv, WriteIsOutcome
    <2>2. tx[r].pc \in HoldingLock /\ registered'
        BY <1>7 DEF Commit, IInv, RowExists, HoldingLock, InTransaction
    <2> QED
        BY <1>7, <2>1, <2>2, CommitKeepsIInv DEF Commit
<1>8. ASSUME NEW quantity \in Quantities, NEW fee \in Fees, NEW at \in ClockReadings,
             NEW r \in Requests, Insert(r, quantity, fee, at)
      PROVE  IInv'
    <2> DEFINE rec == [tx[r] EXCEPT !.pc = "inserted", !.write = NewInventory(quantity, fee)]
    <2>1. quantity \in Nat /\ fee \in Nat
        BY <1>8, QuantitiesAssumption, FeesAssumption DEF Insert, validQuantity, validFee
    <2>2. NewInventory(quantity, fee) \in InventoryType /\ tx[r] \in TxType
        BY <1>0, <2>1, NewIsWellFormed DEF WellFormed, TypeOK
    <2>3. /\ rec \in TxType /\ rec.pc = "inserted"
          /\ rec.write = NewInventory(quantity, fee)
        BY <2>2 DEF TxType, InTransaction
    <2>4. tx' = [tx EXCEPT ![r] = rec]
        BY <1>8, <1>0 DEF Insert, TypeOK
    <2>5. \E q \in Quantities, f \in Fees, t \in ClockReadings :
             /\ InventoryDate >= t
             /\ validFee(f)
             /\ validQuantity(q)
             /\ rec.write = NewInventory(q, f)
        BY <1>8, <2>3 DEF Insert
    <2>6. lock = NoRequest /\ lock' = r /\ ~registered /\ UNCHANGED <<now, committed>>
        BY <1>8 DEF Insert, RowIsFree
    <2> HIDE DEF rec
    <2> QED
        BY <2>3, <2>4, <2>5, <2>6, StatementKeepsIInv
<1>9. ASSUME NEW r \in Requests, CommitInsert(r)
      PROVE  IInv'
    <2>1. PICK quantity \in Quantities, fee \in Fees :
             /\ validFee(fee) /\ validQuantity(quantity)
             /\ tx[r].write = NewInventory(quantity, fee)
        BY <1>9 DEF CommitInsert, IInv, InsertIsRegistration
    <2>2. quantity \in Nat /\ fee \in Nat
        BY <2>1, QuantitiesAssumption, FeesAssumption DEF validQuantity, validFee
    <2>3. WellFormed(tx[r].write)
        BY <2>1, <2>2, NewIsWellFormed
    <2>4. tx[r].pc \in HoldingLock
        BY <1>9 DEF CommitInsert, HoldingLock, InTransaction
    <2> QED
        BY <1>9, <2>3, <2>4, CommitKeepsIInv DEF CommitInsert
<1>10. CASE Tick
    <2>1. now' \in Times /\ now' >= now /\ UNCHANGED <<registered, inv, lock, tx>>
        BY <1>0, <1>10, TimesAssumption DEF Tick, TypeOK
    <2>2. ClockReadings \subseteq ClockReadings' /\ Outcomes(inv) \subseteq Outcomes(inv)'
        BY <1>0, <2>1, OutcomesGrow DEF TypeOK
    <2>3. TypeOK' /\ WellFormed(inv)'
        BY <1>0, <2>1 DEF TypeOK
    <2>4. LockDiscipline' /\ RowExists' /\ RowIsCurrent' /\ ReadIsCurrent'
        BY <2>1 DEF IInv, LockDiscipline, RowExists, RowIsCurrent, ReadIsCurrent
    <2>5. WriteIsOutcome'
        BY <2>1, <2>2 DEF IInv, WriteIsOutcome
    <2>6. InsertIsRegistration'
        BY <2>1, <2>2 DEF IInv, InsertIsRegistration
    <2> QED
        BY <2>3, <2>4, <2>5, <2>6 DEF IInv
<1>11. CASE UNCHANGED vars
    <2>1. Outcomes(inv)' = Outcomes(inv) /\ ClockReadings' = ClockReadings
        BY <1>11 DEF vars, ClockReadings, Outcomes, HoldOutcomes, BookingOutcomes,
                     OperatorOutcomes, CollectOutcomes
    <2> QED
        BY <1>11, <2>1 DEF vars, IInv, TypeOK, LockDiscipline, RowExists, RowIsCurrent,
                           ReadIsCurrent, WriteIsOutcome, InsertIsRegistration
<1> QED
    BY <1>1, <1>2, <1>3, <1>4, <1>5, <1>6, <1>7, <1>8, <1>9, <1>10, <1>11
       DEF Next, Statement

\* The strengthened invariant holds in every reachable state.
LEMMA Invariance == Spec => []IInv
    BY InitIInv, NextIInv, PTL DEF Spec

-----------------------------------------------------------------------------
\* No commit slips in between a request's load and its own commit: whatever it
\* read is what is stored when it writes.
THEOREM NoLostUpdate == Spec => []ReadIsCurrent
<1>1. IInv => ReadIsCurrent
    BY DEF IInv
<1> QED
    BY <1>1, Invariance, PTL

\* The unique constraint on (date, room type, slot) never refuses a Save.
THEOREM ConstraintIsIdle == Spec => []ConstraintNeverFires
<1>1. Init => ConstraintNeverFires
    BY DEF Init, Idle, ConstraintNeverFires
<1>2. IInv /\ ConstraintNeverFires /\ [Next]_vars => ConstraintNeverFires'
    <2> SUFFICES ASSUME IInv, ConstraintNeverFires, [Next]_vars, NEW r \in Requests
                 PROVE  tx'[r].pc # "rejected"
        BY DEF ConstraintNeverFires
    <2>1. tx[r].pc # "rejected" /\ tx \in [Requests -> TxType]
        BY DEF ConstraintNeverFires, IInv, TypeOK
    <2>2. ASSUME NEW q \in Requests, Save(q)
          PROVE  tx'[r].pc # "rejected"
        <3>1. WellFormed(tx[q].write)
            BY <2>2, OutcomesWellFormed DEF Save, IInv, WriteIsOutcome
        <3>2. WellFormed(inv) /\ tx[q].write \in Outcomes(inv)
            BY <2>2 DEF Save, IInv, WriteIsOutcome
        <3>3. ~ViolatesUqSlot(inv.holds, tx[q].write.holds)
            BY <3>1, <3>2, OutcomesKeepSlots
               DEF WellFormed, Distinct, ViolatesUqSlot, KeptRows, InsertedRows
        <3> QED
            BY <2>1, <2>2, <3>3 DEF Save, Goto
    <2>3. ASSUME NEW q \in Requests, End(q)
          PROVE  tx'[r].pc # "rejected"
        BY <2>1, <2>3 DEF End, Idle
    <2>4. ASSUME NEW q \in Requests, Begin(q) \/ FindForUpdate(q) \/ LoadHolds(q) \/ Apply(q)
          PROVE  tx'[r].pc # "rejected"
        <3>1. CASE Begin(q)
            BY <2>1, <3>1 DEF Begin, Goto
        <3>2. CASE FindForUpdate(q)
            BY <2>1, <3>2 DEF FindForUpdate
        <3>3. CASE LoadHolds(q)
            BY <2>1, <3>3 DEF LoadHolds
        <3>4. CASE Apply(q)
            <4>1. PICK w : tx' = [tx EXCEPT ![q].pc = "applied", ![q].write = w]
                BY <3>4 DEF Apply
            <4> QED
                BY <2>1, <4>1
        <3> QED
            BY <2>4, <3>1, <3>2, <3>3, <3>4
    <2>5. ASSUME NEW q \in Requests, NEW quantity \in Quantities, NEW fee \in Fees,
                 NEW at \in ClockReadings, Insert(q, quantity, fee, at)
          PROVE  tx'[r].pc # "rejected"
        BY <2>1, <2>5 DEF Insert
    <2>6. CASE Tick \/ UNCHANGED vars
        BY <2>1, <2>6 DEF Tick, vars
    <2> QED
        BY <2>2, <2>3, <2>4, <2>5, <2>6
           DEF Next, Statement, NotFound, LockTimeout, Refuse, Commit, AlreadyRegistered,
               CommitInsert, Abort
<1> QED
    BY <1>1, <1>2, Invariance, PTL DEF Spec

-----------------------------------------------------------------------------
\* The aggregate's operators mean the same in Inventory as here.
LEMMA SameQueries ==
    ASSUME NEW v
    PROVE  /\ Atomic!UsedSlots(v) = UsedSlots(v)
           /\ Atomic!VacantSlots(v) = VacantSlots(v)
           /\ Atomic!vacantSlotNo(v) = vacantSlotNo(v)
           /\ Atomic!maxSlotNo(v) = maxSlotNo(v)
<1>1. Atomic!UsedSlots(v) = UsedSlots(v)
    BY DEF Atomic!UsedSlots, UsedSlots
<1>2. Atomic!VacantSlots(v) = VacantSlots(v)
    BY <1>1 DEF Atomic!VacantSlots, VacantSlots
<1>3. Atomic!vacantSlotNo(v) = vacantSlotNo(v)
    BY <1>2 DEF Atomic!vacantSlotNo, vacantSlotNo, Atomic!Min, Min
<1>4. Atomic!maxSlotNo(v) = maxSlotNo(v)
    BY <1>1 DEF Atomic!maxSlotNo, maxSlotNo, Atomic!Max, Max
<1> QED
    BY <1>1, <1>2, <1>3, <1>4

\* So does the choice of a booking's hold.
LEMMA SameHold ==
    ASSUME NEW v, NEW b
    PROVE  /\ Atomic!HasHold(v, b) = HasHold(v, b)
           /\ Atomic!holdOf(v, b) = holdOf(v, b)
    BY DEF Atomic!HasHold, HasHold, Atomic!holdOf, holdOf, Atomic!HoldsOf, HoldsOf

\* COMMIT of a request that changed the aggregate is one of Inventory's
\* operations.
LEMMA CommitIsOperation ==
    ASSUME IInv, NEW r \in Requests, Commit(r)
    PROVE  Atomic!Next
<1> DEFINE w == tx[r].write
<1>1. registered /\ w \in Outcomes(inv)
    BY DEF Commit, IInv, RowExists, WriteIsOutcome, HoldingLock, InTransaction
<1>2. Atomic!Mutate(w)
    BY <1>1 DEF Commit, Atomic!Mutate
<1>3. CASE w \in HoldOutcomes(inv)
    <2>1. PICK b \in Bookings, e \in Times, at \in ClockReadings :
             CanHold(inv, b, e, at) /\ w = AfterHold(inv, b, e)
        BY <1>3 DEF HoldOutcomes
    <2>2. Atomic!CanHold(inv, b, e, at)
        BY <2>1, SameQueries, SameHold DEF CanHold, Atomic!CanHold
    <2>3. Atomic!AfterHold(inv, b, e) = w
        BY <2>1, SameQueries
           DEF AfterHold, Atomic!AfterHold, TemporaryHold, Atomic!TemporaryHold
    <2>4. Atomic!Hold(b, e, at) /\ at \in Atomic!ClockReadings
        BY <1>2, <2>2, <2>3 DEF Atomic!Hold, ClockReadings, Atomic!ClockReadings
    <2> QED
        BY <2>4 DEF Atomic!Next
<1>4. CASE w \in BookingOutcomes(inv)
    <2>1. PICK b \in Bookings :
             \/ CanStartPayment(inv, b) /\ w = AfterStartPayment(inv, b)
             \/ CanConfirm(inv, b) /\ w = AfterConfirm(inv, b)
             \/ CanRelease(inv, b) /\ w = AfterRelease(inv, b)
        BY <1>4 DEF BookingOutcomes
    <2>2. CASE CanStartPayment(inv, b) /\ w = AfterStartPayment(inv, b)
        BY <1>2, <2>2, SameHold
           DEF Atomic!Next, Atomic!StartPayment, CanStartPayment, Atomic!CanStartPayment,
               AfterStartPayment, Atomic!AfterStartPayment, WithStatus, Atomic!WithStatus,
               TemporaryHold, Atomic!TemporaryHold, ProcessingPayment,
               Atomic!ProcessingPayment, NoExpiry, Atomic!NoExpiry
    <2>3. CASE CanConfirm(inv, b) /\ w = AfterConfirm(inv, b)
        BY <1>2, <2>3, SameHold
           DEF Atomic!Next, Atomic!Confirm, CanConfirm, Atomic!CanConfirm,
               AfterConfirm, Atomic!AfterConfirm, WithStatus, Atomic!WithStatus,
               TemporaryHold, Atomic!TemporaryHold, HoldConfirmed,
               Atomic!HoldConfirmed, NoExpiry, Atomic!NoExpiry
    <2>4. CASE CanRelease(inv, b) /\ w = AfterRelease(inv, b)
        BY <1>2, <2>4, SameHold
           DEF Atomic!Next, Atomic!Release, CanRelease, Atomic!CanRelease,
               AfterRelease, Atomic!AfterRelease
    <2> QED
        BY <2>1, <2>2, <2>3, <2>4
<1>5. CASE w \in OperatorOutcomes(inv)
    <2>1. ASSUME NEW n \in Quantities, CanChangeQuantity(inv, n), w = AfterChangeQuantity(inv, n)
          PROVE  Atomic!Next
        BY <1>2, <2>1, SameQueries
           DEF Atomic!Next, Atomic!ChangeQuantity, CanChangeQuantity, Atomic!CanChangeQuantity,
               AfterChangeQuantity, Atomic!AfterChangeQuantity, validQuantity, Atomic!validQuantity
    <2>2. ASSUME NEW f \in Fees, validFee(f), w = AfterChangeFee(inv, f)
          PROVE  Atomic!Next
        BY <1>2, <2>2 DEF Atomic!Next, Atomic!ChangeFee, AfterChangeFee, Atomic!AfterChangeFee,
                          validFee, Atomic!validFee
    <2>3. CASE CanClose(inv) /\ w = AfterClose(inv)
        BY <1>2, <2>3 DEF Atomic!Next, Atomic!Close, CanClose, Atomic!CanClose,
                          AfterClose, Atomic!AfterClose
    <2>4. CASE CanReopen(inv) /\ w = AfterReopen(inv)
        BY <1>2, <2>4 DEF Atomic!Next, Atomic!Reopen, CanReopen, Atomic!CanReopen,
                          AfterReopen, Atomic!AfterReopen
    <2> QED
        BY <1>5, <2>1, <2>2, <2>3, <2>4 DEF OperatorOutcomes
<1>6. CASE w \in CollectOutcomes(inv)
    <2>1. PICK at \in ClockReadings :
             ExpiredHolds(inv, at) # {} /\ w = AfterCollectExpired(inv, at)
        BY <1>6 DEF CollectOutcomes
    <2>2. Atomic!ExpiredHolds(inv, at) = ExpiredHolds(inv, at) /\ at \in Atomic!ClockReadings
        BY DEF ExpiredHolds, Atomic!ExpiredHolds, TemporaryHold, Atomic!TemporaryHold,
               NoExpiry, Atomic!NoExpiry, ClockReadings, Atomic!ClockReadings
    <2> QED
        BY <1>2, <2>1, <2>2 DEF Atomic!Next, Atomic!CollectExpired, AfterCollectExpired,
                                Atomic!AfterCollectExpired
<1> QED
    BY <1>1, <1>3, <1>4, <1>5, <1>6 DEF Outcomes

\* COMMIT of a new row is a registration.
LEMMA CommitInsertIsRegister ==
    ASSUME IInv, NEW r \in Requests, CommitInsert(r)
    PROVE  Atomic!Next
<1>1. PICK quantity \in Quantities, fee \in Fees, at \in ClockReadings :
         /\ InventoryDate >= at
         /\ validFee(fee)
         /\ validQuantity(quantity)
         /\ tx[r].write = NewInventory(quantity, fee)
    BY DEF CommitInsert, IInv, InsertIsRegistration
<1>2. ~registered
    BY DEF CommitInsert, IInv, RowExists, HoldingLock, InTransaction
<1>3. Atomic!Register(quantity, fee, at) /\ at \in Atomic!ClockReadings
    BY <1>1, <1>2 DEF CommitInsert, Atomic!Register, NewInventory, Atomic!NewInventory,
                      validFee, Atomic!validFee, validQuantity, Atomic!validQuantity,
                      ClockReadings, Atomic!ClockReadings
<1> QED
    BY <1>3 DEF Atomic!Next

\* The interleaved transactions are a serial execution of Inventory's
\* operations: a reader of the service may forget that statements interleave.
THEOREM TransactionsAreAtomic == Spec => ImplementsInventory
<1>1. Init => Atomic!Init
    BY DEF Init, Blank, NewInventory, Atomic!Init, Atomic!NewInventory
<1>2. IInv /\ [Next]_vars => [Atomic!Next]_(Atomic!vars)
    <2> SUFFICES ASSUME IInv, [Next]_vars
                 PROVE  Atomic!Next \/ UNCHANGED <<now, registered, inv>>
        BY DEF Atomic!vars
    <2>1. ASSUME NEW r \in Requests, Commit(r) \/ CommitInsert(r)
          PROVE  Atomic!Next
        BY <2>1, CommitIsOperation, CommitInsertIsRegister
    <2>2. CASE Tick
        BY <2>2 DEF Tick, committed, Atomic!Next, Atomic!Tick
    <2>3. CASE UNCHANGED vars
        BY <2>3 DEF vars
    <2>4. ASSUME NEW r \in Requests, Begin(r) \/ Statement(r) \/ Abort(r),
                 ~Commit(r), ~CommitInsert(r)
          PROVE  UNCHANGED <<now, registered, inv>>
        BY <2>4 DEF Statement, Begin, FindForUpdate, NotFound, LockTimeout, LoadHolds, Apply,
                    Refuse, Save, Insert, AlreadyRegistered, Abort, committed
    <2> QED
        BY <2>1, <2>2, <2>3, <2>4 DEF Next
<1> QED
    BY <1>1, <1>2, Invariance, PTL DEF Spec, Atomic!Spec, ImplementsInventory

\* What the service promises of a night is kept between any two statements of its
\* transactions: it is never sold more often than its quantity, no slot and no
\* booking twice.
THEOREM TransactionsNeverOversell ==
    Spec => [](Atomic!NoOverbooking /\ Atomic!SlotsDistinct /\ Atomic!OneHoldPerBooking)
<1>1. ASSUME WellFormed(inv)
      PROVE  Atomic!NoOverbooking /\ Atomic!SlotsDistinct /\ Atomic!OneHoldPerBooking
    <2>1. Cardinality(inv.holds) <= inv.quantityAvailable
        BY <1>1, CountingAgreesWithNumbering
    <2>2. Atomic!Cardinality(inv.holds) <= inv.quantityAvailable
        BY <2>1 DEF Atomic!Cardinality, Cardinality
    <2>3. Atomic!UsedSlots(inv) \subseteq 1 .. inv.quantityAvailable
        BY <1>1 DEF WellFormed, SlotsInRange, UsedSlots, Atomic!UsedSlots
    <2>4. Atomic!NoOverbooking
        BY <2>2, <2>3 DEF Atomic!NoOverbooking
    <2> QED
        BY <1>1, <2>4 DEF WellFormed, Distinct, OnePerBooking,
                          Atomic!SlotsDistinct, Atomic!OneHoldPerBooking
<1>2. IInv => WellFormed(inv)
    BY DEF IInv
<1> QED
    BY <1>1, <1>2, Invariance, PTL

=============================================================================
