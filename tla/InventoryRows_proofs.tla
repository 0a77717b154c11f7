------------------------- MODULE InventoryRows_proofs -------------------------
(***************************************************************************)
(* What the operator is told and what the INT columns keep, for every      *)
(* width of the columns, every amount and every sequence of operations.    *)
(* An operation reads the aggregate from the row and writes it back        *)
(* narrowed once more: that this changes nothing rests on the CHECKs       *)
(* having kept the row's amounts within the columns, and non-negative.     *)
(*                                                                         *)
(* At the end, what search reads from such rows: what it offers is what    *)
(* Book would accept, at the same price.                                   *)
(***************************************************************************)
EXTENDS InventoryRows, Search, InventoryDomain_proofs

\* What is narrowed to a column lies in the column, for every width.
LEMMA Narrowed ==
    ASSUME NEW n \in Int
    PROVE  Int32(n) \in Columns
BY WidthAssumption DEF Int32, Columns

LEMMA ModBelow ==
    ASSUME NEW m \in Nat \ {0}, NEW x \in 0 .. m - 1
    PROVE  x % m = x
OBVIOUS

LEMMA ModAbove ==
    ASSUME NEW m \in Nat \ {0}, NEW x \in m .. 2 * m - 1
    PROVE  x % m = x - m
OBVIOUS

\* Below 2^32 a number either fits its column or becomes a negative one.
LEMMA FirstTurn ==
    ASSUME NEW n \in Nat, n < 2 * Half
    PROVE  Int32(n) = IF n < Half THEN n ELSE n - 2 * Half
<1> DEFINE m == 2 * Half
<1>1. m \in Nat \ {0} /\ Half \in Nat \ {0}
    BY WidthAssumption
<1>2. CASE n < Half
    BY <1>1, <1>2, ModBelow DEF Int32
<1>3. CASE n >= Half
    BY <1>1, <1>3, ModAbove DEF Int32
<1> QED
    BY <1>1, <1>2, <1>3

RInv ==
    /\ row.fee \in 0 .. Half - 1 /\ row.quantity_available \in 0 .. Half - 1
    /\ asked \in [fee : Int, quantity : Int]
    /\ StoredAsAnswered

LEMMA InitRInv == Init => RInv
BY WidthAssumption DEF Init, RInv, NoRow, StoredAsAnswered

\* A checked amount is the one that was asked for, up to a full turn.
LEMMA CheckedIsAsked ==
    ASSUME NEW n \in Int, n >= 0, Int32(n) >= 0
    PROVE  Int32(n) \in 0 .. Half - 1 /\ (Int32(n) = n \/ FullTurn(n))
<1>1. Int32(n) \in 0 .. Half - 1
    BY Narrowed, WidthAssumption DEF Columns
<1>2. CASE n < 2 * Half
    BY <1>1, <1>2, FirstTurn, WidthAssumption
<1>3. CASE n >= 2 * Half
    BY <1>1, <1>3 DEF FullTurn
<1> QED
    BY <1>2, <1>3, WidthAssumption

\* The row's amounts survive being read and narrowed again.
LEMMA RowIsKept ==
    ASSUME NEW n \in 0 .. Half - 1
    PROVE  Int32(n) = n
BY FirstTurn, WidthAssumption

LEMMA StoredAmounts == stored.fee = row.fee /\ stored.quantityAvailable = row.quantity_available
BY DEF stored, toInventory

\* What a transaction writes of an aggregate
LEMMA MutateWrites ==
    ASSUME NEW inv, Mutate(inv)
    PROVE  /\ row'.fee = Int32(inv.fee) /\ row'.fee >= 0
           /\ row'.quantity_available = Int32(inv.quantityAvailable)
           /\ row'.quantity_available >= 0
           /\ row.exists /\ row'.exists
BY DEF Mutate, Save, toUpsertInventoryParams, checks

\* An operation that changes neither amount
LEMMA OperateKeeps ==
    ASSUME RInv, NEW inv, Operate(inv),
           inv.fee = stored.fee, inv.quantityAvailable = stored.quantityAvailable
    PROVE  RInv'
<1>1. row'.fee = row.fee /\ row'.quantity_available = row.quantity_available
    BY MutateWrites, RowIsKept, StoredAmounts DEF Operate, RInv
<1>2. row.exists /\ row'.exists /\ asked' = asked
    BY MutateWrites DEF Operate
<1> QED
    BY <1>1, <1>2 DEF RInv, StoredAsAnswered, FullTurn

LEMMA NextRInv == RInv /\ [Next]_vars => RInv'
<1> SUFFICES ASSUME RInv, [Next]_vars
             PROVE  RInv'
    OBVIOUS
<1>1. ASSUME NEW quantity \in Amounts, NEW fee \in Amounts, NEW at \in ClockReadings,
             Register(quantity, fee, at)
      PROVE  RInv'
  <2>1. quantity \in Int /\ quantity >= 0 /\ fee \in Int /\ fee >= 0
      BY <1>1, AmountsAssumption DEF Register, validFee, validQuantity
  <2>2. /\ row'.fee = Int32(fee) /\ row'.fee >= 0
        /\ row'.quantity_available = Int32(quantity) /\ row'.quantity_available >= 0
        /\ asked' = [fee |-> fee, quantity |-> quantity]
      BY <1>1 DEF Register, NewInventory, toUpsertInventoryParams, checks
  <2> QED
      BY <2>1, <2>2, CheckedIsAsked DEF RInv, StoredAsAnswered, FullTurn
<1>2. ASSUME NEW n \in Amounts, ChangeQuantity(n)
      PROVE  RInv'
  <2> DEFINE inv == AfterChangeQuantity(stored, n)
  <2>1. n \in Int /\ n >= 0
      BY <1>2, AmountsAssumption DEF ChangeQuantity, CanChangeQuantity, validQuantity
  <2>2. inv.quantityAvailable = n /\ inv.fee = row.fee
      BY DEF AfterChangeQuantity, stored, toInventory
  <2>3. Mutate(inv) /\ asked' = [asked EXCEPT !.quantity = n]
      BY <1>2 DEF ChangeQuantity
  <2> HIDE DEF inv
  <2>4. /\ row'.fee = row.fee /\ row.exists
        /\ row'.quantity_available = Int32(n) /\ row'.quantity_available >= 0
      BY <2>2, <2>3, MutateWrites, RowIsKept DEF RInv
  <2>5. asked' \in [fee : Int, quantity : Int] /\ asked'.fee = asked.fee /\ asked'.quantity = n
      BY <2>1, <2>3 DEF RInv
  <2> QED
      BY <2>1, <2>4, <2>5, CheckedIsAsked DEF RInv, StoredAsAnswered, FullTurn
<1>3. ASSUME NEW amount \in Amounts, ChangeFee(amount)
      PROVE  RInv'
  <2> DEFINE inv == AfterChangeFee(stored, amount)
  <2>1. amount \in Int /\ amount >= 0
      BY <1>3, AmountsAssumption DEF ChangeFee, validFee
  <2>2. inv.fee = amount /\ inv.quantityAvailable = row.quantity_available
      BY DEF AfterChangeFee, stored, toInventory
  <2>3. Mutate(inv) /\ asked' = [asked EXCEPT !.fee = amount]
      BY <1>3 DEF ChangeFee
  <2> HIDE DEF inv
  <2>4. /\ row'.quantity_available = row.quantity_available /\ row.exists
        /\ row'.fee = Int32(amount) /\ row'.fee >= 0
      BY <2>2, <2>3, MutateWrites, RowIsKept DEF RInv
  <2>5. /\ asked' \in [fee : Int, quantity : Int]
        /\ asked'.quantity = asked.quantity /\ asked'.fee = amount
      BY <2>1, <2>3 DEF RInv
  <2> QED
      BY <2>1, <2>4, <2>5, CheckedIsAsked DEF RInv, StoredAsAnswered, FullTurn
<1>4. CASE Close
  <2>1. AfterClose(stored).fee = stored.fee
        /\ AfterClose(stored).quantityAvailable = stored.quantityAvailable
      BY DEF AfterClose, stored, toInventory
  <2> QED
      BY <1>4, <2>1, OperateKeeps DEF Close
<1>5. CASE Reopen
  <2>1. AfterReopen(stored).fee = stored.fee
        /\ AfterReopen(stored).quantityAvailable = stored.quantityAvailable
      BY DEF AfterReopen, stored, toInventory
  <2> QED
      BY <1>5, <2>1, OperateKeeps DEF Reopen
<1>h. ASSUME NEW hs
      PROVE  /\ [stored EXCEPT !.holds = hs].fee = stored.fee
             /\ [stored EXCEPT !.holds = hs].quantityAvailable = stored.quantityAvailable
    BY DEF stored, toInventory
<1>6. ASSUME NEW b \in Bookings, NEW at \in ClockReadings, Hold(b, at)
      PROVE  RInv'
  <2>1. AfterHold(stored, b, at + TTL).fee = stored.fee
        /\ AfterHold(stored, b, at + TTL).quantityAvailable = stored.quantityAvailable
      BY <1>h DEF AfterHold
  <2> QED
      BY <1>6, <2>1, OperateKeeps DEF Hold
<1>w. ASSUME NEW h, NEW status
      PROVE  /\ WithStatus(stored, h, status).fee = stored.fee
             /\ WithStatus(stored, h, status).quantityAvailable = stored.quantityAvailable
    BY <1>h DEF WithStatus
<1>7. ASSUME NEW b \in Bookings, StartPayment(b) \/ Confirm(b)
      PROVE  RInv'
    BY <1>7, <1>w, OperateKeeps DEF StartPayment, Confirm, AfterStartPayment, AfterConfirm
<1>8. ASSUME NEW b \in Bookings, Release(b)
      PROVE  RInv'
    BY <1>8, <1>h, OperateKeeps DEF Release, AfterRelease
<1>9. ASSUME NEW at \in ClockReadings, CollectExpired(at)
      PROVE  RInv'
    BY <1>9, <1>h, OperateKeeps DEF CollectExpired, AfterCollectExpired
<1>10. CASE Tick \/ UNCHANGED vars
    BY <1>10 DEF Tick, vars, RInv, StoredAsAnswered, FullTurn
<1> QED
    BY <1>1, <1>2, <1>3, <1>4, <1>5, <1>6, <1>7, <1>8, <1>9, <1>10 DEF Next

LEMMA RowsInvariant == Spec => []RInv
BY InitRInv, NextRInv, PTL DEF Spec

\* A fee or a quantity that the operator was told is set is the one that is stored,
\* below twice the half of the columns, for every width and every amount.
THEOREM OperatorIsToldTheTruth == Spec => []StoredAsAnswered
<1>1. RInv => StoredAsAnswered
    BY DEF RInv
<1> QED
    BY <1>1, RowsInvariant, PTL

\* Every night that was stored can be loaded again.
THEOREM NightsStayUsable == Spec => []StoredCanBeLoaded
<1>1. RInv => StoredCanBeLoaded
    BY WidthAssumption DEF RInv, StoredCanBeLoaded, validFee, validQuantity
<1> QED
    BY <1>1, RowsInvariant, PTL

-----------------------------------------------------------------------------
(* Instants in a TIMESTAMPTZ *)

\* A multiple of m within m of zero is zero.
LEMMA SmallMultiple ==
    ASSUME NEW m \in Nat \ {0}, NEW k \in Int, m * k < m, m * k > 0 - m
    PROVE  k = 0
<1>1. CASE k >= 1
    BY <1>1
<1>2. CASE k <= -1
    BY <1>2
<1> QED
    BY <1>1, <1>2

LEMMA Division ==
    ASSUME NEW m \in Nat \ {0}, NEW t \in Nat
    PROVE  /\ t \div m \in Nat /\ t % m \in 0 .. m - 1
           /\ t = m * (t \div m) + (t % m)
OBVIOUS

\* What is left of a number when its remainder is taken off leaves none.
LEMMA NoRemainder ==
    ASSUME NEW m \in Nat \ {0}, NEW q \in Int, NEW x \in Nat, x = m * q
    PROVE  x % m = 0
<1> DEFINE p == x \div m
<1>1. p \in Nat /\ x % m \in 0 .. m - 1 /\ x = m * p + (x % m)
    BY Division
<1> HIDE DEF p
<1>2. m * (q - p) = m * q - m * p /\ q - p \in Int
    BY <1>1
<1>3. m * (q - p) = x % m
  <2>1. m * p \in Int /\ m * q \in Int /\ x % m \in Int
      BY <1>1
  <2> QED
      BY <1>1, <1>2, <2>1
<1>4. q - p = 0
    BY <1>1, <1>2, <1>3, SmallMultiple
<1> QED
    BY <1>3, <1>4

\* Cutting goes back by less than a microsecond, and once is as good as twice.
LEMMA Cut ==
    ASSUME NEW t \in Nat
    PROVE  /\ Truncated(t) \in Nat
           /\ Truncated(t) <= t
           /\ t < Truncated(t) + Micro
           /\ Truncated(Truncated(t)) = Truncated(t)
<1> DEFINE q == t \div Micro
           x == Truncated(t)
<1>1. Micro \in Nat \ {0}
    BY TTLAssumption
<1>2. /\ q \in Nat /\ t % Micro \in 0 .. Micro - 1
      /\ t = Micro * q + (t % Micro)
    BY <1>1, Division
<1>3. Micro * q \in Nat
    BY <1>1, <1>2
<1> HIDE DEF q
<1>4. x = Micro * q /\ x \in Nat /\ x <= t /\ t < x + Micro
    BY <1>1, <1>2, <1>3 DEF Truncated
<1> HIDE DEF x
<1>5. x % Micro = 0
    BY <1>1, <1>2, <1>4, NoRemainder
<1>6. Truncated(x) = x
    BY <1>4, <1>5 DEF Truncated
<1> QED
    BY <1>4, <1>6 DEF x

\* A row's expiry, kept or not, is read back as it is.
IsCut(e) == e # NoExpiry => e \in Nat /\ Truncated(e) = e

LEMMA ExpiryRoundTrip ==
    ASSUME NEW e \in Nat \cup {NoExpiry}
    PROVE  /\ toTimestamptz(e) \in Nat \cup {Null}
           /\ IsCut(toTimePointer(toTimestamptz(e)))
           /\ toTimePointer(toTimestamptz(e)) = IF e = NoExpiry THEN NoExpiry ELSE Truncated(e)
BY Cut DEF toTimestamptz, toTimePointer, IsCut, Null, NoExpiry

LEMMA StatusRoundTrip ==
    ASSUME NEW s \in HoldStatus
    PROVE  toDBHoldStatus(s) \in DBHoldStatus /\ toDomainHoldStatus(toDBHoldStatus(s)) = s
BY DEF toDBHoldStatus, toDomainHoldStatus, HoldStatus, DBHoldStatus,
       TemporaryHold, ProcessingPayment, HoldConfirmed,
       DBTemporaryHold, DBProcessingPayment, DBConfirmed

LEMMA StatusIsRead ==
    ASSUME NEW s \in DBHoldStatus
    PROVE  toDomainHoldStatus(s) \in HoldStatus
           /\ (toDomainHoldStatus(s) = TemporaryHold <=> s = DBTemporaryHold)
BY DEF toDomainHoldStatus, HoldStatus, DBHoldStatus,
       TemporaryHold, ProcessingPayment, HoldConfirmed,
       DBTemporaryHold, DBProcessingPayment, DBConfirmed

-----------------------------------------------------------------------------
(* The rows of holds                                                       *)
(*                                                                         *)
(* A wrapped quantity may lie below a slot in use: that slots are in range *)
(* is not part of the invariant, that they fit their column is.            *)

HoldsInv ==
    /\ TypeOK
    /\ holdChecks(holdRows)
    /\ \A r \in holdRows : IsCut(toTimePointer(r.expired_at))
    /\ ~row.exists => holdRows = {}

\* An aggregate whose slots fit their column
Fits(v) == v \in InventoryType /\ \A h \in v.holds : h.slotNo < Half

\* No hold of the aggregate has digits to lose.
AllCut(v) == \A h \in v.holds : IsCut(h.expiredAt)

\* What is read back of a hold that is written
Kept(h) == [bookingId |-> h.bookingId, slotNo |-> h.slotNo, status |-> h.status,
            expiredAt |-> toTimePointer(toTimestamptz(h.expiredAt))]

\* What is read back of an aggregate that is written
KeptInventory(v) ==
    [quantityAvailable |-> Int32(v.quantityAvailable), fee |-> Int32(v.fee),
     isClosed |-> v.isClosed, holds |-> {Kept(h) : h \in v.holds}]

ReadBack(r) == [bookingId |-> r.booking_id, slotNo |-> r.slot_no,
                status |-> toDomainHoldStatus(r.status),
                expiredAt |-> toTimePointer(r.expired_at)]

LEMMA StoredHolds == stored.holds = {ReadBack(r) : r \in holdRows}
BY DEF stored, toInventory, ReadBack

LEMMA ReadBackFits ==
    ASSUME HoldsInv, NEW r \in holdRows
    PROVE  ReadBack(r) \in HoldType /\ ReadBack(r).slotNo < Half /\ IsCut(ReadBack(r).expiredAt)
<1>1. r \in HoldRowType /\ r.slot_no >= 1 /\ IsCut(toTimePointer(r.expired_at))
    BY DEF HoldsInv, TypeOK, holdChecks
<1>2. toDomainHoldStatus(r.status) \in HoldStatus
    BY <1>1, StatusIsRead DEF HoldRowType
<1>3. r.slot_no \in Nat \ {0} /\ r.slot_no < Half
    BY <1>1, WidthAssumption DEF HoldRowType, Columns
<1>4. toTimePointer(r.expired_at) \in Nat \cup {NoExpiry}
    BY <1>1 DEF HoldRowType, toTimePointer
<1> QED
    BY <1>1, <1>2, <1>3, <1>4 DEF ReadBack, HoldType, HoldRowType

LEMMA StoredFits ==
    ASSUME HoldsInv, RInv
    PROVE  Fits(stored) /\ AllCut(stored)
<1>1. stored.holds \subseteq HoldType
    BY StoredHolds, ReadBackFits
<1>2. row.fee \in Nat /\ row.quantity_available \in Nat /\ row.is_closed \in BOOLEAN
    BY WidthAssumption DEF RInv, HoldsInv, TypeOK, RowType
<1>3. stored \in InventoryType
    BY <1>1, <1>2 DEF stored, toInventory, InventoryType
<1> QED
    BY <1>3, StoredHolds, ReadBackFits DEF Fits, AllCut

\* A hold whose expiry is cut is read back as it was written.
LEMMA KeptIsSame ==
    ASSUME NEW h \in HoldType, IsCut(h.expiredAt)
    PROVE  Kept(h) = h
<1>1. toTimePointer(toTimestamptz(h.expiredAt)) = h.expiredAt
    BY ExpiryRoundTrip DEF HoldType, IsCut
<1> QED
    BY <1>1 DEF Kept, HoldType

\* The row of each hold: the one it had, with a new status and expiry, or a new one.
RowFor(h, hs, id) ==
    LET known == {r \in hs : IsRowOf(h, r)}
    IN  IF known = {} THEN toUpsertHoldParams(h, id)
        ELSE OnConflict(CHOOSE r \in known : TRUE, toUpsertHoldParams(h, id))

LEMMA RowForReadsBack ==
    ASSUME NEW hs, hs \subseteq HoldRowType, NEW id \in HoldIds,
           NEW h \in HoldType, h.slotNo < Half
    PROVE  /\ RowFor(h, hs, id) \in HoldRowType
           /\ ReadBack(RowFor(h, hs, id)) = Kept(h)
           /\ IsCut(toTimePointer(RowFor(h, hs, id).expired_at))
<1> DEFINE params == toUpsertHoldParams(h, id)
           known == {r \in hs : IsRowOf(h, r)}
<1>1. /\ h.slotNo \in 1 .. Half - 1 /\ h.bookingId \in Bookings /\ h.status \in HoldStatus
      /\ h.expiredAt \in Nat \cup {NoExpiry}
    BY WidthAssumption DEF HoldType
<1>2. Int32(h.slotNo) = h.slotNo /\ h.slotNo \in Columns
    BY <1>1, RowIsKept, WidthAssumption DEF Columns
<1>3. /\ params \in HoldRowType /\ params.booking_id = h.bookingId /\ params.slot_no = h.slotNo
      /\ params.status = toDBHoldStatus(h.status) /\ params.expired_at = toTimestamptz(h.expiredAt)
    BY <1>1, <1>2, StatusRoundTrip, ExpiryRoundTrip DEF toUpsertHoldParams, HoldRowType
<1> HIDE DEF params
<1>4. \E r \in HoldRowType : /\ RowFor(h, hs, id) = r
                             /\ r.booking_id = h.bookingId /\ r.slot_no = h.slotNo
                             /\ r.status = params.status /\ r.expired_at = params.expired_at
  <2>1. CASE known = {}
      BY <1>3, <2>1 DEF RowFor, params
  <2>2. CASE known # {}
    <3> DEFINE r == CHOOSE k \in known : TRUE
    <3>1. r \in known
        BY <2>2
    <3> HIDE DEF r
    <3>2. r \in HoldRowType /\ r.booking_id = h.bookingId /\ r.slot_no = h.slotNo
        BY <3>1 DEF IsRowOf
    <3> DEFINE w == [r EXCEPT !.status = params.status, !.expired_at = params.expired_at]
    <3>3. /\ w \in HoldRowType /\ w.booking_id = h.bookingId /\ w.slot_no = h.slotNo
          /\ w.status = params.status /\ w.expired_at = params.expired_at
        BY <1>3, <3>2 DEF HoldRowType
    <3>4. RowFor(h, hs, id) = w
        BY <2>2 DEF RowFor, OnConflict, params, r
    <3> QED
        BY <3>3, <3>4
  <2> QED
      BY <2>1, <2>2
<1> QED
    BY <1>1, <1>3, <1>4, StatusRoundTrip, ExpiryRoundTrip DEF ReadBack, Kept

\* What FindForUpdate, the aggregate's method and Save leave
LEMMA MutateKeepsHolds ==
    ASSUME HoldsInv, NEW v, Fits(v), Mutate(v), asked' \in [fee : Nat, quantity : Nat]
    PROVE  HoldsInv' /\ stored' = KeptInventory(v)
<1>1. PICK id \in HoldIds : Save(v, id)
    BY DEF Mutate
<1> DEFINE hs == AfterDelete(v, holdRows)
<1>2. hs \subseteq HoldRowType
    BY DEF HoldsInv, TypeOK, AfterDelete
<1>3. holdRows' = {RowFor(h, hs, id) : h \in v.holds} /\ holdChecks(holdRows')
    BY <1>1 DEF Save, AfterUpsert, RowFor
<1> HIDE DEF hs
<1>4. \A h \in v.holds : /\ RowFor(h, hs, id) \in HoldRowType
                         /\ ReadBack(RowFor(h, hs, id)) = Kept(h)
                         /\ IsCut(toTimePointer(RowFor(h, hs, id).expired_at))
    BY <1>2, RowForReadsBack DEF Fits, InventoryType
<1>5. holdRows' \subseteq HoldRowType /\ \A r \in holdRows' : IsCut(toTimePointer(r.expired_at))
    BY <1>3, <1>4
<1>6. row' = toUpsertInventoryParams(v)
    BY <1>1 DEF Save
<1>7. row' \in RowType /\ row'.exists
    BY <1>6, Narrowed DEF toUpsertInventoryParams, RowType, Fits, InventoryType
<1>8. HoldsInv'
    BY <1>3, <1>5, <1>7 DEF Mutate, HoldsInv, TypeOK
<1>9. {ReadBack(r) : r \in holdRows'} = {Kept(h) : h \in v.holds}
    BY <1>3, <1>4
<1>10. stored' = KeptInventory(v)
  <2>1. stored' = [quantityAvailable |-> row'.quantity_available, fee |-> row'.fee,
                   isClosed |-> row'.is_closed, holds |-> {ReadBack(r) : r \in holdRows'}]
      BY DEF stored, toInventory, ReadBack
  <2> QED
      BY <1>6, <1>9, <2>1 DEF toUpsertInventoryParams, KeptInventory
<1> QED
    BY <1>8, <1>10

-----------------------------------------------------------------------------
(* What the operations write fits, and only a new hold has digits to lose *)

LEMMA AmountsFit ==
    ASSUME NEW v, Fits(v), NEW n \in Nat, NEW closed \in BOOLEAN
    PROVE  /\ Fits([v EXCEPT !.quantityAvailable = n]) /\ Fits([v EXCEPT !.fee = n])
           /\ Fits([v EXCEPT !.isClosed = closed])
           /\ [v EXCEPT !.quantityAvailable = n].holds = v.holds
           /\ [v EXCEPT !.fee = n].holds = v.holds
           /\ [v EXCEPT !.isClosed = closed].holds = v.holds
BY DEF Fits, InventoryType

LEMMA FewerHoldsFit ==
    ASSUME NEW v, Fits(v), AllCut(v), NEW gone
    PROVE  Fits([v EXCEPT !.holds = @ \ gone]) /\ AllCut([v EXCEPT !.holds = @ \ gone])
BY DEF Fits, AllCut, InventoryType

LEMMA WithStatusFits ==
    ASSUME NEW v, Fits(v), AllCut(v), NEW h \in v.holds, NEW status \in HoldStatus
    PROVE  Fits(WithStatus(v, h, status)) /\ AllCut(WithStatus(v, h, status))
<1> DEFINE paid == [h EXCEPT !.status = status, !.expiredAt = NoExpiry]
           w == WithStatus(v, h, status)
<1>1. /\ paid \in HoldType /\ paid.slotNo = h.slotNo /\ paid.expiredAt = NoExpiry
    BY DEF Fits, InventoryType, HoldType
<1>2. w.holds = (v.holds \ {h}) \cup {paid}
    BY DEF WithStatus, Fits, InventoryType
<1>3. w \in InventoryType
    BY <1>1 DEF WithStatus, Fits, InventoryType
<1> HIDE DEF paid, w
<1>4. Fits(w)
    BY <1>1, <1>2, <1>3 DEF Fits
<1>5. AllCut(w)
    BY <1>1, <1>2 DEF AllCut, IsCut
<1> QED
    BY <1>4, <1>5 DEF w

\* The slot of a new hold is below the quantity, which the CHECK kept in its column.
LEMMA HoldFits ==
    ASSUME NEW v, Fits(v), v.quantityAvailable < Half, VacantSlots(v) # {},
           NEW b \in Bookings, NEW e \in Nat
    PROVE  Fits(AfterHold(v, b, e))
<1> DEFINE new == [bookingId |-> b, slotNo |-> vacantSlotNo(v),
                   status |-> TemporaryHold, expiredAt |-> e]
<1>1. /\ vacantSlotNo(v) \in Nat \ {0} /\ vacantSlotNo(v) \in 1 .. v.quantityAvailable
      /\ v.quantityAvailable \in Nat
    BY VacantSlotIsFree DEF Fits, InventoryType
<1>2. new \in HoldType /\ new.slotNo < Half
    BY <1>1, WidthAssumption DEF HoldType, HoldStatus
<1>3. AfterHold(v, b, e) = [v EXCEPT !.holds = @ \cup {new}]
    BY DEF AfterHold
<1> HIDE DEF new
<1> QED
    BY <1>2, <1>3 DEF Fits, InventoryType

\* An aggregate whose amounts survive and whose holds are cut is read back as it was.
LEMMA ReadBackAsWritten ==
    ASSUME HoldsInv, NEW v, Fits(v), AllCut(v), Mutate(v), asked' \in [fee : Nat, quantity : Nat],
           row'.fee = v.fee, row'.quantity_available = v.quantityAvailable
    PROVE  stored' = v
<1>1. stored' = KeptInventory(v)
    BY MutateKeepsHolds
<1>2. Int32(v.fee) = v.fee /\ Int32(v.quantityAvailable) = v.quantityAvailable
    BY MutateWrites
<1>3. \A h \in v.holds : Kept(h) = h
    BY KeptIsSame DEF Fits, InventoryType, AllCut
<1>4. {Kept(h) : h \in v.holds} = v.holds
    BY <1>3
<1> QED
    BY <1>1, <1>2, <1>4 DEF KeptInventory, Fits, InventoryType

\* An operation that leaves the amounts alone
LEMMA OperateReadsBack ==
    ASSUME HoldsInv, RInv, NEW v, Fits(v), AllCut(v), Operate(v),
           v.fee = stored.fee, v.quantityAvailable = stored.quantityAvailable
    PROVE  HoldsInv' /\ stored' = v
<1>1. asked' \in [fee : Nat, quantity : Nat] /\ Mutate(v)
    BY DEF Operate, HoldsInv, TypeOK
<1>2. row'.fee = v.fee /\ row'.quantity_available = v.quantityAvailable
    BY <1>1, MutateWrites, RowIsKept, StoredAmounts DEF RInv
<1> QED
    BY <1>1, <1>2, ReadBackAsWritten, MutateKeepsHolds

-----------------------------------------------------------------------------
(* The operators of the promise are those of this module's aggregate *)

LEMMA SamePromise ==
    ASSUME NEW v, NEW b, NEW e, NEW at, NEW n
    PROVE  /\ Promise!CanChangeQuantity(v, n) = CanChangeQuantity(v, n)
           /\ Promise!AfterChangeQuantity(v, n) = AfterChangeQuantity(v, n)
           /\ Promise!validFee(n) = validFee(n)
           /\ Promise!AfterChangeFee(v, n) = AfterChangeFee(v, n)
           /\ Promise!CanHold(v, b, e, at) = CanHold(v, b, e, at)
           /\ Promise!AfterHold(v, b, e) = AfterHold(v, b, e)
           /\ Promise!ExpiredHolds(v, at) = ExpiredHolds(v, at)
           /\ Promise!AfterCollectExpired(v, at) = AfterCollectExpired(v, at)
<1>1. Promise!UsedSlots(v) = UsedSlots(v)
    BY DEF Promise!UsedSlots, UsedSlots
<1>2. Promise!maxSlotNo(v) = maxSlotNo(v)
    BY <1>1 DEF Promise!maxSlotNo, maxSlotNo, Promise!Max, Max
<1>3. Promise!VacantSlots(v) = VacantSlots(v)
    BY <1>1 DEF Promise!VacantSlots, VacantSlots
<1>4. Promise!vacantSlotNo(v) = vacantSlotNo(v)
    BY <1>3 DEF Promise!vacantSlotNo, vacantSlotNo, Promise!Min, Min
<1>5. Promise!HasHold(v, b) = HasHold(v, b)
    BY DEF Promise!HasHold, HasHold, Promise!HoldsOf, HoldsOf
<1>6. Promise!ExpiredHolds(v, at) = ExpiredHolds(v, at)
    BY DEF Promise!ExpiredHolds, ExpiredHolds, Promise!TemporaryHold, TemporaryHold,
           Promise!NoExpiry, NoExpiry
<1>7. /\ Promise!CanChangeQuantity(v, n) = CanChangeQuantity(v, n)
      /\ Promise!validFee(n) = validFee(n)
    BY <1>2 DEF Promise!CanChangeQuantity, CanChangeQuantity, Promise!validQuantity, validQuantity,
                Promise!validFee, validFee
<1>8. /\ Promise!AfterChangeQuantity(v, n) = AfterChangeQuantity(v, n)
      /\ Promise!AfterChangeFee(v, n) = AfterChangeFee(v, n)
    BY DEF Promise!AfterChangeQuantity, AfterChangeQuantity, Promise!AfterChangeFee, AfterChangeFee
<1>9. Promise!CanHold(v, b, e, at) = CanHold(v, b, e, at)
    BY <1>3, <1>5 DEF Promise!CanHold, CanHold
<1>10. Promise!AfterHold(v, b, e) = AfterHold(v, b, e)
    BY <1>4 DEF Promise!AfterHold, AfterHold, Promise!TemporaryHold, TemporaryHold
<1>11. Promise!AfterCollectExpired(v, at) = AfterCollectExpired(v, at)
    BY <1>6 DEF Promise!AfterCollectExpired, AfterCollectExpired
<1> QED
    BY <1>6, <1>7, <1>8, <1>9, <1>10, <1>11

LEMMA SamePayments ==
    ASSUME NEW v, NEW b
    PROVE  /\ Promise!CanStartPayment(v, b) = CanStartPayment(v, b)
           /\ Promise!AfterStartPayment(v, b) = AfterStartPayment(v, b)
           /\ Promise!CanConfirm(v, b) = CanConfirm(v, b)
           /\ Promise!AfterConfirm(v, b) = AfterConfirm(v, b)
           /\ Promise!CanRelease(v, b) = CanRelease(v, b)
           /\ Promise!AfterRelease(v, b) = AfterRelease(v, b)
<1>1. Promise!HasHold(v, b) = HasHold(v, b) /\ Promise!holdOf(v, b) = holdOf(v, b)
    BY DEF Promise!HasHold, HasHold, Promise!HoldsOf, HoldsOf, Promise!holdOf, holdOf
<1>2. \A h, status : Promise!WithStatus(v, h, status) = WithStatus(v, h, status)
    BY DEF Promise!WithStatus, WithStatus, Promise!NoExpiry, NoExpiry
<1>3. /\ Promise!CanStartPayment(v, b) = CanStartPayment(v, b)
      /\ Promise!CanConfirm(v, b) = CanConfirm(v, b)
      /\ Promise!CanRelease(v, b) = CanRelease(v, b)
    BY <1>1 DEF Promise!CanStartPayment, CanStartPayment, Promise!CanConfirm, CanConfirm,
                Promise!CanRelease, CanRelease, Promise!TemporaryHold, TemporaryHold
<1>4. /\ Promise!AfterStartPayment(v, b) = AfterStartPayment(v, b)
      /\ Promise!AfterConfirm(v, b) = AfterConfirm(v, b)
    BY <1>1, <1>2 DEF Promise!AfterStartPayment, AfterStartPayment, Promise!AfterConfirm,
                      AfterConfirm, Promise!ProcessingPayment, ProcessingPayment,
                      Promise!HoldConfirmed, HoldConfirmed
<1>5. Promise!AfterRelease(v, b) = AfterRelease(v, b)
    BY <1>1 DEF Promise!AfterRelease, AfterRelease
<1> QED
    BY <1>3, <1>4, <1>5

-----------------------------------------------------------------------------
(* Every transaction is an operation of the promise *)

\* The operator's quantity or fee, as long as it is below a full turn
LEMMA ChangeQuantityImplements ==
    ASSUME HoldsInv, RInv, RInv', NEW n \in Amounts, ChangeQuantity(n)
    PROVE  HoldsInv' /\ (Wrapped' \/ Promise!ChangeQuantity(n))
<1> DEFINE v == AfterChangeQuantity(stored, n)
<1>1. n \in Nat
    BY AmountsAssumption DEF ChangeQuantity, CanChangeQuantity, validQuantity
<1>2. Fits(v) /\ AllCut(v) /\ v.quantityAvailable = n /\ v.fee = row.fee
    BY <1>1, StoredFits, StoredAmounts, AmountsFit
       DEF AfterChangeQuantity, AllCut, Fits, InventoryType
<1>3. Mutate(v) /\ asked' \in [fee : Nat, quantity : Nat] /\ asked'.quantity = n
    BY <1>1 DEF ChangeQuantity, HoldsInv, TypeOK
<1> HIDE DEF v
<1>4. HoldsInv'
    BY <1>2, <1>3, MutateKeepsHolds
<1>5. ASSUME ~Wrapped'
      PROVE  stored' = v
  <2>1. row'.fee = v.fee
      BY <1>2, <1>3, MutateWrites, RowIsKept DEF RInv
  <2>2. row'.quantity_available = v.quantityAvailable
      BY <1>1, <1>2, <1>3, <1>5, MutateWrites, CheckedIsAsked DEF Wrapped, FullTurn
  <2> QED
      BY <1>2, <1>3, <2>1, <2>2, ReadBackAsWritten
<1>6. row.exists /\ row'.exists /\ now' = now /\ CanChangeQuantity(stored, n)
    BY <1>3, MutateWrites DEF Mutate, ChangeQuantity
<1>7. row.exists' = row.exists
    BY <1>6, <1>4 DEF HoldsInv, TypeOK, RowType
<1> QED
    BY <1>4, <1>5, <1>6, <1>7, SamePromise DEF Promise!ChangeQuantity, Promise!Mutate, v

LEMMA ChangeFeeImplements ==
    ASSUME HoldsInv, RInv, RInv', NEW amount \in Amounts, ChangeFee(amount)
    PROVE  HoldsInv' /\ (Wrapped' \/ Promise!ChangeFee(amount))
<1> DEFINE v == AfterChangeFee(stored, amount)
<1>1. amount \in Nat
    BY AmountsAssumption DEF ChangeFee, validFee
<1>2. Fits(v) /\ AllCut(v) /\ v.fee = amount /\ v.quantityAvailable = row.quantity_available
    BY <1>1, StoredFits, StoredAmounts, AmountsFit DEF AfterChangeFee, AllCut, Fits, InventoryType
<1>3. Mutate(v) /\ asked' \in [fee : Nat, quantity : Nat] /\ asked'.fee = amount
    BY <1>1 DEF ChangeFee, HoldsInv, TypeOK
<1> HIDE DEF v
<1>4. HoldsInv'
    BY <1>2, <1>3, MutateKeepsHolds
<1>5. ASSUME ~Wrapped'
      PROVE  stored' = v
  <2>1. row'.quantity_available = v.quantityAvailable
      BY <1>2, <1>3, MutateWrites, RowIsKept DEF RInv
  <2>2. row'.fee = v.fee
      BY <1>1, <1>2, <1>3, <1>5, MutateWrites, CheckedIsAsked DEF Wrapped, FullTurn
  <2> QED
      BY <1>2, <1>3, <2>1, <2>2, ReadBackAsWritten
<1>6. row.exists /\ row'.exists /\ now' = now /\ validFee(amount)
    BY <1>3, MutateWrites DEF Mutate, ChangeFee
<1>7. row.exists' = row.exists
    BY <1>6, <1>4 DEF HoldsInv, TypeOK, RowType
<1> QED
    BY <1>4, <1>5, <1>6, <1>7, SamePromise DEF Promise!ChangeFee, Promise!Mutate, v

LEMMA RegisterImplements ==
    ASSUME HoldsInv, RInv', NEW quantity \in Amounts, NEW fee \in Amounts,
           NEW at \in ClockReadings, Register(quantity, fee, at)
    PROVE  HoldsInv' /\ (Wrapped' \/ Promise!Register(quantity, fee, at))
<1>1. quantity \in Nat /\ fee \in Nat
    BY AmountsAssumption DEF Register, validFee, validQuantity
<1>2. /\ row' = [fee |-> Int32(fee), quantity_available |-> Int32(quantity),
                 is_closed |-> FALSE, exists |-> TRUE]
      /\ Int32(fee) >= 0 /\ Int32(quantity) >= 0
      /\ asked' = [fee |-> fee, quantity |-> quantity]
      /\ now' = now /\ holdRows' = holdRows /\ holdRows = {} /\ row.exists = FALSE
    BY DEF Register, toUpsertInventoryParams, NewInventory, checks, HoldsInv, TypeOK, RowType
<1>3. HoldsInv'
    BY <1>1, <1>2, Narrowed DEF HoldsInv, TypeOK, RowType, holdChecks
<1>4. ASSUME ~Wrapped'
      PROVE  stored' = NewInventory(quantity, fee)
  <2>1. Int32(fee) = fee /\ Int32(quantity) = quantity
      BY <1>1, <1>2, <1>4, CheckedIsAsked DEF Wrapped, FullTurn
  <2> QED
      BY <1>2, <2>1 DEF stored, toInventory, NewInventory
<1> QED
    BY <1>2, <1>3, <1>4 DEF Register, Promise!Register, Promise!validFee, validFee,
                            Promise!validQuantity, validQuantity, Promise!NewInventory, NewInventory

\* What the promise does when an operation leaves the amounts alone
LEMMA OperateImplements ==
    ASSUME HoldsInv, RInv, NEW v, Fits(v), AllCut(v), Operate(v),
           v.fee = stored.fee, v.quantityAvailable = stored.quantityAvailable
    PROVE  HoldsInv' /\ Promise!Mutate(v)
<1>1. HoldsInv' /\ stored' = v
    BY OperateReadsBack
<1>2. row.exists /\ row'.exists /\ now' = now
    BY MutateWrites DEF Operate, Mutate
<1>3. row.exists' = row.exists
    BY <1>1, <1>2 DEF HoldsInv, TypeOK, RowType
<1> QED
    BY <1>1, <1>2, <1>3 DEF Promise!Mutate

LEMMA CloseImplements ==
    ASSUME HoldsInv, RInv, Close \/ Reopen
    PROVE  HoldsInv' /\ (Promise!Close \/ Promise!Reopen)
<1>1. Fits(stored) /\ AllCut(stored)
    BY StoredFits
<1>2. ASSUME NEW closed \in BOOLEAN
      PROVE  LET v == [stored EXCEPT !.isClosed = closed]
             IN  /\ Fits(v) /\ AllCut(v)
                 /\ v.fee = stored.fee /\ v.quantityAvailable = stored.quantityAvailable
    BY <1>1, AmountsFit DEF AllCut, Fits, InventoryType
<1>3. CASE Close
  <2>1. HoldsInv' /\ Promise!Mutate(AfterClose(stored))
      BY <1>2, <1>3, OperateImplements DEF Close, AfterClose
  <2> QED
      BY <1>3, <2>1 DEF Close, CanClose, AfterClose,
                        Promise!Close, Promise!CanClose, Promise!AfterClose
<1>4. CASE Reopen
  <2>1. HoldsInv' /\ Promise!Mutate(AfterReopen(stored))
      BY <1>2, <1>4, OperateImplements DEF Reopen, AfterReopen
  <2> QED
      BY <1>4, <2>1 DEF Reopen, CanReopen, AfterReopen,
                        Promise!Reopen, Promise!CanReopen, Promise!AfterReopen
<1> QED
    BY <1>3, <1>4

\* Book's expiry loses its digits on the way to the row, but not its time to run.
LEMMA HoldImplements ==
    ASSUME HoldsInv, RInv, NEW b \in Bookings, NEW at \in ClockReadings, at + TTL \in Times,
           Hold(b, at)
    PROVE  HoldsInv' /\ Promise!Hold(b, Truncated(at + TTL), at) /\ Truncated(at + TTL) \in Times
<1> DEFINE e == at + TTL
           v == AfterHold(stored, b, e)
           w == AfterHold(stored, b, Truncated(e))
           new == [bookingId |-> b, slotNo |-> vacantSlotNo(stored),
                   status |-> TemporaryHold, expiredAt |-> e]
<1>1. e \in Nat /\ at \in Nat /\ Truncated(e) \in Times
    BY TimesAssumption, TruncationAssumption DEF ClockReadings, Truncated
<1>2. Truncated(e) > at /\ Truncated(e) \in Nat
    BY <1>1, Cut, TTLAssumption
<1>3. Fits(stored) /\ AllCut(stored) /\ stored \in InventoryType
    BY StoredFits DEF Fits
<1>4. CanHold(stored, b, e, at) /\ CanHold(stored, b, Truncated(e), at) /\ Operate(v)
    BY <1>2 DEF Hold, CanHold
<1>5. Fits(v)
  <2>1. stored.quantityAvailable < Half
      BY StoredAmounts, WidthAssumption DEF RInv
  <2> QED
      BY <1>1, <1>3, <1>4, <2>1, HoldFits DEF CanHold
<1>6. /\ v = [stored EXCEPT !.holds = @ \cup {new}]
      /\ v.fee = stored.fee /\ v.quantityAvailable = stored.quantityAvailable
      /\ v.isClosed = stored.isClosed /\ v.holds = stored.holds \cup {new}
    BY <1>3 DEF AfterHold, InventoryType
<1>7. HoldsInv' /\ stored' = KeptInventory(v)
    BY <1>4, <1>5, MutateKeepsHolds DEF Operate, HoldsInv, TypeOK
<1>8. Kept(new) = [bookingId |-> b, slotNo |-> vacantSlotNo(stored),
                   status |-> TemporaryHold, expiredAt |-> Truncated(e)]
    BY <1>1, ExpiryRoundTrip DEF Kept, NoExpiry
<1>9. {Kept(h) : h \in v.holds} = stored.holds \cup {Kept(new)}
  <2>1. \A h \in stored.holds : Kept(h) = h
      BY <1>3, KeptIsSame DEF Fits, InventoryType, AllCut
  <2> HIDE DEF new, v
  <2> QED
      BY <1>6, <2>1
<1>10. Int32(v.fee) = stored.fee /\ Int32(v.quantityAvailable) = stored.quantityAvailable
    BY <1>6, StoredAmounts, RowIsKept DEF RInv
<1>11. KeptInventory(v) = [quantityAvailable |-> stored.quantityAvailable, fee |-> stored.fee,
                           isClosed |-> stored.isClosed, holds |-> stored.holds \cup {Kept(new)}]
  <2> HIDE DEF new, v
  <2> QED
      BY <1>6, <1>9, <1>10 DEF KeptInventory
<1>12. w = KeptInventory(v)
  <2>1. w = [stored EXCEPT !.holds = @ \cup {Kept(new)}]
      BY <1>8 DEF AfterHold
  <2> HIDE DEF new, v, w
  <2> QED
      BY <1>3, <1>11, <2>1 DEF InventoryType
<1>13. stored' = w
    BY <1>7, <1>12
<1> HIDE DEF v, new
<1>14. row.exists /\ row'.exists /\ now' = now
    BY <1>4, MutateWrites DEF Operate, Mutate
<1>15. row.exists' = row.exists
    BY <1>7, <1>14 DEF HoldsInv, TypeOK, RowType
<1>16. Promise!Mutate(w)
    BY <1>13, <1>14, <1>15 DEF Promise!Mutate
<1>17. Promise!Hold(b, Truncated(e), at)
    BY <1>4, <1>16, SamePromise DEF Promise!Hold
<1> QED
    BY <1>1, <1>7, <1>17

LEMMA PaymentImplements ==
    ASSUME HoldsInv, RInv, NEW b \in Bookings, StartPayment(b) \/ Confirm(b)
    PROVE  HoldsInv' /\ (Promise!StartPayment(b) \/ Promise!Confirm(b))
<1>1. Fits(stored) /\ AllCut(stored) /\ holdOf(stored, b) \in stored.holds
    BY StoredFits, HoldOfIsHeld DEF StartPayment, Confirm, CanStartPayment, CanConfirm
<1>2. ASSUME NEW status \in HoldStatus
      PROVE  LET v == WithStatus(stored, holdOf(stored, b), status)
             IN  /\ Fits(v) /\ AllCut(v)
                 /\ v.fee = stored.fee /\ v.quantityAvailable = stored.quantityAvailable
    BY <1>1, WithStatusFits DEF WithStatus, Fits, InventoryType
<1>3. CASE StartPayment(b)
  <2>1. HoldsInv' /\ Promise!Mutate(AfterStartPayment(stored, b))
      BY <1>2, <1>3, OperateImplements DEF StartPayment, AfterStartPayment, HoldStatus
  <2> QED
      BY <1>3, <2>1, SamePayments DEF StartPayment, Promise!StartPayment
<1>4. CASE Confirm(b)
  <2>1. HoldsInv' /\ Promise!Mutate(AfterConfirm(stored, b))
      BY <1>2, <1>4, OperateImplements DEF Confirm, AfterConfirm, HoldStatus
  <2> QED
      BY <1>4, <2>1, SamePayments DEF Confirm, Promise!Confirm
<1> QED
    BY <1>3, <1>4

LEMMA RemovalImplements ==
    ASSUME HoldsInv, RInv
    PROVE  /\ \A b \in Bookings : Release(b) => HoldsInv' /\ Promise!Release(b)
           /\ \A at \in ClockReadings : CollectExpired(at) => HoldsInv' /\ Promise!CollectExpired(at)
<1>1. Fits(stored) /\ AllCut(stored)
    BY StoredFits
<1>2. ASSUME NEW gone
      PROVE  LET v == [stored EXCEPT !.holds = @ \ gone]
             IN  /\ Fits(v) /\ AllCut(v)
                 /\ v.fee = stored.fee /\ v.quantityAvailable = stored.quantityAvailable
    BY <1>1, FewerHoldsFit DEF Fits, InventoryType
<1>3. ASSUME NEW b \in Bookings, Release(b)
      PROVE  HoldsInv' /\ Promise!Release(b)
  <2>1. HoldsInv' /\ Promise!Mutate(AfterRelease(stored, b))
      BY <1>2, <1>3, OperateImplements DEF Release, AfterRelease
  <2> QED
      BY <1>3, <2>1, SamePayments DEF Release, Promise!Release
<1>4. ASSUME NEW at \in ClockReadings, CollectExpired(at)
      PROVE  HoldsInv' /\ Promise!CollectExpired(at)
  <2>1. HoldsInv' /\ Promise!Mutate(AfterCollectExpired(stored, at))
      BY <1>2, <1>4, OperateImplements DEF CollectExpired, AfterCollectExpired
  <2> QED
      BY <1>4, <2>1, SamePromise DEF CollectExpired, Promise!CollectExpired
<1> QED
    BY <1>3, <1>4

LEMMA NextImplements ==
    ASSUME HoldsInv, RInv, RInv', [Next]_vars
    PROVE  /\ HoldsInv'
           /\ Wrapped' \/ Promise!Next \/ UNCHANGED <<now, row.exists, stored>>
<1> USE DEF Promise!Next, Promise!ClockReadings, ClockReadings
<1>1. CASE \E quantity, fee \in Amounts, at \in ClockReadings : Register(quantity, fee, at)
    BY <1>1, RegisterImplements
<1>2. CASE \E n \in Amounts : ChangeQuantity(n)
    BY <1>2, ChangeQuantityImplements
<1>3. CASE \E amount \in Amounts : ChangeFee(amount)
    BY <1>3, ChangeFeeImplements
<1>4. CASE Close \/ Reopen
    BY <1>4, CloseImplements
<1>5. CASE \E b \in Bookings, at \in {t \in ClockReadings : t + TTL \in Times} : Hold(b, at)
    BY <1>5, HoldImplements
<1>6. CASE \E b \in Bookings : StartPayment(b) \/ Confirm(b)
    BY <1>6, PaymentImplements
<1>7. CASE (\E b \in Bookings : Release(b)) \/ (\E at \in ClockReadings : CollectExpired(at))
    BY <1>7, RemovalImplements
<1>8. CASE Tick
  <2>1. UNCHANGED <<row, holdRows, asked>> /\ now' = now + 1 /\ now + 1 \in Times
      BY <1>8 DEF Tick
  <2>2. HoldsInv'
      BY <2>1 DEF HoldsInv, TypeOK, holdChecks
  <2>3. Promise!Tick
      BY <2>1 DEF Promise!Tick, stored
  <2> QED
      BY <2>2, <2>3
<1>9. CASE UNCHANGED vars
    BY <1>9 DEF vars, HoldsInv, TypeOK, holdChecks, stored
<1> QED
    BY <1>1, <1>2, <1>3, <1>4, <1>5, <1>6, <1>7, <1>8, <1>9 DEF Next

LEMMA InitHoldsInv == Init => HoldsInv /\ Promise!Init
<1> SUFFICES ASSUME Init
             PROVE  HoldsInv /\ Promise!Init
    OBVIOUS
<1>1. HoldsInv
    BY WidthAssumption, TimesAssumption
       DEF Init, HoldsInv, TypeOK, NoRow, RowType, Columns, holdChecks
<1>2. Promise!Init
    BY DEF Init, Promise!Init, Promise!NewInventory, stored, toInventory, NoRow
<1> QED
    BY <1>1, <1>2

LEMMA HoldsInvariant == Spec => []HoldsInv
<1>1. RInv /\ RInv' /\ HoldsInv /\ [Next]_vars => HoldsInv'
    BY NextImplements
<1> QED
    BY <1>1, InitHoldsInv, RowsInvariant, PTL DEF Spec

\* The rows and what the operator was told have their types: no statement is given
\* a number that its column can not hold.
THEOREM RowsAreTyped == Spec => []TypeOK
<1>1. HoldsInv => TypeOK
    BY DEF HoldsInv
<1> QED
    BY <1>1, HoldsInvariant, PTL

\* For every clock and whatever fraction of it a microsecond is: what the worker
\* lists by SQL, it has something to collect of, and it overlooks nothing for longer.
THEOREM WorkerListsWhatItCollects == Spec => []ListingAgreesWithCollecting
<1>1. ASSUME HoldsInv
      PROVE  ListingAgreesWithCollecting
  <2> SUFFICES ASSUME NEW at \in Times
               PROVE  /\ Listed(at) => ExpiredHolds(stored, at) # {}
                      /\ ExpiredHolds(stored, at - Micro) # {} => Listed(at)
      BY DEF ListingAgreesWithCollecting
  <2>1. /\ at \in Nat /\ Truncated(at) \in Nat /\ Truncated(at) <= at
        /\ at - Micro < Truncated(at) /\ toTimestamptz(at) = Truncated(at)
        /\ Micro \in Nat
      BY TimesAssumption, TTLAssumption, Cut DEF toTimestamptz, NoExpiry
  <2>2. \A r \in holdRows : /\ ReadBack(r).status = TemporaryHold <=> r.status = DBTemporaryHold
                            /\ ReadBack(r).expiredAt = r.expired_at
                            /\ r.expired_at \in Nat \cup {Null}
      BY <1>1, StatusIsRead DEF HoldsInv, TypeOK, HoldRowType, ReadBack, toTimePointer, Null, NoExpiry
  <2>3. ASSUME Listed(at)
        PROVE  ExpiredHolds(stored, at) # {}
    <3>1. PICK r \in holdRows : /\ r.status = DBTemporaryHold /\ r.expired_at # Null
                                /\ r.expired_at < toTimestamptz(at)
        BY <2>3 DEF Listed
    <3>2. ReadBack(r) \in ExpiredHolds(stored, at)
        BY <2>1, <2>2, <3>1, StoredHolds DEF ExpiredHolds, Null, NoExpiry
    <3> QED
        BY <3>2
  <2>4. ASSUME ExpiredHolds(stored, at - Micro) # {}
        PROVE  Listed(at)
    <3>1. PICK r \in holdRows : ReadBack(r) \in ExpiredHolds(stored, at - Micro)
        BY <2>4, StoredHolds DEF ExpiredHolds
    <3>2. /\ r.status = DBTemporaryHold /\ r.expired_at # Null
          /\ r.expired_at < toTimestamptz(at)
        BY <2>1, <2>2, <3>1 DEF ExpiredHolds, Null, NoExpiry
    <3> QED
        BY <3>2 DEF Listed
  <2> QED
      BY <2>3, <2>4
<1> QED
    BY <1>1, HoldsInvariant, PTL

\* Read back through the mapper, the rows do what the service promises of an
\* inventory, whatever the width of the columns and the resolution of the clock:
\* narrowing, truncating and rewriting only some columns lose nothing, except in
\* a step that leaves an amount of a full turn.
THEOREM RowsKeepThePromise == Spec => ImplementsInventory
<1> DEFINE Step == Wrapped' \/ Promise!Next
<1>1. HoldsInv /\ RInv /\ RInv' /\ [Next]_vars => [Step]_<<now, row.exists, stored>>
    BY NextImplements
<1> HIDE DEF Step
<1>2. Spec => [][Step]_<<now, row.exists, stored>>
    BY <1>1, HoldsInvariant, RowsInvariant, PTL DEF Spec
<1>3. Spec => Promise!Init
    BY InitHoldsInv DEF Spec
<1> QED
    BY <1>2, <1>3 DEF ImplementsInventory, Step

-----------------------------------------------------------------------------
(* The sum of the fees of a set of nights.  The library folds over the set in  *)
(* an order it chooses; what follows shows that there is such a sum and that   *)
(* any order gives the same.                                                   *)

Pick(s) == CHOOSE x \in s : TRUE

\* f sums w over the sets of D, taking out one element after the other.
Sums(f, w, D) ==
    \A s \in D : f[s] = IF s = {} THEN 0 ELSE w[Pick(s)] + f[s \ {Pick(s)}]

Small(S, n) == {s \in SUBSET S : Cardinality(s) <= n}

LEMMA WithoutOne ==
    ASSUME NEW S, IsFiniteSet(S), NEW s \in SUBSET S, NEW x \in s
    PROVE  /\ s \ {x} \in SUBSET S
           /\ Cardinality(s) \in Nat /\ Cardinality(s \ {x}) \in Nat
           /\ Cardinality(s \ {x}) = Cardinality(s) - 1
<1>1. IsFiniteSet(s)
    BY FS_Subset
<1>2. IsFiniteSet(s \ {x}) /\ Cardinality(s \ {x}) = Cardinality(s) - 1
    BY <1>1, FS_RemoveElement
<1> QED
    BY <1>1, <1>2, FS_CardinalityType

LEMMA PickIsIn ==
    ASSUME NEW s, s # {}
    PROVE  Pick(s) \in s
BY DEF Pick

LEMMA LargerSums ==
    ASSUME NEW S, IsFiniteSet(S), NEW w \in [S -> Nat], NEW n \in Nat,
           NEW f \in [Small(S, n) -> Nat], Sums(f, w, Small(S, n))
    PROVE  \E g \in [Small(S, n + 1) -> Nat] : Sums(g, w, Small(S, n + 1))
<1> DEFINE term(s) == IF s = {} THEN 0 ELSE w[Pick(s)] + f[s \ {Pick(s)}]
           g == [s \in Small(S, n + 1) |-> term(s)]
<1>1. ASSUME NEW s \in Small(S, n + 1), s # {}
      PROVE  s \ {Pick(s)} \in Small(S, n) /\ w[Pick(s)] \in Nat
    <2>1. Pick(s) \in s /\ s \in SUBSET S /\ Cardinality(s) <= n + 1
        BY <1>1, PickIsIn DEF Small
    <2>2. /\ s \ {Pick(s)} \in SUBSET S /\ Cardinality(s) \in Nat
          /\ Cardinality(s \ {Pick(s)}) = Cardinality(s) - 1
        BY <2>1, WithoutOne
    <2> QED
        BY <2>1, <2>2 DEF Small
<1>2. ASSUME NEW s \in Small(S, n + 1)
      PROVE  term(s) \in Nat
    <2>1. CASE s = {}
        BY <2>1
    <2>2. CASE s # {}
        <3>1. f[s \ {Pick(s)}] \in Nat /\ w[Pick(s)] \in Nat
            BY <1>1, <2>2
        <3> QED
            BY <2>2, <3>1
    <2> QED
        BY <2>1, <2>2
<1>3. g \in [Small(S, n + 1) -> Nat]
    <2> HIDE DEF term
    <2> QED
        BY <1>2
<1>4. \A s \in Small(S, n) : s \in Small(S, n + 1)
    <2>1. ASSUME NEW s \in Small(S, n)
          PROVE  s \in Small(S, n + 1)
        <3>1. s \in SUBSET S /\ Cardinality(s) <= n
            BY DEF Small
        <3>2. Cardinality(s) \in Nat
            BY <3>1, FS_Subset, FS_CardinalityType
        <3> QED
            BY <3>1, <3>2 DEF Small
    <2> QED
        BY <2>1
<1>5. \A s \in Small(S, n) : g[s] = f[s]
    BY <1>4 DEF Sums
<1>6. \A s \in Small(S, n + 1) : g[s] = IF s = {} THEN 0 ELSE w[Pick(s)] + g[s \ {Pick(s)}]
    <2>1. ASSUME NEW s \in Small(S, n + 1)
          PROVE  g[s] = IF s = {} THEN 0 ELSE w[Pick(s)] + g[s \ {Pick(s)}]
        <3>1. g[s] = term(s)
            BY <2>1
        <3>2. s # {} => g[s \ {Pick(s)}] = f[s \ {Pick(s)}]
            <4> HIDE DEF g
            <4> QED
                BY <1>1, <1>5
        <3> HIDE DEF g
        <3> QED
            BY <3>1, <3>2
    <2> HIDE DEF g
    <2> QED
        BY <2>1
<1> HIDE DEF g
<1> QED
    BY <1>3, <1>6 DEF Sums

LEMMA SumExists ==
    ASSUME NEW S, IsFiniteSet(S), NEW w \in [S -> Nat]
    PROVE  \E f \in [SUBSET S -> Nat] : Sums(f, w, SUBSET S)
<1> DEFINE Has(n) == \E f \in [Small(S, n) -> Nat] : Sums(f, w, Small(S, n))
           Lacks == {n \in Nat : ~Has(n)}
<1>1. Has(0)
    <2> DEFINE f == [s \in Small(S, 0) |-> 0]
    <2>1. ASSUME NEW s \in Small(S, 0)
          PROVE  s = {}
        <3>1. s \in SUBSET S /\ Cardinality(s) <= 0
            BY DEF Small
        <3>2. IsFiniteSet(s) /\ Cardinality(s) \in Nat
            BY <3>1, FS_Subset, FS_CardinalityType
        <3>3. Cardinality(s) = 0
            BY <3>1, <3>2
        <3> QED
            BY <3>2, <3>3, FS_EmptySet
    <2>2. f \in [Small(S, 0) -> Nat]
        OBVIOUS
    <2>3. Sums(f, w, Small(S, 0))
        BY <2>1 DEF Sums
    <2> QED
        BY <2>2, <2>3
<1>2. ASSUME NEW n \in Nat, Has(n)
      PROVE  Has(n + 1)
    BY <1>2, LargerSums
<1>3. Lacks = {}
    <2> SUFFICES ASSUME Lacks # {}
                 PROVE  FALSE
        OBVIOUS
    <2>1. PICK k : k = Min(Lacks)
        OBVIOUS
    <2>2. k \in Lacks /\ \A n \in Lacks : k <= n
        <3>1. Lacks \in SUBSET Nat /\ Lacks # {}
            OBVIOUS
        <3> HIDE DEF Lacks
        <3> QED
            BY <2>1, <3>1, NatMin
    <2> HIDE DEF Has
    <2>3. k \in Nat /\ ~Has(k)
        BY <2>2
    <2>4. k # 0
        BY <1>1, <2>3
    <2>5. PICK j \in Nat : k = j + 1
        <3>1. k - 1 \in Nat /\ k = (k - 1) + 1
            BY <2>3, <2>4
        <3> QED
            BY <3>1
    <2>6. j \notin Lacks
        <3>1. ~(k <= j)
            BY <2>5
        <3> QED
            BY <2>2, <3>1
    <2>7. Has(j)
        BY <2>6
    <2> QED
        BY <1>2, <2>3, <2>5, <2>7
<1>4. PICK n : n = Cardinality(S)
    OBVIOUS
<1>5. n \in Nat
    BY <1>4, FS_CardinalityType
<1>6. Small(S, n) = SUBSET S
    BY <1>4, FS_Subset DEF Small
<1>7. Has(n)
    <2> HIDE DEF Has
    <2> QED
        BY <1>3, <1>5
<1> QED
    BY <1>6, <1>7

\* The sum does not depend on which element is taken out first.
SumsInAnyOrder(f, w, S) ==
    /\ \A s \in SUBSET S : f[s] \in Nat
    /\ f[{}] = 0
    /\ \A s \in SUBSET S : \A x \in s : f[s] = w[x] + f[s \ {x}]

LEMMA AnyOrder ==
    ASSUME NEW S, IsFiniteSet(S), NEW w \in [S -> Nat], NEW f, Sums(f, w, SUBSET S)
    PROVE  SumsInAnyOrder(f, w, S)
<1> DEFINE Good(s) == f[s] \in Nat /\ \A x \in s : f[s] = w[x] + f[s \ {x}]
           Bad == {n \in Nat : \E s \in SUBSET S : Cardinality(s) = n /\ ~Good(s)}
<1>1. Bad = {}
    <2> SUFFICES ASSUME Bad # {}
                 PROVE  FALSE
        OBVIOUS
    <2>1. PICK k : k = Min(Bad)
        OBVIOUS
    <2>2. k \in Bad /\ \A n \in Bad : k <= n
        <3>1. Bad \in SUBSET Nat /\ Bad # {}
            OBVIOUS
        <3> HIDE DEF Bad
        <3> QED
            BY <2>1, <3>1, NatMin
    <2>3. PICK s \in SUBSET S : Cardinality(s) = k /\ ~Good(s)
        BY <2>2
    <2>4. ASSUME NEW x \in s
          PROVE  s \ {x} \in SUBSET S /\ Good(s \ {x})
        <3> HIDE DEF Good
        <3>1. /\ s \ {x} \in SUBSET S /\ Cardinality(s) \in Nat
              /\ Cardinality(s \ {x}) \in Nat
              /\ Cardinality(s \ {x}) = Cardinality(s) - 1
            BY WithoutOne
        <3>2. ~(k <= Cardinality(s \ {x}))
            BY <2>3, <3>1
        <3>3. Cardinality(s \ {x}) \notin Bad
            BY <2>2, <3>2
        <3> QED
            BY <3>1, <3>3
    <2>5. s # {}
        <3>1. s = {} => f[s] = 0
            BY DEF Sums
        <3> QED
            BY <2>3, <3>1
    <2>6. PICK y \in s : y = Pick(s)
        BY <2>5, PickIsIn
    <2>7. f[s] = w[y] + f[s \ {y}]
        BY <2>5, <2>6 DEF Sums
    <2>8. f[s \ {y}] \in Nat /\ w[y] \in Nat
        BY <2>4
    <2>9. f[s] \in Nat
        BY <2>7, <2>8
    <2>10. ASSUME NEW x \in s
           PROVE  f[s] = w[x] + f[s \ {x}]
        <3>1. CASE x = y
            BY <2>7, <3>1
        <3>2. CASE x # y
            <4>1. PICK t : t = (s \ {y}) \ {x}
                OBVIOUS
            <4>2. t = (s \ {x}) \ {y}
                BY <4>1
            <4>3. f[s \ {y}] = w[x] + f[t]
                BY <2>4, <3>2, <4>1
            <4>4. f[s \ {x}] = w[y] + f[t]
                BY <2>4, <3>2, <4>2
            <4>5. x \in s \ {y} /\ s \ {y} \in SUBSET S
                BY <2>4, <3>2
            <4>6. w[x] \in Nat /\ f[s \ {x}] \in Nat
                BY <2>4
            <4>7. f[t] \in Nat
                <5>1. t \in SUBSET S
                    BY <4>1
                <5>2. Cardinality(s \ {y}) = k - 1 /\ k \in Nat
                    BY <2>3, WithoutOne
                <5>3. PICK u \in SUBSET S : u = s \ {y}
                    BY <4>5
                <5>4. /\ Cardinality(u) \in Nat /\ Cardinality(u \ {x}) \in Nat
                      /\ Cardinality(u \ {x}) = Cardinality(u) - 1
                    <6>1. x \in u
                        BY <4>5, <5>3
                    <6> QED
                        BY <6>1, WithoutOne
                <5>5. Cardinality(t) \in Nat /\ ~(k <= Cardinality(t))
                    BY <4>1, <5>2, <5>3, <5>4
                <5>6. Cardinality(t) \notin Bad
                    BY <2>2, <5>5
                <5> QED
                    BY <5>1, <5>5, <5>6
            <4> QED
                BY <2>7, <2>8, <4>3, <4>4, <4>6, <4>7
        <3> QED
            BY <3>1, <3>2
    <2> QED
        BY <2>3, <2>9, <2>10
<1>2. \A s \in SUBSET S : Good(s)
    <2>1. ASSUME NEW s \in SUBSET S
          PROVE  Good(s)
        <3> HIDE DEF Good
        <3>1. Cardinality(s) \in Nat
            BY FS_Subset, FS_CardinalityType
        <3>2. Cardinality(s) \notin Bad
            BY <1>1
        <3> QED
            BY <3>1, <3>2
    <2> HIDE DEF Good
    <2> QED
        BY <2>1
<1>3. f[{}] = 0
    BY DEF Sums
<1> QED
    BY <1>2, <1>3 DEF SumsInAnyOrder

\* The recursion of Book, from a night to the end of the stay, has that sum too.
ByNight(sum, w, in, out) ==
    sum = [d \in in .. out |-> IF d = out THEN 0 ELSE w[d] + sum[d + 1]]

LEMMA SumByNight ==
    ASSUME NEW in \in Int, NEW out \in Int, in <= out, NEW w, NEW f, NEW sum,
           SumsInAnyOrder(f, w, in .. out - 1), ByNight(sum, w, in, out)
    PROVE  sum[in] = f[in .. out - 1]
<1> DEFINE S == in .. out - 1
           Wrong == {n \in Nat : n <= out - in /\ sum[out - n] # f[out - n .. out - 1]}
<1>2. f[{}] = 0 /\ \A s \in SUBSET S : \A x \in s : f[s] = w[x] + f[s \ {x}]
    BY DEF SumsInAnyOrder
<1>3. Wrong = {}
    <2> SUFFICES ASSUME Wrong # {}
                 PROVE  FALSE
        OBVIOUS
    <2>1. PICK k : k = Min(Wrong)
        OBVIOUS
    <2>2. k \in Wrong /\ \A n \in Wrong : k <= n
        <3>1. Wrong \in SUBSET Nat /\ Wrong # {}
            OBVIOUS
        <3> HIDE DEF Wrong
        <3> QED
            BY <2>1, <3>1, NatMin
    <2>3. k \in Nat /\ k <= out - in /\ sum[out - k] # f[out - k .. out - 1]
        BY <2>2
    <2>4. PICK d \in in .. out : d = out - k
        BY <2>3
    <2>5. sum[d] = IF d = out THEN 0 ELSE w[d] + sum[d + 1]
        BY DEF ByNight
    <2>6. d # out
        <3>1. ASSUME d = out
              PROVE  d .. out - 1 = {}
            BY <3>1
        <3> QED
            BY <1>2, <2>3, <2>4, <2>5, <3>1
    <2>7. k - 1 \in Nat /\ out - (k - 1) = d + 1 /\ k - 1 <= out - in /\ ~(k <= k - 1)
        BY <2>3, <2>4, <2>6
    <2>8. sum[d + 1] = f[d + 1 .. out - 1]
        <3>1. k - 1 \notin Wrong
            <4> HIDE DEF Wrong
            <4> QED
                BY <2>2, <2>7
        <3> QED
            BY <2>7, <3>1
    <2>9. /\ d .. out - 1 \in SUBSET S /\ d \in d .. out - 1
          /\ (d .. out - 1) \ {d} = d + 1 .. out - 1
        BY <2>6
    <2>10. f[d .. out - 1] = w[d] + f[d + 1 .. out - 1]
        <3>1. PICK s : s = d .. out - 1
            OBVIOUS
        <3>2. s \in SUBSET S /\ d \in s /\ s \ {d} = d + 1 .. out - 1
            BY <2>9, <3>1
        <3>3. f[s] = w[d] + f[s \ {d}]
            <4> HIDE DEF S
            <4> QED
                BY <1>2, <3>2
        <3> QED
            BY <3>1, <3>2, <3>3
    <2> QED
        BY <2>3, <2>4, <2>5, <2>6, <2>8, <2>10
<1>4. PICK n \in Nat : n = out - in
    OBVIOUS
<1>5. n \notin Wrong
    <2> HIDE DEF Wrong
    <2> QED
        BY <1>3
<1>6. n <= out - in /\ out - n = in
    BY <1>4
<1> QED
    BY <1>5, <1>6

\* Such a recursion exists.
LEMMA SumByNightExists ==
    ASSUME NEW in \in Int, NEW out \in Int, in <= out, NEW w \in [in .. out - 1 -> Nat]
    PROVE  \E sum : ByNight(sum, w, in, out)
<1> DEFINE S == in .. out - 1
<1>1. IsFiniteSet(S)
    BY FS_Interval
<1>2. PICK f \in [SUBSET S -> Nat] : Sums(f, w, SUBSET S)
    <2> HIDE DEF S
    <2>1. w \in [S -> Nat]
        BY DEF S
    <2> QED
        BY <1>1, <2>1, SumExists
<1>3. f[{}] = 0 /\ \A s \in SUBSET S : \A x \in s : f[s] = w[x] + f[s \ {x}]
    <2>1. w \in [S -> Nat]
        OBVIOUS
    <2> HIDE DEF S
    <2>2. SumsInAnyOrder(f, w, S)
        BY <1>1, <1>2, <2>1, AnyOrder
    <2> QED
        BY <2>2 DEF SumsInAnyOrder
<1> DEFINE sum == [d \in in .. out |-> f[d .. out - 1]]
<1>4. ASSUME NEW d \in in .. out
      PROVE  sum[d] = IF d = out THEN 0 ELSE w[d] + sum[d + 1]
    <2>1. CASE d = out
        <3>1. d .. out - 1 = {}
            BY <2>1
        <3> QED
            BY <1>3, <2>1, <3>1
    <2>2. CASE d # out
        <3>1. /\ d .. out - 1 \in SUBSET S /\ d \in d .. out - 1
              /\ (d .. out - 1) \ {d} = d + 1 .. out - 1
            <4>1. d .. out - 1 \in SUBSET S /\ d \in d .. out - 1
                BY <2>2
            <4>2. (d .. out - 1) \ {d} = d + 1 .. out - 1
                BY <2>2
            <4> QED
                BY <4>1, <4>2
        <3>2. f[d .. out - 1] = w[d] + f[d + 1 .. out - 1]
            <4>1. PICK s : s = d .. out - 1
                OBVIOUS
            <4>2. s \in SUBSET S /\ d \in s /\ s \ {d} = d + 1 .. out - 1
                BY <3>1, <4>1
            <4>3. f[s] = w[d] + f[s \ {d}]
                <5> HIDE DEF S
                <5> QED
                    BY <1>3, <4>2
            <4> QED
                BY <4>1, <4>2, <4>3
        <3>3. d + 1 \in in .. out
            BY <2>2
        <3>4. sum[d] = f[d .. out - 1] /\ sum[d + 1] = f[d + 1 .. out - 1]
            BY <3>3
        <3> QED
            BY <2>2, <3>2, <3>4
    <2> QED
        BY <2>1, <2>2
<1>5. \A d \in in .. out : sum[d] = IF d = out THEN 0 ELSE w[d] + sum[d + 1]
    <2> HIDE DEF sum
    <2> QED
        BY <1>4
<1>6. sum = [d \in in .. out |-> IF d = out THEN 0 ELSE w[d] + sum[d + 1]]
    <2>1. sum = [d \in in .. out |-> sum[d]]
        OBVIOUS
    <2> HIDE DEF sum
    <2> QED
        BY <1>5, <2>1
<1> QED
    BY <1>6 DEF ByNight

-----------------------------------------------------------------------------
(* The search over these rows *)

Night(rt, d) == inventories[rt][d]

SearchInv ==
    /\ inventories = [rt \in RoomTypes |-> inventories[rt]]
    /\ \A rt \in RoomTypes : inventories[rt] = [d \in Dates |-> inventories[rt][d]]
    /\ \A rt \in RoomTypes, d \in Dates :
          HasRow(rt, d) => WellFormed(Night(rt, d)) /\ Night(rt, d).fee < Half

LEMMA SearchInitInv == SearchInit => SearchInv
BY DEF SearchInit, SearchInv, HasRow, NoNight, NewInventory

\* The row of one night is written and the others are left alone.
LEMMA OneNight ==
    ASSUME SearchInv, NEW rt \in RoomTypes, NEW d \in Dates, NEW v,
           WellFormed(v), v.fee < Half, Put(rt, d, v)
    PROVE  SearchInv'
<1>1. inventories' = [inventories EXCEPT ![rt][d] = v]
    BY DEF Put
<1>2. /\ inventories' = [s \in RoomTypes |-> inventories'[s]]
      /\ \A s \in RoomTypes : inventories'[s] = [e \in Dates |-> inventories'[s][e]]
    BY <1>1 DEF SearchInv
<1>3. ASSUME NEW s \in RoomTypes, NEW e \in Dates
      PROVE  inventories'[s][e] = IF s = rt /\ e = d THEN v ELSE inventories[s][e]
    BY <1>1 DEF SearchInv
<1>4. ASSUME NEW s \in RoomTypes, NEW e \in Dates, HasRow(s, e)'
      PROVE  WellFormed(inventories'[s][e]) /\ inventories'[s][e].fee < Half
    <2>1. CASE s = rt /\ e = d
        BY <1>3, <2>1
    <2>2. CASE ~(s = rt /\ e = d)
        <3>1. inventories'[s][e] = inventories[s][e]
            BY <1>3, <2>2
        <3>2. HasRow(s, e)
            BY <1>4, <3>1 DEF HasRow
        <3> QED
            BY <3>1, <3>2 DEF SearchInv, Night
    <2> QED
        BY <2>1, <2>2
<1> QED
    BY <1>2, <1>4 DEF SearchInv, Night

LEMMA NewInventoryWellFormed ==
    ASSUME NEW q \in Nat, NEW f \in Nat
    PROVE  WellFormed(NewInventory(q, f)) /\ NewInventory(q, f).fee = f
BY DEF NewInventory, WellFormed, InventoryType, SlotsInRange, UsedSlots, Distinct, OnePerBooking,
       ExpiryMatches

\* The fields that carry the rules do not change.
LEMMA OtherFieldsKeepWellFormed ==
    ASSUME NEW v, WellFormed(v), NEW u \in InventoryType,
           u.holds = v.holds, u.quantityAvailable = v.quantityAvailable
    PROVE  WellFormed(u)
BY DEF WellFormed, SlotsInRange, UsedSlots, Distinct, OnePerBooking, ExpiryMatches

LEMMA SearchNextInv == SearchInv /\ [SearchNext]_searchVars => SearchInv'
<1> SUFFICES ASSUME SearchInv, [SearchNext]_searchVars
             PROVE  SearchInv'
    OBVIOUS
<1>1. CASE UNCHANGED searchVars
    BY <1>1 DEF searchVars, SearchInv, HasRow, Night
<1>2. ASSUME NEW rt \in RoomTypes, NEW d \in Dates, RegisterNight(rt, d)
      PROVE  SearchInv'
    <2>1. PICK q \in Quantities, f \in Fees :
             q >= 0 /\ f >= 0 /\ Put(rt, d, NewInventory(q, f))
        BY <1>2 DEF RegisterNight, validQuantity, validFee
    <2>2. q \in Nat /\ f \in Nat /\ f < Half
        BY <2>1, ColumnsAssumption, OperatorAssumption
    <2> QED
        BY <2>1, <2>2, NewInventoryWellFormed, OneNight
<1>3. ASSUME NEW rt \in RoomTypes, NEW d \in Dates, HasRow(rt, d)
      PROVE  /\ WellFormed(Night(rt, d)) /\ Night(rt, d) \in InventoryType
             /\ Night(rt, d).fee < Half
    BY <1>3 DEF SearchInv, WellFormed
<1>4. ASSUME NEW rt \in RoomTypes, NEW d \in Dates, OperateNight(rt, d)
      PROVE  SearchInv'
    <2>1. PICK v : v = Night(rt, d)
        OBVIOUS
    <2>2. WellFormed(v) /\ v \in InventoryType /\ v.fee < Half
        BY <1>3, <1>4, <2>1 DEF OperateNight
    <2>3. CASE \E q \in Quantities :
                  CanChangeQuantity(v, q) /\ Put(rt, d, AfterChangeQuantity(v, q))
        <3>1. PICK q \in Quantities :
                 CanChangeQuantity(v, q) /\ Put(rt, d, AfterChangeQuantity(v, q))
            BY <2>3
        <3>2. q \in Int
            BY OperatorAssumption
        <3>3. PICK u : u = AfterChangeQuantity(v, q)
            OBVIOUS
        <3>4. WellFormed(u)
            BY <2>2, <3>1, <3>2, <3>3, ChangeQuantityKeepsWellFormed
        <3>5. u.fee = v.fee
            BY <2>2, <3>3 DEF AfterChangeQuantity, InventoryType
        <3> QED
            BY <2>2, <3>1, <3>3, <3>4, <3>5, OneNight
    <2>4. CASE \E f \in Fees : validFee(f) /\ Put(rt, d, AfterChangeFee(v, f))
        <3>1. PICK f \in Fees : f >= 0 /\ Put(rt, d, AfterChangeFee(v, f))
            BY <2>4 DEF validFee
        <3>2. f \in Nat /\ f < Half
            BY <3>1, ColumnsAssumption, OperatorAssumption
        <3>3. PICK u : u = AfterChangeFee(v, f)
            OBVIOUS
        <3>4. /\ u \in InventoryType /\ u.holds = v.holds
              /\ u.quantityAvailable = v.quantityAvailable /\ u.fee = f
            BY <2>2, <3>2, <3>3 DEF AfterChangeFee, InventoryType
        <3>5. WellFormed(u)
            BY <2>2, <3>4, OtherFieldsKeepWellFormed
        <3> QED
            BY <3>1, <3>2, <3>3, <3>4, <3>5, OneNight
    <2>5. ASSUME NEW closed \in BOOLEAN, Put(rt, d, [v EXCEPT !.isClosed = closed])
          PROVE  SearchInv'
        <3>1. PICK u : u = [v EXCEPT !.isClosed = closed]
            OBVIOUS
        <3>2. /\ u \in InventoryType /\ u.holds = v.holds
              /\ u.quantityAvailable = v.quantityAvailable /\ u.fee = v.fee
            BY <2>2, <3>1 DEF InventoryType
        <3>3. WellFormed(u)
            BY <2>2, <3>2, OtherFieldsKeepWellFormed
        <3> QED
            BY <2>2, <2>5, <3>1, <3>2, <3>3, OneNight
    <2>6. \/ \E q \in Quantities :
                CanChangeQuantity(v, q) /\ Put(rt, d, AfterChangeQuantity(v, q))
          \/ \E f \in Fees : validFee(f) /\ Put(rt, d, AfterChangeFee(v, f))
          \/ Put(rt, d, [v EXCEPT !.isClosed = TRUE])
          \/ Put(rt, d, [v EXCEPT !.isClosed = FALSE])
        BY <1>4, <2>1 DEF OperateNight, AfterClose, AfterReopen, Night
    <2> QED
        BY <2>3, <2>4, <2>5, <2>6
<1>5. ASSUME NEW rt \in RoomTypes, NEW d \in Dates, NEW b \in Bookings, HoldNight(rt, d, b)
      PROVE  SearchInv'
    <2>1. PICK v : v = Night(rt, d)
        OBVIOUS
    <2>2. WellFormed(v) /\ v \in InventoryType /\ v.fee < Half
        BY <1>3, <1>5, <2>1 DEF HoldNight
    <2>3. CanHold(v, b, 1, 0) /\ Put(rt, d, AfterHold(v, b, 1))
        BY <1>5, <2>1 DEF HoldNight, Night
    <2>4. PICK u : u = AfterHold(v, b, 1)
        OBVIOUS
    <2>5. WellFormed(u)
        BY <2>2, <2>3, <2>4, HoldKeepsWellFormed
    <2>6. u.fee = v.fee
        BY <2>2, <2>4 DEF AfterHold, InventoryType
    <2> QED
        BY <2>2, <2>3, <2>4, <2>5, <2>6, OneNight
<1>6. ASSUME NEW rt \in RoomTypes, NEW d \in Dates, NEW b \in Bookings, ReleaseNight(rt, d, b)
      PROVE  SearchInv'
    <2>1. PICK v : v = Night(rt, d)
        OBVIOUS
    <2>2. WellFormed(v) /\ v \in InventoryType /\ v.fee < Half
        BY <1>3, <1>6, <2>1 DEF ReleaseNight
    <2>3. PICK gone : Put(rt, d, [v EXCEPT !.holds = @ \ gone])
        BY <1>6, <2>1 DEF ReleaseNight, AfterRelease, Night
    <2>4. PICK u : u = [v EXCEPT !.holds = @ \ gone]
        OBVIOUS
    <2>5. WellFormed(u)
        BY <2>2, <2>4, FewerHoldsKeepsWellFormed
    <2>6. u.fee = v.fee
        BY <2>2, <2>4 DEF InventoryType
    <2> QED
        BY <2>2, <2>3, <2>4, <2>5, <2>6, OneNight
<1> QED
    BY <1>1, <1>2, <1>4, <1>5, <1>6 DEF SearchNext

LEMMA SearchInvariant == SearchSpec => []SearchInv
<1>1. SearchInv /\ [SearchNext]_searchVars => SearchInv'
    BY SearchNextInv
<1> QED
    BY <1>1, SearchInitInv, PTL DEF SearchSpec

\* SUM(av.fee), which the library folds over the nights, is such a sum.
LEMMA LibrarySum ==
    ASSUME NEW rt, NEW c, IsFiniteSet(available(rt, c)),
           NEW w \in [available(rt, c) -> Nat],
           \A d \in available(rt, c) : w[d] = inventories[rt][d].fee
    PROVE  \E f : /\ Sums(f, w, SUBSET available(rt, c))
                  /\ Fee(rt, c) = f[available(rt, c)]
<1> DEFINE S == available(rt, c)
           recursion(i) == [s \in SUBSET S |->
                               IF s = {} THEN 0 ELSE inventories[rt][Pick(s)].fee + i[s \ {Pick(s)}]]
<1>1. PICK f \in [SUBSET S -> Nat] : Sums(f, w, SUBSET S)
    BY SumExists
<1>2. ASSUME NEW s \in SUBSET S, s # {}
      PROVE  inventories[rt][Pick(s)].fee = w[Pick(s)]
    BY <1>2, PickIsIn
<1>3. f = recursion(f)
    <2>1. \A s \in SUBSET S :
             f[s] = IF s = {} THEN 0 ELSE inventories[rt][Pick(s)].fee + f[s \ {Pick(s)}]
        BY <1>1, <1>2 DEF Sums
    <2> HIDE DEF S
    <2> QED
        BY <2>1
<1>4. PICK iter : iter = CHOOSE i : i = recursion(i)
    OBVIOUS
<1>5. iter = recursion(iter)
    <2> HIDE DEF recursion
    <2> QED
        BY <1>3, <1>4
<1>6. Sums(iter, w, SUBSET S)
    <2>1. \A s \in SUBSET S :
             iter[s] = IF s = {} THEN 0 ELSE inventories[rt][Pick(s)].fee + iter[s \ {Pick(s)}]
        BY <1>5
    <2> QED
        BY <1>2, <2>1 DEF Sums
<1>7. Fee(rt, c) = iter[S]
    BY <1>4 DEF Fee, MapThenSumSet, MapThenFoldSet, Pick
<1> QED
    BY <1>6, <1>7

\* The query's count and Book's search for a slot decide alike.
LEMMA NightFacts ==
    ASSUME SearchInv, NEW rt \in RoomTypes, NEW d \in Dates,
           HasRow(rt, d)
    PROVE  /\ inventories[rt][d].fee \in Nat
           /\ CanHold(inventories[rt][d], Guest, 1, 0)
                <=> /\ ~inventories[rt][d].isClosed
                    /\ inventories[rt][d].quantityAvailable
                         - HeldCount(inventories[rt][d]) > 0
<1> PICK v : v = inventories[rt][d]
    OBVIOUS
<1>1. WellFormed(v)
    BY DEF SearchInv, Night
<1>2. v \in InventoryType
    BY <1>1 DEF WellFormed
<1>3. Available(v) > 0 <=> VacantSlots(v) # {}
    BY <1>1, CountingAgreesWithNumbering
<1>4. {h \in v.holds : h.bookingId = Guest} = {}
    BY <1>2, GuestAssumption DEF InventoryType, HoldType
<1>5. CanHold(v, Guest, 1, 0) <=> ~v.isClosed /\ VacantSlots(v) # {}
    BY <1>4 DEF CanHold, HasHold, HoldsOf
<1>6. Available(v) > 0 <=> v.quantityAvailable - HeldCount(v) > 0
    BY DEF Available, HeldCount
<1>7. v.fee \in Nat
    BY <1>2 DEF InventoryType
<1> QED
    BY <1>3, <1>5, <1>6, <1>7

LEMMA CriteriaFacts ==
    ASSUME NEW c \in Asked, validCriteria(c)
    PROVE  /\ c.checkin \in Nat /\ c.checkout \in Nat /\ c.checkin < c.checkout
           /\ c.guests \in Nat \ {0} /\ c.maxFee \in Int
           /\ IsFiniteSet(c.checkin .. c.checkout - 1)
           /\ Cardinality(c.checkin .. c.checkout - 1) = c.checkout - c.checkin
<1>1. /\ c.checkin \in Nat /\ c.checkout \in Nat /\ c.checkin < c.checkout
      /\ c.guests \in Nat \ {0} /\ c.maxFee \in Int
    <2>1. c \in Criteria /\ Dates \subseteq Nat
        BY AskedAssumption, DatesAssumption
    <2>2. c.checkin \in Nat /\ c.checkout \in Nat /\ c.guests \in Int /\ c.maxFee \in Int
        BY <2>1 DEF Criteria
    <2> QED
        BY <2>2 DEF validCriteria
<1>2. PICK a \in Int, b \in Int : a = c.checkin /\ b = c.checkout - 1 /\ ~(a > b)
    BY <1>1
<1>3. IsFiniteSet(a .. b) /\ Cardinality(a .. b) = b - a + 1
    BY <1>2, FS_Interval
<1> QED
    BY <1>1, <1>2, <1>3

\* Search counts nights, Book goes through them: both find a stay whole or neither.
LEMMA EveryNightIsHoldable ==
    ASSUME SearchInv, NEW c \in Asked, validCriteria(c), NEW rt \in RoomTypes
    PROVE  /\ EveryNight(rt, c) <=> CanHoldStay(rt, c)
           /\ EveryNight(rt, c) =>
                 /\ available(rt, c) = c.checkin .. c.checkout - 1
                 /\ \A d \in c.checkin .. c.checkout - 1 : inventories[rt][d].fee \in Nat
<1> PICK stay, nights : stay = c.checkin .. c.checkout - 1 /\ nights = available(rt, c)
    OBVIOUS
<1>1. IsFiniteSet(stay) /\ Cardinality(stay) = c.checkout - c.checkin
    BY CriteriaFacts
<1>2. nights = {d \in stay : HasRow(rt, d) /\ CanHold(inventories[rt][d], Guest, 1, 0)}
    <2>1. \A d \in Nights(c) : d \in stay /\ d \in Dates
        BY CriteriaFacts, DatesAssumption DEF Nights
    <2>2. \A d \in stay : d \in Dates => d \in Nights(c)
        BY CriteriaFacts, DatesAssumption DEF Nights
    <2>3. \A d \in Dates : HasRow(rt, d) =>
             (CanHold(inventories[rt][d], Guest, 1, 0)
                <=> /\ ~inventories[rt][d].isClosed
                    /\ inventories[rt][d].quantityAvailable
                         - HeldCount(inventories[rt][d]) > 0)
        BY NightFacts
    <2>4. \A d : HasRow(rt, d) => d \in Dates
        BY DEF HasRow
    <2> QED
        BY <2>1, <2>2, <2>3, <2>4 DEF available
<1>3. nights \in SUBSET stay
    BY <1>2
<1>4. EveryNight(rt, c) <=> nights = stay
    <2>1. EveryNight(rt, c) <=> Cardinality(nights) = Cardinality(stay)
        BY <1>1 DEF EveryNight
    <2> QED
        BY <1>1, <1>3, <2>1, FS_Subset
<1>5. CanHoldStay(rt, c) <=> nights = stay
    BY <1>2 DEF CanHoldStay
<1>6. nights = stay => \A d \in stay : inventories[rt][d].fee \in Nat
    <2>1. \A d \in nights : d \in Dates /\ HasRow(rt, d)
        BY <1>2 DEF HasRow
    <2> QED
        BY <2>1, NightFacts
<1> QED
    BY <1>4, <1>5, <1>6

\* The sum the search shows is the price that Book adds up.
LEMMA FeeIsPrice ==
    ASSUME SearchInv, NEW c \in Asked, validCriteria(c), NEW rt \in RoomTypes,
           EveryNight(rt, c)
    PROVE  Fee(rt, c) = Price(rt, c) /\ Fee(rt, c) \in Nat
<1> PICK in, out, S, nights : /\ in = c.checkin /\ out = c.checkout
                              /\ S = in .. out - 1 /\ nights = inventories[rt]
    OBVIOUS
<1>1. in \in Int /\ out \in Int /\ in <= out /\ IsFiniteSet(S)
    BY CriteriaFacts
<1>2. available(rt, c) = S /\ \A d \in S : nights[d].fee \in Nat
    BY EveryNightIsHoldable
<1>3. PICK w : w = [d \in S |-> nights[d].fee]
    OBVIOUS
<1>4. w \in [S -> Nat] /\ \A d \in S : w[d] = nights[d].fee
    BY <1>2, <1>3
<1>5. PICK f : Sums(f, w, SUBSET S) /\ Fee(rt, c) = f[S]
    <2>1. PICK av : av = available(rt, c)
        OBVIOUS
    <2>2. /\ IsFiniteSet(available(rt, c)) /\ w \in [available(rt, c) -> Nat]
          /\ \A d \in available(rt, c) : w[d] = inventories[rt][d].fee
        <3>1. av = S
            BY <1>2, <2>1
        <3>2. IsFiniteSet(av) /\ w \in [av -> Nat] /\ \A d \in av : w[d] = inventories[rt][d].fee
            BY <1>1, <1>4, <3>1
        <3> QED
            BY <2>1, <3>2
    <2>3. \E f : /\ Sums(f, w, SUBSET available(rt, c))
                 /\ Fee(rt, c) = f[available(rt, c)]
        BY <2>2, LibrarySum, Zenon
    <2> QED
        BY <1>2, <2>3
<1>6. Fee(rt, c) = f[S]
    BY <1>5
<1>7. SumsInAnyOrder(f, w, S)
    BY <1>1, <1>4, <1>5, AnyOrder
<1> DEFINE night(sum) == [d \in in .. out |-> IF d = out THEN 0 ELSE nights[d].fee + sum[d + 1]]
<1>8. ASSUME NEW sum
      PROVE  sum = night(sum) <=> ByNight(sum, w, in, out)
    <2> DEFINE here(d) == IF d = out THEN 0 ELSE nights[d].fee + sum[d + 1]
               there(d) == IF d = out THEN 0 ELSE w[d] + sum[d + 1]
    <2>1. ASSUME NEW d \in in .. out
          PROVE  here(d) = there(d)
        <3>1. d # out => d \in S
            BY <1>1
        <3> QED
            BY <1>4, <3>1
    <2> HIDE DEF here, there
    <2>2. [d \in in .. out |-> here(d)] = [d \in in .. out |-> there(d)]
        BY <2>1, Zenon
    <2>3. night(sum) = [d \in in .. out |-> there(d)]
        BY <2>2 DEF here
    <2> HIDE DEF night
    <2> QED
        BY <2>3 DEF ByNight, there
<1>9. PICK p : ByNight(p, w, in, out)
    <2>1. w \in [in .. out - 1 -> Nat]
        BY <1>4
    <2> QED
        BY <1>1, <2>1, SumByNightExists
<1>10. PICK sum : sum = CHOOSE s : s = night(s)
    OBVIOUS
<1>11. ByNight(sum, w, in, out)
    <2> HIDE DEF night
    <2>1. sum = night(sum)
        BY <1>8, <1>9, <1>10
    <2> QED
        BY <1>8, <2>1
<1>12. sum[in] = f[S]
    <2>1. SumsInAnyOrder(f, w, in .. out - 1)
        BY <1>7
    <2>2. sum[in] = f[in .. out - 1]
        BY <1>1, <1>11, <2>1, SumByNight
    <2> QED
        BY <2>2
<1>13. Price(rt, c) = sum[in]
    BY <1>10 DEF Price
<1>14. f[S] \in Nat
    BY <1>7 DEF SumsInAnyOrder
<1> QED
    BY <1>6, <1>12, <1>13, <1>14

\* The numbers of the form that fit a column reach the query as they are.
LEMMA Reaches ==
    ASSUME NEW n \in Columns
    PROVE  Int32(n) = n
<1>1. Half \in Nat \ {0} /\ n \in Int /\ -Half <= n /\ n < Half
    BY WidthAssumption DEF Columns
<1>2. PICK m, x : m = 2 * Half /\ x = n + Half
    OBVIOUS
<1>3. m \in Nat \ {0} /\ x \in 0 .. m - 1
    BY <1>1, <1>2
<1>4. x % m = x
    BY <1>3, ModBelow
<1> QED
    BY <1>1, <1>2, <1>4 DEF Int32

\* An offer passed every condition of the query.
LEMMA OffersByInv ==
    ASSUME SearchInv
    PROVE  OffersCanBeBooked
<1> SUFFICES ASSUME NEW c \in Asked, validCriteria(c),
                    NEW offer \in SearchRoomTypes(c)
             PROVE  /\ CanHoldStay(offer.roomType, c)
                    /\ offer.totalFee = Price(offer.roomType, c)
                    /\ offer.totalFee < Half
                    /\ FitsColumn(c.guests) => CapacityOf[offer.roomType] >= c.guests
                    /\ c.maxFee # NoLimit /\ FitsColumn(c.maxFee) => offer.totalFee <= c.maxFee
    BY DEF OffersCanBeBooked
<1>1. ~OutOfRange(c)
    BY DEF SearchRoomTypes
<1>2. PICK rt \in selected(c) : offer = [roomType |-> rt, totalFee |-> Fee(rt, c)]
    BY <1>1 DEF SearchRoomTypes
<1>3. /\ rt \in RoomTypes /\ EveryNight(rt, c)
      /\ CapacityOf[rt] >= Int32(c.guests)
      /\ Int32(c.maxFee) = NoLimit \/ Fee(rt, c) <= Int32(c.maxFee)
    BY <1>2 DEF selected
<1>4. Fee(rt, c) = Price(rt, c) /\ Fee(rt, c) \in Nat
    BY <1>3, FeeIsPrice
<1>5. Fee(rt, c) < Half
    <2>1. ~(Fee(rt, c) >= Half)
        BY <1>1, <1>2 DEF OutOfRange
    <2> QED
        BY <1>4, <2>1, WidthAssumption
<1>6. CanHoldStay(rt, c)
    BY <1>3, EveryNightIsHoldable
<1>7. FitsColumn(c.guests) => CapacityOf[rt] >= c.guests
    BY <1>3, Reaches DEF FitsColumn
<1>8. c.maxFee # NoLimit /\ FitsColumn(c.maxFee) => Fee(rt, c) <= c.maxFee
    BY <1>3, Reaches DEF FitsColumn
<1> QED
    BY <1>2, <1>4, <1>5, <1>6, <1>7, <1>8

\* Of a stay that suits, the numbers asked for fit their columns.
LEMMA SuitedFits ==
    ASSUME SearchInv, NEW c \in Asked, validCriteria(c), c.maxFee < Half,
           NEW rt \in RoomTypes, Suits(rt, c)
    PROVE  /\ EveryNight(rt, c) /\ Fee(rt, c) = Price(rt, c)
           /\ Int32(c.guests) = c.guests /\ Int32(c.maxFee) = c.maxFee
<1>1. c.guests \in Nat \ {0} /\ c.maxFee \in Int /\ Half \in Nat \ {0}
    BY CriteriaFacts, WidthAssumption
<1>2. EveryNight(rt, c)
    BY EveryNightIsHoldable DEF Suits
<1>3. Fee(rt, c) = Price(rt, c) /\ Fee(rt, c) \in Nat
    BY <1>2, FeeIsPrice
<1>4. CapacityOf[rt] \in Nat /\ CapacityOf[rt] < Half /\ CapacityOf[rt] >= c.guests
    BY RoomTypesAssumption, ColumnsAssumption DEF Suits
<1>5. c.maxFee = 0 \/ Fee(rt, c) <= c.maxFee
    BY <1>3 DEF Suits, NoLimit
<1>6. c.guests \in Columns /\ c.maxFee \in Columns
    BY <1>1, <1>3, <1>4, <1>5 DEF Columns
<1> QED
    BY <1>2, <1>3, <1>6, Reaches

\* The query keeps what suits, and only what suits can make it fail.
LEMMA StaysByInv ==
    ASSUME SearchInv
    PROVE  StaysAreOffered
<1> SUFFICES ASSUME NEW c \in Asked, validCriteria(c), c.maxFee < Half,
                    NEW rt \in RoomTypes, Suits(rt, c)
             PROVE  \/ \E offer \in SearchRoomTypes(c) : offer.roomType = rt
                    \/ \E rt2 \in RoomTypes : Suits(rt2, c) /\ Price(rt2, c) >= Half
    BY DEF StaysAreOffered
<1>1. /\ EveryNight(rt, c) /\ Fee(rt, c) = Price(rt, c)
      /\ Int32(c.guests) = c.guests /\ Int32(c.maxFee) = c.maxFee
    BY SuitedFits
<1>2. CASE ~OutOfRange(c)
    <2>1. rt \in selected(c)
        BY <1>1 DEF selected, Suits
    <2>2. [roomType |-> rt, totalFee |-> Fee(rt, c)] \in SearchRoomTypes(c)
        BY <1>2, <2>1 DEF SearchRoomTypes
    <2> QED
        BY <2>2
<1>3. CASE OutOfRange(c)
    <2>1. PICK rt2 \in selected(c) : Fee(rt2, c) >= Half
        BY <1>3 DEF OutOfRange
    <2>2. /\ rt2 \in RoomTypes /\ EveryNight(rt2, c)
          /\ CapacityOf[rt2] >= Int32(c.guests)
          /\ c.prefecture \in {Anywhere, PrefectureOf[rt2]}
          /\ Int32(c.maxFee) = NoLimit \/ Fee(rt2, c) <= Int32(c.maxFee)
        BY <2>1 DEF selected
    <2>3. Fee(rt2, c) = Price(rt2, c) /\ CanHoldStay(rt2, c)
        BY <2>2, FeeIsPrice, EveryNightIsHoldable
    <2>4. Suits(rt2, c)
        BY <1>1, <2>2, <2>3 DEF Suits
    <2> QED
        BY <2>1, <2>2, <2>3, <2>4
<1> QED
    BY <1>2, <1>3

\* The nights of every room type are typed, whatever the service did to them.
THEOREM NightsAreTyped == SearchSpec => []SearchTypeOK
<1>1. SearchInv => SearchTypeOK
    BY DEF SearchInv, SearchTypeOK, Night, WellFormed
<1> QED
    BY <1>1, SearchInvariant, PTL

\* What search shows can be booked at the price shown, in any state the service can
\* reach, with any number of room types and nights and every width of the columns;
\* the capacity and the limit hold too when the number asked for fits its column.
THEOREM OffersAreHonest == SearchSpec => []OffersCanBeBooked
<1>1. SearchInv => OffersCanBeBooked
    BY OffersByInv
<1> QED
    BY <1>1, SearchInvariant, PTL

\* Every stay that Book would accept and that the form lets through is shown, unless
\* one of them costs more than a column holds or the limit is 2^31 or more.
THEOREM NoStayIsHidden == SearchSpec => []StaysAreOffered
<1>1. SearchInv => StaysAreOffered
    BY StaysByInv
<1> QED
    BY <1>1, SearchInvariant, PTL

=============================================================================
