-------------------------- MODULE Inventory_proofs --------------------------
(***************************************************************************)
(* Theorems about the inventory's operations, for any set of bookings, any *)
(* quantities and fees an operator may ask for, and any clock.             *)
(*                                                                         *)
(* TypeOK and NoOverbooking are not inductive: that Hold adds a slot below *)
(* the quantity rests on its choosing the lowest free number, and that a   *)
(* payment or a release touches the right hold rests on a booking having   *)
(* only one.  IInv is the conjunction that is inductive.                   *)
(***************************************************************************)
EXTENDS Inventory, InventoryDomain_proofs

IInv ==
    /\ now \in Times
    /\ registered \in BOOLEAN
    /\ WellFormed(inv)

\* An unregistered inventory is the empty aggregate.
LEMMA InitIInv == Init => IInv
<1> SUFFICES ASSUME Init
             PROVE  IInv
    OBVIOUS
<1>1. inv \in InventoryType
    BY DEF Init, NewInventory, InventoryType
<1>2. UsedSlots(inv) = {} /\ inv.holds = {}
    BY DEF Init, NewInventory, UsedSlots
<1>3. WellFormed(inv)
    BY <1>1, <1>2 DEF WellFormed, SlotsInRange, Distinct, OnePerBooking, ExpiryMatches
<1> QED
    BY <1>3, TimesAssumption DEF Init, IInv

\* Every operation that reaches the stored aggregate keeps it well-formed.
LEMMA NextIInv == IInv /\ [Next]_vars => IInv'
<1> SUFFICES ASSUME IInv, [Next]_vars
             PROVE  IInv'
    OBVIOUS
<1> USE DEF IInv
<1>1. ASSUME NEW quantity \in Quantities, NEW fee \in Fees, NEW at \in ClockReadings,
             Register(quantity, fee, at)
      PROVE  IInv'
    <2>1. quantity \in Nat /\ fee \in Nat
        BY <1>1, QuantitiesAssumption, FeesAssumption DEF Register, validQuantity, validFee
    <2>2. inv' \in InventoryType /\ inv'.holds = {} /\ UsedSlots(inv') = {}
        BY <1>1, <2>1 DEF Register, NewInventory, InventoryType, UsedSlots
    <2>3. WellFormed(inv')
        BY <2>2 DEF WellFormed, SlotsInRange, Distinct, OnePerBooking, ExpiryMatches
    <2> QED
        BY <1>1, <2>3 DEF Register
<1>2. ASSUME NEW n \in Quantities, ChangeQuantity(n)
      PROVE  IInv'
    <2>1. WellFormed(AfterChangeQuantity(inv, n))
        BY <1>2, ChangeQuantityKeepsWellFormed, QuantitiesAssumption DEF ChangeQuantity
    <2> QED
        BY <1>2, <2>1 DEF ChangeQuantity, Mutate
<1>3. ASSUME NEW amount \in Fees, ChangeFee(amount)
      PROVE  IInv'
    <2>1. amount \in Nat
        BY <1>3, FeesAssumption DEF ChangeFee, validFee
    <2>2. WellFormed([inv EXCEPT !.fee = amount])
        BY <2>1 DEF WellFormed, InventoryType, SlotsInRange, UsedSlots, Distinct,
                    OnePerBooking, ExpiryMatches
    <2> QED
        BY <1>3, <2>2 DEF ChangeFee, Mutate, AfterChangeFee
<1>4. ASSUME Close \/ Reopen
      PROVE  IInv'
    <2>1. PICK closed \in BOOLEAN : inv' = [inv EXCEPT !.isClosed = closed]
        BY <1>4 DEF Close, Reopen, Mutate, AfterClose, AfterReopen
    <2>2. WellFormed([inv EXCEPT !.isClosed = closed])
        BY DEF WellFormed, InventoryType, SlotsInRange, UsedSlots, Distinct,
               OnePerBooking, ExpiryMatches
    <2> QED
        BY <1>4, <2>1, <2>2 DEF Close, Reopen, Mutate
<1>5. ASSUME NEW b \in Bookings, NEW expiredAt \in Times, NEW at \in ClockReadings,
             Hold(b, expiredAt, at)
      PROVE  IInv'
    <2>1. expiredAt \in Nat /\ at \in Nat
        BY TimesAssumption DEF ClockReadings
    <2>2. WellFormed(AfterHold(inv, b, expiredAt))
        BY <1>5, <2>1, HoldKeepsWellFormed DEF Hold
    <2> QED
        BY <1>5, <2>2 DEF Hold, Mutate
<1>6. ASSUME NEW b \in Bookings, StartPayment(b) \/ Confirm(b)
      PROVE  IInv'
    <2>1. holdOf(inv, b) \in inv.holds
        BY <1>6, HoldOfIsHeld DEF StartPayment, Confirm, CanStartPayment, CanConfirm
    <2>2. /\ WellFormed(WithStatus(inv, holdOf(inv, b), ProcessingPayment))
          /\ WellFormed(WithStatus(inv, holdOf(inv, b), HoldConfirmed))
        BY <2>1, WithStatusKeepsWellFormed
    <2> QED
        BY <1>6, <2>2 DEF StartPayment, Confirm, Mutate, AfterStartPayment, AfterConfirm
<1>7. ASSUME NEW b \in Bookings, Release(b)
      PROVE  IInv'
    <2>1. WellFormed([inv EXCEPT !.holds = @ \ {holdOf(inv, b)}])
        BY FewerHoldsKeepsWellFormed
    <2> QED
        BY <1>7, <2>1 DEF Release, Mutate, AfterRelease
<1>8. ASSUME NEW at \in ClockReadings, CollectExpired(at)
      PROVE  IInv'
    <2>1. WellFormed([inv EXCEPT !.holds = @ \ ExpiredHolds(inv, at)])
        BY FewerHoldsKeepsWellFormed
    <2> QED
        BY <1>8, <2>1 DEF CollectExpired, Mutate, AfterCollectExpired
<1>9. CASE Tick
    BY <1>9 DEF Tick
<1>10. CASE UNCHANGED vars
    BY <1>10 DEF vars
<1> QED
    BY <1>1, <1>2, <1>3, <1>4, <1>5, <1>6, <1>7, <1>8, <1>9, <1>10 DEF Next

\* The stored aggregate is well-formed in every reachable state.
LEMMA Invariance == Spec => []IInv
    BY InitIInv, NextIInv, PTL DEF Spec

-----------------------------------------------------------------------------
\* The stored aggregate always has its types: quantities and fees are never
\* negative, and a hold has one of the three statuses.
THEOREM TypeCorrect == Spec => []TypeOK
<1>1. IInv => TypeOK
    BY DEF IInv, TypeOK, WellFormed
<1> QED
    BY <1>1, Invariance, PTL

\* However many bookings compete and however the operator moves the quantity,
\* the night is never sold more often than the quantity of the moment.
THEOREM NeverOverbooked == Spec => []NoOverbooking
<1>1. IInv => NoOverbooking
    BY CountingAgreesWithNumbering DEF IInv, NoOverbooking, WellFormed, SlotsInRange
<1> QED
    BY <1>1, Invariance, PTL

\* The unique constraint on slots never has to reject an operation's result.
THEOREM SlotsNeverShared == Spec => []SlotsDistinct
<1>1. IInv => SlotsDistinct
    BY DEF IInv, SlotsDistinct, WellFormed, Distinct
<1> QED
    BY <1>1, Invariance, PTL

\* A booking never holds two slots of one night.
THEOREM NeverHeldTwice == Spec => []OneHoldPerBooking
<1>1. IInv => OneHoldPerBooking
    BY DEF IInv, OneHoldPerBooking, WellFormed, OnePerBooking
<1> QED
    BY <1>1, Invariance, PTL

\* A hold can expire exactly as long as it has not been paid for.
THEOREM OnlyTemporaryHoldsExpire == Spec => []ExpiryIffTemporary
<1>1. IInv => ExpiryIffTemporary
    BY DEF IInv, ExpiryIffTemporary, WellFormed, ExpiryMatches
<1> QED
    BY <1>1, Invariance, PTL

\* What search counts as vacant is what Hold can number.
THEOREM SearchIsHonest == Spec => []SearchAgreesWithHold
<1>1. IInv => SearchAgreesWithHold
    BY CountingAgreesWithNumbering DEF IInv, SearchAgreesWithHold
<1> QED
    BY <1>1, Invariance, PTL

-----------------------------------------------------------------------------
(* What a step does to the holds that survive it *)

\* Every booking with a hold before and after has kept its slot and not gone back.
Advance(v, w) ==
    \A g \in v.holds, h \in w.holds :
        g.bookingId = h.bookingId => g.slotNo = h.slotNo /\ rank(g.status) <= rank(h.status)

LEMMA RankIsNat ==
    ASSUME NEW status \in HoldStatus
    PROVE  rank(status) \in 0 .. 2
BY DEF rank, HoldStatus, TemporaryHold, ProcessingPayment, HoldConfirmed

\* A hold that nobody touches stays as it is, being its booking's only one.
LEMMA FewerHoldsAdvance ==
    ASSUME NEW v, WellFormed(v), NEW w, w.holds \subseteq v.holds
    PROVE  Advance(v, w)
<1> SUFFICES ASSUME NEW g \in v.holds, NEW h \in w.holds, g.bookingId = h.bookingId
             PROVE  g.slotNo = h.slotNo /\ rank(g.status) <= rank(h.status)
    BY DEF Advance
<1>1. g = h
    BY DEF WellFormed, OnePerBooking
<1>2. rank(g.status) \in 0 .. 2
    BY RankIsNat DEF WellFormed, InventoryType, HoldType
<1> QED
    BY <1>1, <1>2

\* A new hold is of a booking that had none.
LEMMA HoldAdvances ==
    ASSUME NEW v, WellFormed(v), NEW b, NEW e, ~HasHold(v, b)
    PROVE  Advance(v, AfterHold(v, b, e))
<1> DEFINE new == [bookingId |-> b, slotNo |-> vacantSlotNo(v),
                   status |-> TemporaryHold, expiredAt |-> e]
<1>1. AfterHold(v, b, e).holds = v.holds \cup {new} /\ new.bookingId = b
    BY DEF AfterHold, WellFormed, InventoryType
<1> HIDE DEF new
<1>2. \A g \in v.holds : g.bookingId # b
    BY DEF HasHold, HoldsOf
<1>3. Advance(v, v)
    BY FewerHoldsAdvance
<1> QED
    BY <1>1, <1>2, <1>3 DEF Advance

\* A payment moves one hold on, from temporary or to the last status.
LEMMA WithStatusAdvances ==
    ASSUME NEW v, WellFormed(v), NEW h \in v.holds,
           NEW status \in {ProcessingPayment, HoldConfirmed},
           h.status = TemporaryHold \/ status = HoldConfirmed
    PROVE  Advance(v, WithStatus(v, h, status))
<1> DEFINE paid == [h EXCEPT !.status = status, !.expiredAt = NoExpiry]
<1>1. WithStatus(v, h, status).holds = (v.holds \ {h}) \cup {paid}
    BY DEF WithStatus, WellFormed, InventoryType
<1>2. paid.bookingId = h.bookingId /\ paid.slotNo = h.slotNo /\ paid.status = status
    BY DEF WellFormed, InventoryType, HoldType
<1>3. rank(h.status) <= rank(status)
    BY DEF rank, WellFormed, InventoryType, HoldType, HoldStatus,
           TemporaryHold, ProcessingPayment, HoldConfirmed
<1> HIDE DEF paid
<1>4. \A g \in v.holds : g.bookingId = h.bookingId => g = h
    BY DEF WellFormed, OnePerBooking
<1>5. Advance(v, v)
    BY FewerHoldsAdvance
<1> QED
    BY <1>1, <1>2, <1>3, <1>4, <1>5 DEF Advance

LEMMA StepAdvances == IInv /\ [Next]_vars => Advance(inv, inv')
<1> SUFFICES ASSUME IInv, [Next]_vars
             PROVE  Advance(inv, inv')
    OBVIOUS
<1>1. WellFormed(inv)
    BY DEF IInv
<1>2. inv'.holds = inv.holds => Advance(inv, inv')
    BY <1>1, FewerHoldsAdvance
<1>3. ASSUME NEW quantity \in Quantities, NEW fee \in Fees, NEW at \in ClockReadings,
             Register(quantity, fee, at)
      PROVE  Advance(inv, inv')
  <2>1. inv'.holds = {}
      BY <1>3 DEF Register, NewInventory
  <2> QED
      BY <2>1 DEF Advance
<1>4. ASSUME (\E n \in Quantities : ChangeQuantity(n)) \/ (\E amount \in Fees : ChangeFee(amount))
               \/ Close \/ Reopen
      PROVE  inv'.holds = inv.holds
    BY <1>1, <1>4 DEF WellFormed, InventoryType, ChangeQuantity, ChangeFee, Close, Reopen, Mutate,
                      AfterChangeQuantity, AfterChangeFee, AfterClose, AfterReopen
<1>5. ASSUME NEW b \in Bookings, NEW expiredAt \in Times, NEW at \in ClockReadings,
             Hold(b, expiredAt, at)
      PROVE  Advance(inv, inv')
    BY <1>1, <1>5, HoldAdvances DEF Hold, CanHold, Mutate
<1>6. ASSUME NEW b \in Bookings, StartPayment(b) \/ Confirm(b)
      PROVE  Advance(inv, inv')
  <2>1. holdOf(inv, b) \in inv.holds
      BY <1>6, HoldOfIsHeld DEF StartPayment, Confirm, CanStartPayment, CanConfirm
  <2>2. CASE StartPayment(b)
      BY <1>1, <2>1, <2>2, WithStatusAdvances
         DEF StartPayment, CanStartPayment, Mutate, AfterStartPayment
  <2>3. CASE Confirm(b)
      BY <1>1, <2>1, <2>3, WithStatusAdvances DEF Confirm, Mutate, AfterConfirm
  <2> QED
      BY <1>6, <2>2, <2>3
<1>7. ASSUME (\E b \in Bookings : Release(b)) \/ (\E at \in ClockReadings : CollectExpired(at))
      PROVE  inv'.holds \subseteq inv.holds
    BY <1>1, <1>7 DEF WellFormed, InventoryType, Release, CollectExpired, Mutate,
                      AfterRelease, AfterCollectExpired
<1>8. CASE Tick \/ UNCHANGED vars
    BY <1>2, <1>8 DEF Tick, vars
<1> QED
    BY <1>1, <1>2, <1>3, <1>4, <1>5, <1>6, <1>7, <1>8, FewerHoldsAdvance DEF Next

\* Whoever's step it is, a hold that is still there has its slot and has not gone
\* back towards temporary: a release in between can not make two holds look like one.
THEOREM HoldsNeverGoBack == Spec => HoldsAdvance
<1> DEFINE Step == \A g \in inv.holds, h \in inv'.holds :
         g.bookingId = h.bookingId =>
            g.slotNo = h.slotNo /\ rank(g.status) <= rank(h.status)
<1>1. IInv /\ [Next]_vars => Step
    BY StepAdvances DEF Advance
<1> HIDE DEF Step
<1>2. Spec => [][Step]_vars
    BY <1>1, Invariance, PTL DEF Spec
<1> QED
    BY <1>2 DEF HoldsAdvance, Step

=============================================================================
