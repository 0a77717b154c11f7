----------------------- MODULE InventoryDomain_proofs -----------------------
(***************************************************************************)
(* Facts about the operators of the inventory aggregate that hold for      *)
(* every set of bookings: where a new slot comes from, what each operation *)
(* leaves of a well-formed inventory, and why counting holds and looking   *)
(* for a free slot number agree.                                           *)
(***************************************************************************)
EXTENDS InventoryDomain, TLAPS, FiniteSetTheorems, FunctionTheorems, WellFoundedInduction

\* A non-empty set of naturals has a smallest element, and Min names it.
LEMMA NatMin ==
    ASSUME NEW S \in SUBSET Nat, S # {}
    PROVE  /\ Min(S) \in S
           /\ \A y \in S : Min(S) <= y
<1>1. PICK x \in S : \A y \in S : ~(<<y, x>> \in OpToRel(<, Nat))
    BY NatLessThanWellFounded, WFMin
<1>2. \A y \in S : x <= y
    <2>1. TAKE y \in S
    <2>2. ~(y < x)
        BY <1>1 DEF OpToRel
    <2> QED
        BY <2>2
<1> QED
    BY <1>2 DEF Min

\* A non-empty set of naturals with an upper bound has a largest element, and
\* Max names it.
LEMMA NatMax ==
    ASSUME NEW S \in SUBSET Nat, S # {}, NEW n \in Nat, \A y \in S : y <= n
    PROVE  /\ Max(S) \in S
           /\ \A y \in S : Max(S) >= y
<1> DEFINE Distances == {n - y : y \in S}
<1>1. Distances \in SUBSET Nat /\ Distances # {}
    <2>1. PICK s \in S : TRUE
        OBVIOUS
    <2>2. n - s \in Distances
        BY <2>1
    <2>3. \A y \in S : n - y \in Nat
        OBVIOUS
    <2> QED
        BY <2>2, <2>3
<1>2. PICK x \in S : n - x = Min(Distances)
    BY <1>1, NatMin
<1>3. \A y \in S : n - x <= n - y
    BY <1>1, <1>2, NatMin
<1>4. \A y \in S : x >= y
    BY <1>3
<1> QED
    BY <1>4 DEF Max

-----------------------------------------------------------------------------
(* Well-formed aggregates *)

SlotsInRange(v) == UsedSlots(v) \subseteq 1 .. v.quantityAvailable
Distinct(v) == \A g, h \in v.holds : g.slotNo = h.slotNo => g = h
OnePerBooking(v) == \A g, h \in v.holds : g.bookingId = h.bookingId => g = h
ExpiryMatches(v) == \A h \in v.holds : h.expiredAt # NoExpiry <=> h.status = TemporaryHold

WellFormed(v) ==
    /\ v \in InventoryType
    /\ SlotsInRange(v)
    /\ Distinct(v)
    /\ OnePerBooking(v)
    /\ ExpiryMatches(v)

\* The slot Hold takes is in range and free.
LEMMA VacantSlotIsFree ==
    ASSUME NEW v \in InventoryType, VacantSlots(v) # {}
    PROVE  /\ vacantSlotNo(v) \in 1 .. v.quantityAvailable
           /\ vacantSlotNo(v) \notin UsedSlots(v)
           /\ vacantSlotNo(v) \in Nat \ {0}
<1>1. VacantSlots(v) \in SUBSET Nat
    BY DEF VacantSlots, InventoryType
<1>2. vacantSlotNo(v) \in VacantSlots(v)
    BY <1>1, NatMin DEF vacantSlotNo
<1> QED
    BY <1>2 DEF VacantSlots, InventoryType

\* No held slot is above maxSlotNo.
LEMMA MaxSlotBounds ==
    ASSUME NEW v, WellFormed(v)
    PROVE  /\ maxSlotNo(v) \in Nat
           /\ \A s \in UsedSlots(v) : s <= maxSlotNo(v)
<1> DEFINE S == UsedSlots(v) \cup {0}
<1>1. v.quantityAvailable \in Nat
    BY DEF WellFormed, InventoryType
<1>2. S \in SUBSET Nat /\ S # {} /\ \A s \in S : s <= v.quantityAvailable
    BY <1>1 DEF WellFormed, SlotsInRange
<1>3. Max(S) \in S /\ \A s \in S : Max(S) >= s
    BY <1>1, <1>2, NatMax
<1> QED
    BY <1>2, <1>3 DEF maxSlotNo

\* The hold that indexOfHold finds is one of the booking's.
LEMMA HoldOfIsHeld ==
    ASSUME NEW v, NEW b, HasHold(v, b)
    PROVE  holdOf(v, b) \in v.holds /\ holdOf(v, b).bookingId = b
<1>1. holdOf(v, b) \in HoldsOf(v, b)
    BY DEF holdOf, HasHold
<1> QED
    BY <1>1 DEF HoldsOf

-----------------------------------------------------------------------------
(* Every operation keeps an aggregate well-formed *)

\* Holding adds a slot that is in range and free, for a booking without one.
LEMMA HoldKeepsWellFormed ==
    ASSUME NEW v, WellFormed(v), NEW b \in Bookings, NEW e \in Nat, NEW at \in Nat,
           CanHold(v, b, e, at)
    PROVE  WellFormed(AfterHold(v, b, e))
<1> DEFINE new == [bookingId |-> b, slotNo |-> vacantSlotNo(v),
                   status |-> TemporaryHold, expiredAt |-> e]
           w == AfterHold(v, b, e)
<1>1. v \in InventoryType
    BY DEF WellFormed
<1>2. /\ vacantSlotNo(v) \in 1 .. v.quantityAvailable
      /\ vacantSlotNo(v) \notin UsedSlots(v)
      /\ vacantSlotNo(v) \in Nat \ {0}
    BY <1>1, VacantSlotIsFree DEF CanHold
<1>3. \A h \in v.holds : h.bookingId # b
    BY DEF CanHold, HasHold, HoldsOf
<1>4. \A h \in v.holds : h.slotNo # new.slotNo
    BY <1>2 DEF UsedSlots
<1>5. new \in HoldType
    BY <1>2 DEF HoldType, HoldStatus
<1>6. /\ w.holds = v.holds \cup {new}
      /\ w.quantityAvailable = v.quantityAvailable
    BY <1>1 DEF AfterHold, InventoryType
<1>7. w \in InventoryType
    BY <1>1, <1>5 DEF AfterHold, InventoryType
<1>8. SlotsInRange(w)
    BY <1>2, <1>6 DEF WellFormed, SlotsInRange, UsedSlots
<1>9. Distinct(w)
    BY <1>4, <1>6 DEF WellFormed, Distinct
<1>10. OnePerBooking(w)
    BY <1>3, <1>6 DEF WellFormed, OnePerBooking
<1>11. ExpiryMatches(w)
    BY <1>6 DEF WellFormed, ExpiryMatches, NoExpiry
<1> QED
    BY <1>7, <1>8, <1>9, <1>10, <1>11 DEF WellFormed

\* Moving one hold on to a paid status changes neither its slot nor its booking.
LEMMA WithStatusKeepsWellFormed ==
    ASSUME NEW v, WellFormed(v), NEW h \in v.holds,
           NEW status \in {ProcessingPayment, HoldConfirmed}
    PROVE  WellFormed(WithStatus(v, h, status))
<1> DEFINE paid == [h EXCEPT !.status = status, !.expiredAt = NoExpiry]
           w == WithStatus(v, h, status)
<1>1. v \in InventoryType /\ h \in HoldType
    BY DEF WellFormed, InventoryType
<1>2. /\ paid \in HoldType
      /\ paid.slotNo = h.slotNo
      /\ paid.bookingId = h.bookingId
      /\ paid.status = status
      /\ paid.expiredAt = NoExpiry
    BY <1>1 DEF HoldType, HoldStatus
<1>3. /\ w.holds = (v.holds \ {h}) \cup {paid}
      /\ w.quantityAvailable = v.quantityAvailable
    BY <1>1 DEF WithStatus, InventoryType
<1>4. w \in InventoryType
    BY <1>1, <1>2 DEF WithStatus, InventoryType
<1>5. SlotsInRange(w)
    <2>1. UsedSlots(w) \subseteq UsedSlots(v)
        BY <1>2, <1>3 DEF UsedSlots
    <2> QED
        BY <1>3, <2>1 DEF WellFormed, SlotsInRange
<1>6. Distinct(w)
    BY <1>2, <1>3 DEF WellFormed, Distinct
<1>7. OnePerBooking(w)
    BY <1>2, <1>3 DEF WellFormed, OnePerBooking
<1>8. ExpiryMatches(w)
    BY <1>2, <1>3 DEF WellFormed, ExpiryMatches, TemporaryHold, ProcessingPayment, HoldConfirmed
<1> QED
    BY <1>4, <1>5, <1>6, <1>7, <1>8 DEF WellFormed

\* Removing holds, one by Release or many by CollectExpired, disturbs no other.
LEMMA FewerHoldsKeepsWellFormed ==
    ASSUME NEW v, WellFormed(v), NEW gone
    PROVE  WellFormed([v EXCEPT !.holds = @ \ gone])
<1> DEFINE w == [v EXCEPT !.holds = @ \ gone]
<1>1. v \in InventoryType
    BY DEF WellFormed
<1>2. w.holds = v.holds \ gone /\ w.quantityAvailable = v.quantityAvailable
    BY <1>1 DEF InventoryType
<1>3. w \in InventoryType
    BY <1>1 DEF InventoryType
<1>4. SlotsInRange(w)
    BY <1>2 DEF WellFormed, SlotsInRange, UsedSlots
<1>5. Distinct(w) /\ OnePerBooking(w) /\ ExpiryMatches(w)
    BY <1>2 DEF WellFormed, Distinct, OnePerBooking, ExpiryMatches
<1> QED
    BY <1>3, <1>4, <1>5 DEF WellFormed

\* The quantity may be lowered only to the highest slot in use.
LEMMA ChangeQuantityKeepsWellFormed ==
    ASSUME NEW v, WellFormed(v), NEW n \in Int, CanChangeQuantity(v, n)
    PROVE  WellFormed(AfterChangeQuantity(v, n))
<1> DEFINE w == AfterChangeQuantity(v, n)
<1>1. v \in InventoryType
    BY DEF WellFormed
<1>2. n \in Nat /\ n >= maxSlotNo(v)
    BY DEF CanChangeQuantity, validQuantity
<1>3. w.holds = v.holds /\ w.quantityAvailable = n
    BY <1>1 DEF AfterChangeQuantity, InventoryType
<1>4. w \in InventoryType
    BY <1>1, <1>2 DEF AfterChangeQuantity, InventoryType
<1>5. SlotsInRange(w)
    <2> SUFFICES ASSUME NEW s \in UsedSlots(v)
                 PROVE  s \in 1 .. n
        BY <1>3 DEF SlotsInRange, UsedSlots
    <2>1. s \in 1 .. v.quantityAvailable /\ v.quantityAvailable \in Nat
        BY <1>1 DEF WellFormed, SlotsInRange, InventoryType
    <2>2. s <= maxSlotNo(v)
        BY MaxSlotBounds
    <2> QED
        BY <1>2, <2>1, <2>2, MaxSlotBounds
<1>6. Distinct(w) /\ OnePerBooking(w) /\ ExpiryMatches(w)
    BY <1>3 DEF WellFormed, Distinct, OnePerBooking, ExpiryMatches
<1> QED
    BY <1>4, <1>5, <1>6 DEF WellFormed

-----------------------------------------------------------------------------
(* Counting and numbering *)

\* Numbered holds can not outnumber the quantity, and they leave a number free
\* exactly when they are fewer.
LEMMA CountingAgreesWithNumbering ==
    ASSUME NEW v, WellFormed(v)
    PROVE  /\ IsFiniteSet(v.holds)
           /\ Cardinality(v.holds) \in Nat
           /\ Cardinality(v.holds) <= v.quantityAvailable
           /\ Available(v) > 0 <=> VacantSlots(v) # {}
<1> DEFINE Q == 1 .. v.quantityAvailable
           slot == [h \in v.holds |-> h.slotNo]
<1>1. v \in InventoryType /\ v.quantityAvailable \in Nat
    BY DEF WellFormed, InventoryType
<1>2. \A h \in v.holds : h.slotNo \in Q
    BY DEF WellFormed, SlotsInRange, UsedSlots
<1>3. slot \in Injection(v.holds, Q)
    <2>1. slot \in [v.holds -> Q]
        BY <1>2
    <2>2. \A g, h \in v.holds : slot[g] = slot[h] => g = h
        BY DEF WellFormed, Distinct
    <2> QED
        BY <2>1, <2>2, Fun_IsInj
<1>4. IsFiniteSet(Q) /\ Cardinality(Q) = v.quantityAvailable
    <2>1. 1 \in Int /\ v.quantityAvailable \in Int
        BY <1>1
    <2>2. /\ IsFiniteSet(Q)
          /\ Cardinality(Q) = IF 1 > v.quantityAvailable THEN 0 ELSE v.quantityAvailable - 1 + 1
        BY <2>1, FS_Interval, Zenon
    <2> QED
        BY <1>1, <2>2
<1>5. /\ IsFiniteSet(v.holds)
      /\ Cardinality(v.holds) <= Cardinality(Q)
      /\ Cardinality(v.holds) = Cardinality(Q) <=> slot \in Surjection(v.holds, Q)
    BY <1>3, <1>4, FS_Injection
<1>6. Cardinality(v.holds) \in Nat
    BY <1>5, FS_CardinalityType
<1>7. slot \in Surjection(v.holds, Q) <=> VacantSlots(v) = {}
    <2>1. ASSUME slot \in Surjection(v.holds, Q)
          PROVE  VacantSlots(v) = {}
        <3>1. \A s \in Q : \E h \in v.holds : slot[h] = s
            BY <2>1 DEF Surjection
        <3> QED
            BY <3>1 DEF VacantSlots, UsedSlots
    <2>2. ASSUME VacantSlots(v) = {}
          PROVE  slot \in Surjection(v.holds, Q)
        <3>1. \A s \in Q : \E h \in v.holds : slot[h] = s
            BY <2>2 DEF VacantSlots, UsedSlots
        <3>2. slot \in [v.holds -> Q]
            BY <1>2
        <3> QED
            BY <3>1, <3>2, Fun_IsSurj
    <2> QED
        BY <2>1, <2>2
<1> QED
    BY <1>1, <1>4, <1>5, <1>6, <1>7 DEF Available

-----------------------------------------------------------------------------
(* What an operation leaves of the holds that have been paid for           *)

Paid(v, b) == \E h \in HoldsOf(v, b) : h.status # TemporaryHold
Sure(v, b) == \E h \in HoldsOf(v, b) : h.status = HoldConfirmed

\* A new hold is temporary.
LEMMA HoldPaysNothing ==
    ASSUME NEW v \in InventoryType, NEW b, NEW e, NEW d
    PROVE  /\ AfterHold(v, b, e).fee = v.fee
           /\ Paid(AfterHold(v, b, e), d) <=> Paid(v, d)
           /\ Sure(AfterHold(v, b, e), d) <=> Sure(v, d)
<1> DEFINE new == [bookingId |-> b, slotNo |-> vacantSlotNo(v),
                   status |-> TemporaryHold, expiredAt |-> e]
           w == AfterHold(v, b, e)
<1>1. w.holds = v.holds \cup {new} /\ w.fee = v.fee
    BY DEF AfterHold, InventoryType
<1>2. new.status = TemporaryHold
    OBVIOUS
<1> HIDE DEF new, w
<1>3. \A h : h \in HoldsOf(w, d) /\ h.status # TemporaryHold
                <=> h \in HoldsOf(v, d) /\ h.status # TemporaryHold
    BY <1>1, <1>2 DEF HoldsOf
<1> QED
    BY <1>1, <1>3 DEF Paid, Sure, w, TemporaryHold, HoldConfirmed

\* Paying and confirming concern one booking, and take nothing from it that it had.
LEMMA WithStatusPays ==
    ASSUME NEW v \in InventoryType, NEW h \in v.holds, NEW d,
           NEW status \in {ProcessingPayment, HoldConfirmed},
           h.status = TemporaryHold \/ status = HoldConfirmed
    PROVE  /\ WithStatus(v, h, status).fee = v.fee
           /\ Paid(WithStatus(v, h, status), d) => Paid(v, d) \/ d = h.bookingId
           /\ Paid(v, d) => Paid(WithStatus(v, h, status), d)
           /\ Sure(v, d) => Sure(WithStatus(v, h, status), d)
           /\ status = HoldConfirmed => Sure(WithStatus(v, h, status), h.bookingId)
<1> DEFINE paid == [h EXCEPT !.status = status, !.expiredAt = NoExpiry]
           w == WithStatus(v, h, status)
<1>1. w.holds = (v.holds \ {h}) \cup {paid} /\ w.fee = v.fee
    BY DEF WithStatus, InventoryType
<1>2. paid.bookingId = h.bookingId /\ paid.status = status
    BY DEF InventoryType, HoldType
<1>3. status # TemporaryHold
    BY DEF ProcessingPayment, HoldConfirmed, TemporaryHold
<1> HIDE DEF paid, w
<1>4. Paid(w, d) => Paid(v, d) \/ d = h.bookingId
    BY <1>1, <1>2 DEF Paid, HoldsOf
<1>5. Paid(v, d) => Paid(w, d)
    BY <1>1, <1>2, <1>3 DEF Paid, HoldsOf
<1>6. Sure(v, d) => Sure(w, d)
    BY <1>1, <1>2 DEF Sure, HoldsOf, HoldConfirmed, TemporaryHold
<1>7. status = HoldConfirmed => Sure(w, h.bookingId)
    BY <1>1, <1>2 DEF Sure, HoldsOf
<1> QED
    BY <1>1, <1>4, <1>5, <1>6, <1>7 DEF w

\* What disappears concerns nobody who keeps what had been paid for.
LEMMA FewerHoldsPay ==
    ASSUME NEW v \in InventoryType, NEW gone, NEW d
    PROVE  LET w == [v EXCEPT !.holds = @ \ gone]
           IN  /\ w.fee = v.fee
               /\ Paid(w, d) => Paid(v, d)
               /\ Sure(w, d) => Sure(v, d)
               /\ (\A h \in gone : h.status = TemporaryHold \/ h.bookingId # d)
                     => (Paid(v, d) => Paid(w, d)) /\ (Sure(v, d) => Sure(w, d))
<1> DEFINE w == [v EXCEPT !.holds = @ \ gone]
<1>1. w.holds = v.holds \ gone /\ w.fee = v.fee
    BY DEF InventoryType
<1> HIDE DEF w
<1>2. Paid(w, d) => Paid(v, d)
    BY <1>1 DEF Paid, HoldsOf
<1>3. Sure(w, d) => Sure(v, d)
    BY <1>1 DEF Sure, HoldsOf
<1>4. ASSUME \A h \in gone : h.status = TemporaryHold \/ h.bookingId # d
      PROVE  (Paid(v, d) => Paid(w, d)) /\ (Sure(v, d) => Sure(w, d))
    BY <1>1, <1>4 DEF Paid, Sure, HoldsOf, TemporaryHold, HoldConfirmed
<1> QED
    BY <1>1, <1>2, <1>3, <1>4 DEF w

=============================================================================
