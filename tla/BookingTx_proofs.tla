-------------------------- MODULE BookingTx_proofs --------------------------
(***************************************************************************)
(* The transactions of BookingTx implement the atomic ones of Booking, for *)
(* any number of requests, guests and connections.                         *)
(*                                                                         *)
(* StartPayment, Confirm, Cancel and ChangeGuests are serialised by the    *)
(* row's lock, from the read to COMMIT.  Book's saves read nothing: the    *)
(* first runs while nobody else can know the booking, the last takes the   *)
(* lock with its own upsert, before it lists the stored guests.  Either    *)
(* way whoever is about to commit has listed the guests that are stored    *)
(* then, and COMMIT leaves exactly the list that it was asked for.         *)
(***************************************************************************)
EXTENDS BookingTx, TLAPS

Writing == {"applied", "half", "saved"}
Reader(t) == t.op \in {"update", "guests"}

\* A transaction that holds, or must hold, the row's lock
Owns(t) ==
    \/ Reader(t) /\ t.pc \in {"locked", "loaded", "checked"} \cup Writing
    \/ t.op = "overwrite" /\ t.pc \in {"half", "saved"}

\* What a transaction will write is what its operation makes of what is stored.
Composed(t) ==
    /\ t.op = "insert" => t.write.row = NewBooking /\ validGuests(t.write.guests, Capacity)
    /\ t.op = "overwrite" => t.write.row \in Atomic!FinalRows /\ t.write.guests = memory
    /\ t.op = "update" => t.write.row \in Atomic!UpdatedRows(row) /\ t.write.guests = guests
    /\ t.op = "guests" => t.write.row = row /\ CanChangeGuests(row, t.write.guests, Capacity)

\* An operation runs only where it makes sense.
Possible(t) ==
    t.pc # "idle" => /\ t.op = "insert" <=> row = Atomic!Unsaved
                     /\ t.op = "overwrite" => memory # Atomic!Nothing

Proper(t) ==
    /\ Possible(t)
    /\ t.pc \in {"locked", "loaded"} => Reader(t)
    /\ t.pc = "checked" => t.op = "guests"
    /\ Reader(t) /\ t.pc = "locked" => t.read.row = row
    /\ Reader(t) /\ t.pc \in {"loaded", "checked"} \cup Writing => t.read = Stored
    /\ t.pc \in Writing => Composed(t)
    /\ t.pc = "saved" => t.removed = guests \ t.write.guests

AllProper == \A r \in Requests : Proper(tx[r])
LockDiscipline == \A r \in Requests : Owns(tx[r]) => lock = r

\* Book's saves follow each other.
OneSave ==
    \A r, q \in Requests :
        /\ tx[r].pc # "idle" /\ tx[q].pc # "idle"
        /\ tx[r].op = tx[q].op /\ tx[r].op \in {"insert", "overwrite"}
        => r = q

Consistent ==
    /\ row = Atomic!Unsaved => guests = {} /\ memory = Atomic!Nothing
    /\ row # Atomic!Unsaved => validGuests(guests, Capacity)
    /\ memory # Atomic!Nothing => validGuests(memory, Capacity)

IInv == TypeOK /\ AllProper /\ LockDiscipline /\ OneSave /\ Consistent

-----------------------------------------------------------------------------
(* The rows that the operations write *)

LEMMA UnsavedIsNoBooking == Atomic!Unsaved \notin BookingType
BY DEF Atomic!Unsaved, BookingType, Status, TemporaryHold, ProcessingPayment, Confirmed, Cancelled

LEMMA NewIsBooking == NewBooking \in BookingType /\ Atomic!NewBooking = NewBooking
BY DEF NewBooking, Atomic!NewBooking, BookingType, Status, TemporaryHold, Atomic!TemporaryHold

LEMMA ChargeIsNat ==
    ASSUME NEW days, NEW total \in Nat, NEW reason
    PROVE  Atomic!CalculateCancellationFee(days, total, reason) \in Nat
BY DEF Atomic!CalculateCancellationFee

LEMMA CancelledIsBooking ==
    ASSUME NEW k \in BookingType, NEW reason, NEW days
    PROVE  Atomic!AfterCancel(k, reason, days) \in BookingType
<1> DEFINE fee == IF k.status = Atomic!Confirmed
                  THEN Atomic!CalculateCancellationFee(days, k.totalFee, reason) ELSE 0
<1>1. k.totalFee \in Nat
    BY DEF BookingType
<1>2. fee \in Nat
    BY <1>1, ChargeIsNat
<1>3. Atomic!AfterCancel(k, reason, days)
        = IF k.status = Atomic!Cancelled THEN k
          ELSE [k EXCEPT !.status = Atomic!Cancelled, !.cancellationFee = fee]
    BY DEF Atomic!AfterCancel
<1> HIDE DEF fee
<1> QED
    BY <1>2, <1>3 DEF BookingType, Status, Atomic!Cancelled, Cancelled

LEMMA UpdatedIsBooking ==
    ASSUME NEW k \in BookingType, NEW j \in Atomic!UpdatedRows(k)
    PROVE  j \in BookingType
<1>1. /\ Atomic!AfterStartPayment(k) \in BookingType
      /\ Atomic!AfterConfirm(k) \in BookingType
    BY DEF Atomic!AfterStartPayment, Atomic!AfterConfirm, BookingType, Status,
       Atomic!ProcessingPayment, ProcessingPayment, Atomic!Confirmed, Confirmed
<1> QED
    BY <1>1, CancelledIsBooking DEF Atomic!UpdatedRows

LEMMA FinalIsBooking ==
    ASSUME NEW j \in Atomic!FinalRows
    PROVE  j \in BookingType
<1>1. \A total \in Totals : Atomic!AfterFixTotalFee(NewBooking, total) \in BookingType
    BY NewIsBooking, TotalsAssumption DEF Atomic!AfterFixTotalFee, BookingType
<1> QED
    BY <1>1, NewIsBooking, CancelledIsBooking DEF Atomic!FinalRows

LEMMA SameGuestRules ==
    ASSUME NEW k, NEW party
    PROVE  /\ Atomic!validGuests(party, Capacity) = validGuests(party, Capacity)
           /\ Atomic!CanChangeGuests(k, party, Capacity) = CanChangeGuests(k, party, Capacity)
<1>1. Atomic!Cardinality(party) = Cardinality(party)
    BY DEF Atomic!Cardinality, Cardinality
<1>2. Atomic!validGuests(party, Capacity) = validGuests(party, Capacity)
    BY <1>1 DEF Atomic!validGuests, validGuests
<1>3. Atomic!isChangeable(k) = isChangeable(k)
    BY DEF Atomic!isChangeable, isChangeable, Atomic!TemporaryHold, TemporaryHold,
       Atomic!ProcessingPayment, ProcessingPayment, Atomic!Confirmed, Confirmed
<1> QED
    BY <1>2, <1>3 DEF Atomic!CanChangeGuests, CanChangeGuests

-----------------------------------------------------------------------------
(* Statements keep the invariant *)

LEMMA IdleFacts ==
    /\ Idle \in TxType /\ Idle.pc = "idle" /\ Idle.op = "update"
    /\ \A op \in Op : LET t == [Idle EXCEPT !.pc = "waiting", !.op = op]
                      IN  t \in TxType /\ t.pc = "waiting" /\ t.op = op
<1>1. Blank \in Aggregate
    BY DEF Blank, Aggregate, RowType
<1>2. Idle \in TxType /\ Idle.pc = "idle" /\ Idle.op = "update"
    BY <1>1 DEF Idle, TxType, Op
<1> QED
    BY <1>2 DEF TxType

LEMMA InitIInv == Init => IInv
<1> SUFFICES ASSUME Init
             PROVE  IInv
    OBVIOUS
<1>1. \A r \in Requests : tx[r] = Idle
    BY DEF Init
<1>2. TypeOK
    BY <1>1, IdleFacts DEF Init, TypeOK, Atomic!Init, RowType, Atomic!Nothing
<1>3. AllProper
    BY <1>1, IdleFacts DEF AllProper, Proper, Possible, Writing
<1>4. LockDiscipline /\ OneSave
    BY <1>1, IdleFacts DEF LockDiscipline, OneSave, Owns, Writing
<1>5. Consistent
    BY DEF Init, Atomic!Init, Consistent
<1> QED
    BY <1>2, <1>3, <1>4, <1>5 DEF IInv

\* A statement that leaves what is stored alone, and takes the lock only while
\* nobody has it, disturbs no other transaction.
LEMMA StatementKeepsIInv ==
    ASSUME IInv, NEW r \in Requests, NEW rec \in TxType,
           tx' = [tx EXCEPT ![r] = rec], UNCHANGED committed,
           lock' = lock \/ (lock = NoRequest /\ lock' = r),
           Owns(rec) => lock' = r,
           rec.op = tx[r].op /\ tx[r].pc # "idle",
           Proper(rec)
    PROVE  IInv'
<1>1. /\ tx' \in [Requests -> TxType] /\ tx'[r] = rec
      /\ \A q \in Requests \ {r} : tx'[q] = tx[q]
    BY DEF IInv, TypeOK
<1>2. row' = row /\ guests' = guests /\ memory' = memory
    BY DEF committed
<1>3. TypeOK'
    BY <1>1, <1>2 DEF IInv, TypeOK
<1>5. AllProper'
    <2>1. \A q \in Requests : Proper(tx'[q])
        BY <1>1 DEF IInv, AllProper
    <2> QED
        BY <1>2, <2>1 DEF AllProper, Proper, Possible, Composed, Stored
<1>6. LockDiscipline'
    BY <1>1, NoRequestAssumption DEF IInv, LockDiscipline, Owns, Reader
<1>7. OneSave'
    BY <1>1 DEF IInv, OneSave
<1>8. Consistent'
    BY <1>2 DEF IInv, Consistent
<1> QED
    BY <1>3, <1>5, <1>6, <1>7, <1>8 DEF IInv

\* A transaction that ends without writing disturbs no other; with the end of
\* Book's last save Book forgets its booking.
LEMMA EndKeepsIInv ==
    ASSUME IInv, NEW r \in Requests, End(r), row' = row, guests' = guests,
           \/ memory' = memory
           \/ memory' = Atomic!Nothing /\ tx[r].pc # "idle" /\ tx[r].op = "overwrite"
    PROVE  IInv'
<1>1. /\ tx' \in [Requests -> TxType] /\ tx'[r] = Idle
      /\ \A q \in Requests \ {r} : tx'[q] = tx[q]
    BY IdleFacts DEF IInv, TypeOK, End
<1>2. TypeOK'
    BY <1>1 DEF IInv, TypeOK, End, Atomic!Nothing
<1>3. AllProper'
    <2> SUFFICES ASSUME NEW q \in Requests
                 PROVE  Proper(tx[q])'
        BY DEF AllProper
    <2>1. CASE q = r
        BY <2>1, <1>1, IdleFacts DEF Proper, Possible, Writing
    <2>2. CASE q # r
        <3>1. tx'[q] = tx[q] /\ Proper(tx[q]) /\ tx[q] \in TxType
            BY <2>2, <1>1 DEF IInv, AllProper, TypeOK
        <3>2. CASE memory' = memory
            BY <3>1, <3>2 DEF Proper, Possible, Composed, Stored
        <3>3. CASE memory' # memory
            <4>1. tx[q].pc = "idle" \/ tx[q].op # "overwrite"
                BY <3>3, <2>2 DEF IInv, OneSave
            <4> QED
                BY <3>1, <4>1 DEF Proper, Possible, Composed, Stored, Writing
        <3> QED
            BY <3>2, <3>3
    <2> QED
        BY <2>1, <2>2
<1>4. LockDiscipline'
    <2> SUFFICES ASSUME NEW q \in Requests, Owns(tx'[q])
                 PROVE  lock' = q
        BY DEF LockDiscipline, Owns, Reader
    <2>1. q # r
        BY <1>1, IdleFacts DEF Owns, Writing
    <2>2. lock = q
        BY <2>1, <1>1 DEF IInv, LockDiscipline
    <2> QED
        BY <2>1, <2>2 DEF End
<1>5. OneSave'
    <2>1. \A q \in Requests : tx'[q].pc # "idle" => tx'[q] = tx[q]
        BY <1>1, IdleFacts
    <2> QED
        BY <2>1 DEF IInv, OneSave
<1>6. Consistent'
    BY DEF IInv, Consistent
<1> QED
    BY <1>2, <1>3, <1>4, <1>5, <1>6 DEF IInv

LEMMA StartKeepsIInv ==
    ASSUME IInv, NEW r \in Requests, NEW op \in Op, Start(r, op)
    PROVE  IInv'
<1> DEFINE rec == [Idle EXCEPT !.pc = "waiting", !.op = op]
<1>1. rec \in TxType /\ rec.pc = "waiting" /\ rec.op = op
    BY IdleFacts
<1>2. tx' = [tx EXCEPT ![r] = rec] /\ lock' = lock /\ tx[r].pc = "idle" /\ MayStart(op)
    BY DEF Start
<1> HIDE DEF rec
<1>3. /\ tx' \in [Requests -> TxType] /\ tx'[r] = rec
      /\ \A q \in Requests \ {r} : tx'[q] = tx[q]
    BY <1>1, <1>2 DEF IInv, TypeOK
<1>4. row' = row /\ guests' = guests /\ memory' = memory
    BY DEF Start, committed
<1>5. TypeOK'
    BY <1>2, <1>3, <1>4 DEF IInv, TypeOK
<1>6. AllProper'
    <2>1. Possible(rec)
        BY <1>1, <1>2 DEF Possible, MayStart, Op, IInv, Consistent
    <2>2. Proper(rec)
        BY <2>1, <1>1 DEF Proper, Writing
    <2>3. \A q \in Requests : Proper(tx'[q])
        BY <2>2, <1>3 DEF IInv, AllProper
    <2> QED
        BY <1>4, <2>3 DEF AllProper, Proper, Possible, Composed, Stored
<1>7. LockDiscipline'
    <2>1. ~Owns(rec)
        BY <1>1 DEF Owns, Writing
    <2> QED
        BY <1>2, <1>3, <2>1 DEF IInv, LockDiscipline, Owns, Reader
<1>8. OneSave'
    <2>1. \A q \in Requests \ {r} :
             tx[q].pc # "idle" /\ op \in {"insert", "overwrite"} => tx[q].op # op
        BY <1>2 DEF MayStart, Running
    <2> QED
        BY <1>1, <1>3, <2>1 DEF IInv, OneSave
<1>9. Consistent'
    BY <1>4 DEF IInv, Consistent
<1> QED
    BY <1>5, <1>6, <1>7, <1>8, <1>9 DEF IInv

LEMMA ReadingKeepsIInv ==
    ASSUME IInv, NEW r \in Requests,
           \/ Begin(r) \/ FindForUpdate(r) \/ LoadGuests(r) \/ ReadCapacity(r)
    PROVE  IInv'
<1> DEFINE t == tx[r]
<1>1. t \in TxType /\ Proper(t) /\ (Owns(t) => lock = r)
    BY DEF IInv, TypeOK, AllProper, LockDiscipline
<1>2. row \in RowType /\ guests \in SUBSET Guests /\ tx \in [Requests -> TxType]
    BY DEF IInv, TypeOK
<1>3. CASE Begin(r)
    <2> DEFINE rec == [t EXCEPT !.pc = "begun"]
    <2>1. t.pc = "waiting" /\ tx' = [tx EXCEPT ![r] = rec]
        BY <1>3, <1>2 DEF Begin, Goto
    <2>2. rec \in TxType /\ rec.pc = "begun" /\ rec.op = t.op
        BY <1>1 DEF TxType, InTransaction
    <2> HIDE DEF rec
    <2>3. Proper(rec) /\ ~Owns(rec)
        BY <1>1, <2>1, <2>2 DEF Proper, Possible, Owns, Writing
    <2> QED
        BY <1>3, <2>1, <2>2, <2>3, StatementKeepsIInv DEF Begin
<1>4. CASE FindForUpdate(r)
    <2> DEFINE rec == [t EXCEPT !.pc = "locked", !.read.row = row]
    <2>1. t.pc = "begun" /\ Reader(t) /\ tx' = [tx EXCEPT ![r] = rec]
        BY <1>4, <1>2 DEF FindForUpdate, Reader
    <2>2. rec \in TxType /\ rec.pc = "locked" /\ rec.op = t.op /\ rec.read.row = row
        BY <1>1, <1>2 DEF TxType, InTransaction, Aggregate
    <2> HIDE DEF rec
    <2>3. Proper(rec)
        BY <1>1, <2>1, <2>2 DEF Proper, Possible, Writing, Reader
    <2> QED
        BY <1>4, <2>1, <2>2, <2>3, StatementKeepsIInv DEF FindForUpdate, LockToRead
<1>5. CASE LoadGuests(r)
    <2> DEFINE rec == [t EXCEPT !.pc = "loaded", !.read.guests = guests]
    <2>1. t.pc = "locked" /\ Reader(t) /\ tx' = [tx EXCEPT ![r] = rec]
        BY <1>5, <1>1, <1>2 DEF LoadGuests, Proper
    <2>2. rec \in TxType /\ rec.pc = "loaded" /\ rec.op = t.op
          /\ rec.read.row = t.read.row /\ rec.read.guests = guests /\ rec.read \in Aggregate
        BY <1>1, <1>2 DEF TxType, InTransaction, Aggregate
    <2> HIDE DEF rec
    <2>3. rec.read = Stored
        BY <1>1, <2>1, <2>2 DEF Proper, Aggregate, Stored
    <2>4. Proper(rec)
        BY <1>1, <2>1, <2>2, <2>3 DEF Proper, Possible, Writing, Reader
    <2>5. lock = r
        BY <1>1, <2>1 DEF Owns
    <2> QED
        BY <1>5, <2>1, <2>2, <2>4, <2>5, StatementKeepsIInv DEF LoadGuests
<1>6. CASE ReadCapacity(r)
    <2> DEFINE rec == [t EXCEPT !.pc = "checked"]
    <2>1. t.pc = "loaded" /\ t.op = "guests" /\ tx' = [tx EXCEPT ![r] = rec]
        BY <1>6, <1>2 DEF ReadCapacity, Goto
    <2>2. rec \in TxType /\ rec.pc = "checked" /\ rec.op = t.op /\ rec.read = t.read
        BY <1>1 DEF TxType, InTransaction
    <2> HIDE DEF rec
    <2>3. Proper(rec)
        BY <1>1, <2>1, <2>2 DEF Proper, Possible, Writing, Reader
    <2>4. lock = r
        BY <1>1, <2>1 DEF Owns, Reader
    <2> QED
        BY <1>6, <2>1, <2>2, <2>3, <2>4, StatementKeepsIInv DEF ReadCapacity
<1> QED
    BY <1>3, <1>4, <1>5, <1>6

LEMMA WritingKeepsIInv ==
    ASSUME IInv, NEW r \in Requests,
           ComposeBook(r) \/ Apply(r) \/ UpsertRow(r) \/ SaveGuests(r)
    PROVE  IInv'
<1> DEFINE t == tx[r]
<1>1. t \in TxType /\ Proper(t) /\ (Owns(t) => lock = r)
    BY DEF IInv, TypeOK, AllProper, LockDiscipline
<1>2. /\ row \in RowType /\ guests \in SUBSET Guests /\ memory \in SUBSET Guests
      /\ tx \in [Requests -> TxType]
    BY DEF IInv, TypeOK
<1>3. CASE ComposeBook(r)
    <2>1. PICK w \in Aggregate :
             /\ tx' = [tx EXCEPT ![r] = [t EXCEPT !.pc = "applied", !.write = w]]
             /\ t.op \in {"insert", "overwrite"}
             /\ t.op = "insert" => w.row = NewBooking /\ validGuests(w.guests, Capacity)
             /\ t.op = "overwrite" => w.row \in Atomic!FinalRows /\ w.guests = memory
        <3>1. CASE t.op = "insert"
            <4>1. PICK party \in SUBSET Guests :
                     /\ validGuests(party, Capacity)
                     /\ tx' = [tx EXCEPT ![r].pc = "applied",
                                  ![r].write = [row |-> NewBooking, guests |-> party]]
                BY <1>3, <3>1 DEF ComposeBook
            <4> DEFINE w == [row |-> NewBooking, guests |-> party]
            <4>2. w \in Aggregate /\ w.row = NewBooking /\ w.guests = party
                BY NewIsBooking DEF Aggregate, RowType
            <4>3. tx' = [tx EXCEPT ![r] = [t EXCEPT !.pc = "applied", !.write = w]]
                BY <4>1, <1>2
            <4> QED
                BY <3>1, <4>1, <4>2, <4>3
        <3>2. CASE t.op = "overwrite"
            <4>1. PICK k \in Atomic!FinalRows :
                     tx' = [tx EXCEPT ![r].pc = "applied",
                               ![r].write = [row |-> k, guests |-> memory]]
                BY <1>3, <3>2 DEF ComposeBook
            <4> DEFINE w == [row |-> k, guests |-> memory]
            <4>2. w \in Aggregate /\ w.row = k /\ w.guests = memory
                BY FinalIsBooking, <1>2 DEF Aggregate, RowType
            <4>3. tx' = [tx EXCEPT ![r] = [t EXCEPT !.pc = "applied", !.write = w]]
                BY <4>1, <1>2
            <4> QED
                BY <3>2, <4>1, <4>2, <4>3
        <3> QED
            BY <1>3, <3>1, <3>2 DEF ComposeBook
    <2> DEFINE rec == [t EXCEPT !.pc = "applied", !.write = w]
    <2>2. rec \in TxType /\ rec.pc = "applied" /\ rec.op = t.op /\ rec.write = w
        BY <1>1 DEF TxType, InTransaction
    <2>3. tx' = [tx EXCEPT ![r] = rec] /\ t.pc = "begun"
        BY <1>3, <2>1 DEF ComposeBook
    <2> HIDE DEF rec
    <2>4. Composed(rec) /\ ~Reader(rec)
        BY <2>1, <2>2 DEF Composed, Reader
    <2>5. Proper(rec) /\ ~Owns(rec)
        BY <1>1, <2>2, <2>3, <2>4 DEF Proper, Possible, Owns
    <2> QED
        BY <1>3, <2>2, <2>3, <2>5, StatementKeepsIInv DEF ComposeBook
<1>4. CASE Apply(r)
    <2>1. /\ Reader(t) /\ t.pc \in {"loaded", "checked"} /\ lock = r
          /\ t.read = Stored /\ t.read.row = row /\ t.read.guests = guests
        BY <1>4, <1>1 DEF Apply, Proper, Reader, Owns, Stored
    <2>2. row \in BookingType
        BY <1>1, <1>2, <2>1 DEF Proper, Possible, Reader, RowType
    <2>3. PICK w \in Aggregate :
             /\ tx' = [tx EXCEPT ![r] = [t EXCEPT !.pc = "applied", !.write = w]]
             /\ t.op = "update" => w.row \in Atomic!UpdatedRows(row) /\ w.guests = guests
             /\ t.op = "guests" => w.row = row /\ CanChangeGuests(row, w.guests, Capacity)
        <3>1. CASE t.pc = "loaded"
            <4>1. PICK k \in Atomic!UpdatedRows(row) :
                     tx' = [tx EXCEPT ![r].pc = "applied",
                               ![r].write = [tx[r].read EXCEPT !.row = k]]
                BY <1>4, <2>1, <3>1 DEF Apply
            <4> DEFINE w == [t.read EXCEPT !.row = k]
            <4>2. w \in Aggregate /\ w.row = k /\ w.guests = guests
                BY <1>1, <2>1, <2>2, UpdatedIsBooking DEF TxType, Aggregate, RowType
            <4>3. tx' = [tx EXCEPT ![r] = [t EXCEPT !.pc = "applied", !.write = w]]
                BY <4>1, <1>2
            <4>4. t.op = "update"
                BY <1>4, <3>1 DEF Apply
            <4> QED
                BY <4>1, <4>2, <4>3, <4>4
        <3>2. CASE t.pc = "checked"
            <4>1. PICK party \in SUBSET Guests :
                     /\ CanChangeGuests(row, party, Capacity)
                     /\ tx' = [tx EXCEPT ![r].pc = "applied",
                                  ![r].write = [tx[r].read EXCEPT !.guests = party]]
                BY <1>4, <2>1, <3>2 DEF Apply
            <4> DEFINE w == [t.read EXCEPT !.guests = party]
            <4>2. w \in Aggregate /\ w.row = row /\ w.guests = party
                BY <1>1, <2>1 DEF TxType, Aggregate
            <4>3. tx' = [tx EXCEPT ![r] = [t EXCEPT !.pc = "applied", !.write = w]]
                BY <4>1, <1>2
            <4>4. t.op = "guests"
                BY <1>1, <3>2 DEF Proper
            <4> QED
                BY <4>1, <4>2, <4>3, <4>4
        <3> QED
            BY <2>1, <3>1, <3>2
    <2> DEFINE rec == [t EXCEPT !.pc = "applied", !.write = w]
    <2>4. rec \in TxType /\ rec.pc = "applied" /\ rec.op = t.op /\ rec.write = w /\ rec.read = t.read
        BY <1>1 DEF TxType, InTransaction
    <2>5. tx' = [tx EXCEPT ![r] = rec]
        BY <2>3
    <2> HIDE DEF rec
    <2>6. Composed(rec)
        BY <2>1, <2>3, <2>4 DEF Composed, Reader
    <2>7. Proper(rec)
        BY <1>1, <2>1, <2>4, <2>6 DEF Proper, Possible, Reader
    <2> QED
        BY <1>4, <2>1, <2>4, <2>5, <2>7, StatementKeepsIInv DEF Apply
<1>5. CASE UpsertRow(r)
    <2> DEFINE rec == [t EXCEPT !.pc = "half"]
    <2>1. t.pc = "applied" /\ tx' = [tx EXCEPT ![r] = rec]
        BY <1>5, <1>2 DEF UpsertRow, Turn, Goto, AfterPart
    <2>2. rec \in TxType /\ rec.pc = "half" /\ rec.op = t.op /\ rec.read = t.read /\ rec.write = t.write
        BY <1>1 DEF TxType, InTransaction
    <2> HIDE DEF rec
    <2>3. Proper(rec)
        BY <1>1, <2>1, <2>2 DEF Proper, Possible, Writing, Composed, Reader
    <2>4. lock' = lock \/ (lock = NoRequest /\ lock' = r)
        BY <1>5 DEF UpsertRow
    <2>5. Owns(rec) => lock' = r
        BY <1>5, <2>2 DEF UpsertRow, Owns, Reader
    <2> QED
        BY <1>5, <2>1, <2>2, <2>3, <2>4, <2>5, StatementKeepsIInv DEF UpsertRow
<1>6. CASE SaveGuests(r)
    <2> DEFINE rec == [t EXCEPT !.pc = "saved", !.removed = guests \ t.write.guests]
    <2>1. t.pc = "half" /\ tx' = [tx EXCEPT ![r] = rec]
        BY <1>6, <1>2 DEF SaveGuests, Turn, AfterPart
    <2>2. /\ rec \in TxType /\ rec.pc = "saved" /\ rec.op = t.op
          /\ rec.read = t.read /\ rec.write = t.write /\ rec.removed = guests \ t.write.guests
        BY <1>1, <1>2 DEF TxType, InTransaction
    <2> HIDE DEF rec
    <2>3. Proper(rec)
        BY <1>1, <2>1, <2>2 DEF Proper, Possible, Writing, Composed, Reader
    <2>4. Owns(rec) => lock = r
        BY <1>1, <2>1, <2>2 DEF Owns, Reader, Writing
    <2> QED
        BY <1>6, <2>1, <2>2, <2>3, <2>4, StatementKeepsIInv DEF SaveGuests
<1> QED
    BY <1>3, <1>4, <1>5, <1>6

\* COMMIT leaves what was to be written, a booking with a proper list of guests,
\* and whoever else runs has read nothing yet.
LEMMA CommitWrites ==
    ASSUME IInv, NEW r \in Requests, Commit(r)
    PROVE  /\ row' = tx[r].write.row /\ row' \in BookingType
           /\ guests' = tx[r].write.guests /\ validGuests(guests', Capacity)
           /\ tx[r] \in TxType /\ tx[r].pc = "saved" /\ Proper(tx[r]) /\ Composed(tx[r])
           /\ tx[r].op # "insert" => row \in BookingType
           /\ \A q \in Requests \ {r} :
                 /\ ~Owns(tx[q])
                 /\ tx[q].pc # "idle" => tx[q].op # "insert" /\ tx[r].op # "insert"
<1> DEFINE t == tx[r]
<1>1. t \in TxType /\ Proper(t) /\ (Owns(t) => lock = r) /\ t.pc = "saved"
    BY DEF IInv, TypeOK, AllProper, LockDiscipline, Commit
<1>2. Composed(t) /\ t.removed = guests \ t.write.guests
    BY <1>1 DEF Proper, Writing
<1>3. guests' = t.write.guests /\ row' = t.write.row
    BY <1>2 DEF Commit
<1>4. t.op # "insert" => row \in BookingType
    BY <1>1 DEF Proper, Possible, IInv, TypeOK, RowType
<1>5. row' \in BookingType /\ validGuests(guests', Capacity)
    <2>1. CASE t.op = "insert"
        BY <2>1, <1>2, <1>3, NewIsBooking DEF Composed
    <2>2. CASE t.op = "overwrite"
        <3>1. memory # Atomic!Nothing
            BY <1>1, <2>2 DEF Proper, Possible
        <3>2. validGuests(memory, Capacity)
            BY <3>1 DEF IInv, Consistent
        <3> QED
            BY <2>2, <3>2, <1>2, <1>3, FinalIsBooking DEF Composed
    <2>3. CASE t.op = "update"
        <3>1. validGuests(guests, Capacity)
            BY <1>4, <2>3, UnsavedIsNoBooking DEF IInv, Consistent
        <3> QED
            BY <2>3, <3>1, <1>2, <1>3, <1>4, UpdatedIsBooking DEF Composed
    <2>4. CASE t.op = "guests"
        BY <2>4, <1>2, <1>3, <1>4 DEF Composed, CanChangeGuests
    <2> QED
        BY <1>1, <2>1, <2>2, <2>3, <2>4 DEF TxType, Op
<1>6. ASSUME NEW q \in Requests \ {r}
      PROVE  /\ ~Owns(tx[q])
             /\ tx[q].pc # "idle" => tx[q].op # "insert" /\ t.op # "insert"
    <2>1. tx[q].pc # "idle" => tx[q].op # "insert" /\ t.op # "insert"
        <3> SUFFICES ASSUME tx[q].pc # "idle", tx[q].op = "insert" \/ t.op = "insert"
                     PROVE  FALSE
            OBVIOUS
        <3>1. Possible(tx[q]) /\ Possible(t)
            BY DEF IInv, AllProper, Proper
        <3>2. tx[q].op = "insert" /\ t.op = "insert"
            BY <1>1, <3>1 DEF Possible
        <3> QED
            BY <1>1, <3>2 DEF IInv, OneSave
    <2>2. ~Owns(tx[q])
        <3>1. CASE t.op = "insert"
            BY <2>1, <3>1 DEF Owns, Writing
        <3>2. CASE t.op # "insert"
            <4>1. lock = r
                BY <1>1, <3>2 DEF Owns, Reader, Writing, TxType, Op
            <4> QED
                BY <4>1 DEF IInv, LockDiscipline
        <3> QED
            BY <3>1, <3>2
    <2> QED
        BY <2>1, <2>2
<1> QED
    BY <1>1, <1>2, <1>3, <1>4, <1>5, <1>6

LEMMA CommitKeepsIInv ==
    ASSUME IInv, NEW r \in Requests, Commit(r)
    PROVE  IInv'
<1> DEFINE t == tx[r]
<1>1. /\ t \in TxType /\ Composed(t) /\ t.pc = "saved"
      /\ row' \in BookingType /\ row' # Atomic!Unsaved
      /\ validGuests(guests', Capacity) /\ guests' = t.write.guests
    BY CommitWrites, UnsavedIsNoBooking
<1>2. /\ tx' \in [Requests -> TxType] /\ tx'[r] = Idle
      /\ \A q \in Requests \ {r} : tx'[q] = tx[q]
    BY IdleFacts DEF IInv, TypeOK, Commit, End
<1>3. /\ t.op = "insert" => memory' \in {guests', Atomic!Nothing}
      /\ t.op = "overwrite" => memory' = Atomic!Nothing
      /\ t.op \notin {"insert", "overwrite"} => memory' = memory
    BY <1>1 DEF Commit
<1>4. t.op \in Op /\ t.write.guests \in SUBSET Guests
    BY <1>1 DEF TxType, Aggregate
<1>5. TypeOK'
    <2>1. memory' \in SUBSET Guests
        BY <1>1, <1>3, <1>4 DEF IInv, TypeOK, Atomic!Nothing
    <2>2. lock' \in Requests \cup {NoRequest}
        BY DEF Commit, End, IInv, TypeOK
    <2> QED
        BY <1>1, <1>2, <1>4, <2>1, <2>2 DEF TypeOK, RowType
<1>6. AllProper'
    <2> SUFFICES ASSUME NEW q \in Requests
                 PROVE  Proper(tx[q])'
        BY DEF AllProper
    <2>1. CASE q = r
        BY <2>1, <1>2, IdleFacts DEF Proper, Possible, Writing
    <2>2. CASE q # r
        <3>1. /\ tx'[q] = tx[q] /\ Proper(tx[q]) /\ tx[q] \in TxType /\ ~Owns(tx[q])
              /\ tx[q].pc # "idle" => tx[q].op # "insert" /\ t.op # "insert"
            BY <2>2, <1>2, CommitWrites DEF IInv, AllProper, TypeOK
        <3>2. CASE tx[q].pc = "idle"
            BY <3>1, <3>2 DEF Proper, Possible, Writing
        <3>3. CASE tx[q].pc # "idle" /\ tx[q].op = "overwrite"
            <4>1. t.op # "overwrite"
                BY <1>1, <2>2, <3>3 DEF IInv, OneSave
            <4>2. memory' = memory
                BY <1>3, <3>1, <3>3, <4>1
            <4> QED
                BY <1>1, <3>1, <3>3, <4>2 DEF Proper, Possible, Composed, Owns, Reader, Writing
        <3>4. CASE tx[q].pc # "idle" /\ tx[q].op # "overwrite"
            <4>1. Reader(tx[q])
                BY <3>1, <3>4 DEF TxType, Op, Reader
            <4> QED
                BY <1>1, <3>1, <3>4, <4>1 DEF Proper, Possible, Owns, Reader, Writing
        <3> QED
            BY <3>2, <3>3, <3>4
    <2> QED
        BY <2>1, <2>2
<1>7. LockDiscipline'
    <2>1. ~Owns(Idle)
        BY IdleFacts DEF Owns, Writing
    <2>2. \A q \in Requests \ {r} : ~Owns(tx[q])
        BY CommitWrites
    <2>3. \A q \in Requests : ~Owns(tx'[q])
        BY <1>2, <2>1, <2>2
    <2> QED
        BY <2>3 DEF LockDiscipline, Owns, Reader
<1>8. OneSave'
    <2>1. \A q \in Requests : tx'[q].pc # "idle" => tx'[q] = tx[q]
        BY <1>2, IdleFacts
    <2> QED
        BY <2>1 DEF IInv, OneSave
<1>9. Consistent'
    BY <1>1, <1>3, <1>4 DEF IInv, Consistent, Op
<1> QED
    BY <1>5, <1>6, <1>7, <1>8, <1>9 DEF IInv

LEMMA ForgetKeepsIInv ==
    ASSUME IInv, Forget
    PROVE  IInv'
<1>1. /\ tx' = tx /\ lock' = lock /\ row' = row /\ guests' = guests
      /\ memory # Atomic!Nothing /\ memory' = Atomic!Nothing
      /\ \A q \in Requests : tx[q].pc = "idle" \/ tx[q].op # "overwrite"
    BY DEF Forget, Atomic!Forget, Running
<1>2. TypeOK'
    BY <1>1 DEF IInv, TypeOK, Atomic!Nothing
<1>3. AllProper'
    <2> SUFFICES ASSUME NEW q \in Requests
                 PROVE  Proper(tx[q])'
        BY DEF AllProper
    <2>1. Proper(tx[q]) /\ (tx[q].pc = "idle" \/ tx[q].op # "overwrite")
        BY <1>1 DEF IInv, AllProper
    <2> QED
        BY <1>1, <2>1 DEF Proper, Possible, Composed, Stored, Writing
<1>4. LockDiscipline' /\ OneSave'
    BY <1>1 DEF IInv, LockDiscipline, OneSave, Owns, Reader
<1>5. Consistent'
    BY <1>1 DEF IInv, Consistent
<1> QED
    BY <1>2, <1>3, <1>4, <1>5 DEF IInv

LEMMA NextIInv == IInv /\ [Next]_vars => IInv'
<1> SUFFICES ASSUME IInv, [Next]_vars
             PROVE  IInv'
    OBVIOUS
<1>1. ASSUME NEW r \in Requests, NEW op \in Op, Start(r, op)
      PROVE  IInv'
    BY <1>1, StartKeepsIInv
<1>2. ASSUME NEW r \in Requests, Statement(r)
      PROVE  IInv'
    <2>1. CASE Refuse(r)
        BY <2>1, EndKeepsIInv DEF Refuse, committed
    <2>2. CASE Commit(r)
        BY <2>2, CommitKeepsIInv
    <2> QED
        BY <1>2, <2>1, <2>2, ReadingKeepsIInv, WritingKeepsIInv DEF Statement
<1>3. ASSUME NEW r \in Requests, Abort(r)
      PROVE  IInv'
    <2>1. /\ End(r) /\ row' = row /\ guests' = guests /\ tx[r].pc # "idle"
          /\ memory' = memory \/ (memory' = Atomic!Nothing /\ tx[r].op = "overwrite")
        BY <1>3 DEF Abort
    <2> QED
        BY <2>1, EndKeepsIInv
<1>4. CASE Forget
    BY <1>4, ForgetKeepsIInv
<1>5. CASE UNCHANGED vars
    <2>1. row' = row /\ guests' = guests /\ memory' = memory /\ lock' = lock /\ tx' = tx
        BY <1>5 DEF vars
    <2> QED
        BY <2>1 DEF IInv, TypeOK, AllProper, Proper, Possible, Composed, Stored,
           LockDiscipline, Owns, Reader, OneSave, Consistent
<1> QED
    BY <1>1, <1>2, <1>3, <1>4, <1>5 DEF Next

LEMMA Invariance == Spec => []IInv
BY InitIInv, NextIInv, PTL DEF Spec

-----------------------------------------------------------------------------
(* What it says *)

\* The variables keep their types.
THEOREM TypeCorrect == Spec => []TypeOK
<1>1. IInv => TypeOK
    BY DEF IInv
<1> QED
    BY <1>1, Invariance, PTL

\* Nobody changes the row or the guests that a request has read until it commits,
\* however many requests run and whenever Book saves.
THEOREM ReadsStayCurrent == Spec => []ReadIsCurrent
<1>1. IInv => ReadIsCurrent
    BY DEF IInv, AllProper, Proper, ReadIsCurrent, Reader, Writing
<1> QED
    BY <1>1, Invariance, PTL

\* What is stored is one list of guests within the capacity, never the remains of
\* two.
THEOREM GuestsNeverMix == Spec => []GuestsWithinCapacity
<1>1. IInv => GuestsWithinCapacity
    BY DEF IInv, Consistent, GuestsWithinCapacity
<1> QED
    BY <1>1, Invariance, PTL

\* A payment or a cancellation leaves the guests alone, also those that were
\* changed while it waited.
THEOREM UpdatesKeepGuests == Spec => GuestsStay
<1> DEFINE Step == guests' # guests =>
         \E r \in Requests : /\ tx[r].pc = "saved" /\ tx'[r].pc = "idle"
                             /\ tx[r].op \in {"insert", "guests", "overwrite"}
<1>1. ASSUME IInv, [Next]_vars, guests' # guests
      PROVE  \E r \in Requests : /\ tx[r].pc = "saved" /\ tx'[r].pc = "idle"
                                 /\ tx[r].op \in {"insert", "guests", "overwrite"}
    <2>1. PICK r \in Requests : Commit(r)
        BY <1>1 DEF Next, Start, Statement, Begin, ComposeBook, FindForUpdate, LoadGuests,
           ReadCapacity, Apply, Refuse, UpsertRow, SaveGuests, Abort, Forget,
           Atomic!Forget, committed, vars
    <2>2. /\ tx[r] \in TxType /\ tx[r].pc = "saved" /\ Composed(tx[r])
          /\ guests' = tx[r].write.guests
        BY <1>1, <2>1, CommitWrites
    <2>3. tx[r].op # "update"
        BY <1>1, <2>2 DEF Composed
    <2>4. tx'[r] = Idle
        BY <1>1, <2>1 DEF Commit, End, IInv, TypeOK
    <2> QED
        BY <2>2, <2>3, <2>4, IdleFacts DEF TxType, Op
<1>2. IInv /\ [Next]_vars => Step
    BY <1>1
<1> HIDE DEF Step
<1>3. Spec => [][Step]_vars
    BY <1>2, Invariance, PTL DEF Spec
<1> QED
    BY <1>3 DEF GuestsStay, Step

LEMMA CommitIsAtomic ==
    ASSUME IInv, NEW r \in Requests, Commit(r)
    PROVE  Atomic!Next
<1> DEFINE t == tx[r]
<1>1. /\ row' = t.write.row /\ guests' = t.write.guests
      /\ t \in TxType /\ t.pc = "saved" /\ Possible(t) /\ Composed(t)
      /\ t.op # "insert" => row \in BookingType
    BY CommitWrites DEF Proper
<1>2. t.op \in Op /\ t.write.guests \in SUBSET Guests
    BY <1>1 DEF TxType, Aggregate
<1>3. t.op # "insert" => Atomic!Saved
    BY <1>1, UnsavedIsNoBooking DEF Atomic!Saved
<1>4. CASE t.op = "insert"
    <2>1. Atomic!Book(t.write.guests)
        <3>1. ~Atomic!Saved
            BY <1>1, <1>4 DEF Possible, Atomic!Saved
        <3>2. memory' \in {t.write.guests, Atomic!Nothing}
            BY <1>4 DEF Commit
        <3> QED
            BY <1>1, <1>4, <3>1, <3>2, NewIsBooking, SameGuestRules DEF Atomic!Book, Composed
    <2> QED
        BY <1>2, <2>1 DEF Atomic!Next
<1>5. CASE t.op = "overwrite"
    <2>1. Atomic!Overwrite(t.write.row) /\ t.write.row \in Atomic!FinalRows
        BY <1>1, <1>5 DEF Atomic!Overwrite, Possible, Composed, Commit
    <2> QED
        BY <2>1 DEF Atomic!Next
<1>6. CASE t.op = "update"
    <2>1. Atomic!Update(t.write.row) /\ t.write.row \in Atomic!UpdatedRows(row)
        BY <1>1, <1>6 DEF Atomic!Update, Composed, Commit
    <2> QED
        BY <1>3, <1>6, <2>1 DEF Atomic!Next
<1>7. CASE t.op = "guests"
    <2>1. Atomic!ChangeGuests(t.write.guests)
        BY <1>1, <1>3, <1>7, SameGuestRules DEF Atomic!ChangeGuests, Composed, Commit
    <2> QED
        BY <1>2, <2>1 DEF Atomic!Next
<1> QED
    BY <1>2, <1>4, <1>5, <1>6, <1>7 DEF Op

\* The transactions, with their locks and their waiting, do to a booking what the
\* atomic operations of Booking would do.
THEOREM TransactionsImplementBooking == Spec => ImplementsBooking
<1>1. Init => Atomic!Init
    BY DEF Init
<1>2. IInv /\ [Next]_vars => [Atomic!Next]_(Atomic!vars)
    <2> SUFFICES ASSUME IInv, [Next]_vars
                 PROVE  Atomic!Next \/ UNCHANGED <<row, guests, memory>>
        BY DEF Atomic!vars
    <2>1. ASSUME NEW r \in Requests, Commit(r)
          PROVE  Atomic!Next
        BY <2>1, CommitIsAtomic
    <2>2. ASSUME NEW r \in Requests, Abort(r)
          PROVE  Atomic!Next \/ UNCHANGED <<row, guests, memory>>
        <3>1. CASE tx[r].op = "overwrite"
            <4>1. memory # Atomic!Nothing
                BY <2>2, <3>1 DEF Abort, IInv, AllProper, Proper, Possible
            <4> QED
                BY <2>2, <3>1, <4>1 DEF Abort, Atomic!Next, Atomic!Forget
        <3>2. CASE tx[r].op # "overwrite"
            BY <2>2, <3>2 DEF Abort
        <3> QED
            BY <3>1, <3>2
    <2>3. CASE Forget
        BY <2>3 DEF Forget, Atomic!Next
    <2>4. ASSUME NEW r \in Requests,
                 (\E op \in Op : Start(r, op)) \/ (Statement(r) /\ ~Commit(r))
          PROVE  UNCHANGED <<row, guests, memory>>
        BY <2>4 DEF Start, Statement, Begin, ComposeBook, FindForUpdate, LoadGuests,
           ReadCapacity, Apply, Refuse, UpsertRow, SaveGuests, committed
    <2>5. CASE UNCHANGED vars
        BY <2>5 DEF vars
    <2> QED
        BY <2>1, <2>2, <2>3, <2>4, <2>5 DEF Next, Statement
<1> QED
    BY <1>1, <1>2, Invariance, PTL DEF Spec, ImplementsBooking, Atomic!Spec

=============================================================================
