------------------------------ MODULE BookingTx ------------------------------
(***************************************************************************)
(* The transactions on a booking, statement by statement: FindForUpdate,   *)
(* load, Save and COMMIT of internal/booking/infra/postgres/repository.go, *)
(* as StartPayment, Confirm, Cancel and ChangeGuests of                    *)
(* internal/booking/app/booking.go use them, and the two saves of Book,    *)
(* which read nothing.                                                     *)
(*                                                                         *)
(* A booking is a row and the rows of its guests, changed in one           *)
(* transaction at READ COMMITTED.  No lock_timeout is set here: a request  *)
(* waits for the row until its deadline.  Every transaction keeps a        *)
(* connection of the API's pool, and ChangeGuests asks for a second one    *)
(* while it holds the row (roomTypes.Capacity reads outside it).           *)
(***************************************************************************)
EXTENDS BookingDomain

CONSTANTS Guests, Capacity, Totals, Days,      \* as in Booking
          Requests,      \* requests that may run at the same time
          NoRequest,     \* nobody
          PoolSize       \* connections in the pool

ASSUME CapacityAssumption == Capacity \in Nat \ {0}
ASSUME TotalsAssumption == Totals \subseteq Nat
ASSUME DaysAssumption == Days \subseteq Int
ASSUME NoRequestAssumption == NoRequest \notin Requests
ASSUME PoolAssumption == PoolSize \in Nat \ {0}

VARIABLES row, guests,   \* the committed rows, as in Booking
          memory,        \* the guests in a running Book's memory, as in Booking
          lock,          \* the request whose transaction holds the row's lock
          tx             \* per request: its transaction

vars == <<row, guests, memory, lock, tx>>
committed == <<row, guests, memory>>

Atomic == INSTANCE Booking

(***************************************************************************)
(* waiting   for a connection                                              *)
(* begun     BEGIN is done                                                 *)
(* locked    SELECT ... FOR UPDATE returned the row                        *)
(* loaded    the guests are read too: the aggregate is rebuilt             *)
(* checked   ChangeGuests knows the room type's capacity                   *)
(* applied   what Save will write is known                                 *)
(* half      the first of Save's two parts is done                         *)
(* saved     both are                                                      *)
(*                                                                         *)
(* op: insert and overwrite are Book's first and last save, update is      *)
(* StartPayment, Confirm or Cancel, guests is ChangeGuests.                *)
(***************************************************************************)
InTransaction == {"begun", "locked", "loaded", "checked", "applied", "half", "saved"}
Op == {"insert", "overwrite", "update", "guests"}

RowType == BookingType \cup {Atomic!Unsaved}
Aggregate == [row : RowType, guests : SUBSET Guests]
TxType == [pc : InTransaction \cup {"idle", "waiting"}, op : Op,
           read : Aggregate, write : Aggregate, removed : SUBSET Guests]

TypeOK ==
    /\ row \in RowType
    /\ guests \in SUBSET Guests
    /\ memory \in SUBSET Guests
    /\ lock \in Requests \cup {NoRequest}
    /\ tx \in [Requests -> TxType]

Blank == [row |-> Atomic!Unsaved, guests |-> {}]
Idle == [pc |-> "idle", op |-> "update", read |-> Blank, write |-> Blank, removed |-> {}]

Init ==
    /\ Atomic!Init
    /\ lock = NoRequest
    /\ tx = [r \in Requests |-> Idle]

-----------------------------------------------------------------------------
(* State formulae and the shapes of a step *)

Stored == [row |-> row, guests |-> guests]
Running(op) == \E r \in Requests : tx[r].pc # "idle" /\ tx[r].op = op

Goto(r, pc) == tx' = [tx EXCEPT ![r].pc = pc]

\* COMMIT or ROLLBACK: the lock goes and the connection returns to the pool.
End(r) ==
    /\ tx' = [tx EXCEPT ![r] = Idle]
    /\ lock' = IF lock = r THEN NoRequest ELSE lock

InUse == Cardinality({r \in Requests : tx[r].pc \in InTransaction})

FreeConnection_OneLost == InUse + 1 < PoolSize
FreeConnection == InUse < PoolSize

-----------------------------------------------------------------------------
(* Statements *)

\* A request asks the pool for a connection.  Book's saves follow each other in
\* one goroutine; the booking's id is known to nobody before the first commits.
MayStart(op) ==
    CASE op = "insert" -> row = Atomic!Unsaved /\ ~Running("insert")
      [] op = "overwrite" -> memory # Atomic!Nothing /\ ~Running("overwrite")
      [] OTHER -> row # Atomic!Unsaved

Start(r, op) ==
    /\ tx[r].pc = "idle"
    /\ MayStart(op)
    /\ tx' = [tx EXCEPT ![r] = [Idle EXCEPT !.pc = "waiting", !.op = op]]
    /\ UNCHANGED <<committed, lock>>

Begin(r) ==
    /\ tx[r].pc = "waiting"
    /\ FreeConnection
    /\ Goto(r, "begun")
    /\ UNCHANGED <<committed, lock>>

\* Book's saves write what Book has in memory and read nothing.
ComposeBook(r) ==
    /\ tx[r].pc = "begun"
    /\ \/ /\ tx[r].op = "insert"
          /\ \E party \in SUBSET Guests :
                /\ validGuests(party, Capacity)
                /\ tx' = [tx EXCEPT ![r].pc = "applied",
                             ![r].write = [row |-> NewBooking, guests |-> party]]
       \/ /\ tx[r].op = "overwrite"
          /\ \E k \in Atomic!FinalRows :
                tx' = [tx EXCEPT ![r].pc = "applied",
                          ![r].write = [row |-> k, guests |-> memory]]
    /\ UNCHANGED <<committed, lock>>

LockToRead_None == lock \in Requests \cup {NoRequest}
LockToRead == lock = NoRequest

FindForUpdate(r) ==
    /\ tx[r].pc = "begun"
    /\ tx[r].op \in {"update", "guests"}
    /\ LockToRead
    /\ lock' = r
    /\ tx' = [tx EXCEPT ![r].pc = "locked", ![r].read.row = row]
    /\ UNCHANGED committed

LoadGuests(r) ==
    /\ tx[r].pc = "locked"
    /\ tx' = [tx EXCEPT ![r].pc = "loaded", ![r].read.guests = guests]
    /\ UNCHANGED <<committed, lock>>

\* The capacity is read through the pool, on a connection of its own that is
\* given back at once.
ReadCapacity(r) ==
    /\ tx[r].pc = "loaded"
    /\ tx[r].op = "guests"
    /\ FreeConnection
    /\ Goto(r, "checked")
    /\ UNCHANGED <<committed, lock>>

\* A new list of guests: their ids are drawn afresh.
Fresh(party) == party \cap (guests \cup memory) = {}

Apply(r) ==
    /\ \/ /\ tx[r].pc = "loaded"
          /\ tx[r].op = "update"
          /\ \E k \in Atomic!UpdatedRows(tx[r].read.row) :
                tx' = [tx EXCEPT ![r].pc = "applied",
                          ![r].write = [tx[r].read EXCEPT !.row = k]]
       \/ /\ tx[r].pc = "checked"
          /\ \E party \in SUBSET Guests :
                /\ Fresh(party)
                /\ CanChangeGuests(tx[r].read.row, party, Capacity)
                /\ tx' = [tx EXCEPT ![r].pc = "applied",
                             ![r].write = [tx[r].read EXCEPT !.guests = party]]
    /\ UNCHANGED <<committed, lock>>

\* The aggregate refuses, or the room type is gone.
Refuse(r) ==
    /\ tx[r].pc = IF tx[r].op = "guests" THEN "checked" ELSE "loaded"
    /\ End(r)
    /\ UNCHANGED committed

\* Save upserts the booking's row first and changes the guests' rows after it:
\* Turn says at which pc each part runs.
Turn_GuestsFirst == [row |-> "half", guests |-> "applied"]
Turn == [row |-> "applied", guests |-> "half"]
AfterPart(pc) == IF pc = "applied" THEN "half" ELSE "saved"

\* ON CONFLICT DO UPDATE waits for the row's lock and takes it.  The first save
\* inserts, and an uncommitted row is seen by nobody.
UpsertRow(r) ==
    /\ tx[r].pc = Turn["row"]
    /\ IF tx[r].op = "insert" THEN UNCHANGED lock
       ELSE lock \in {NoRequest, r} /\ lock' = r
    /\ Goto(r, AfterPart(tx[r].pc))
    /\ UNCHANGED committed

\* The stored guests are listed; those that are not kept are deleted, the others
\* upserted.
SaveGuests(r) ==
    /\ tx[r].pc = Turn["guests"]
    /\ tx' = [tx EXCEPT ![r].pc = AfterPart(@), ![r].removed = guests \ tx[r].write.guests]
    /\ UNCHANGED <<committed, lock>>

\* Book keeps its booking in memory unless it is told that its first save failed.
Commit(r) ==
    /\ tx[r].pc = "saved"
    /\ row' = tx[r].write.row
    /\ guests' = (guests \ tx[r].removed) \cup tx[r].write.guests
    /\ memory' \in CASE tx[r].op = "insert" -> {tx[r].write.guests, Atomic!Nothing}
                     [] tx[r].op = "overwrite" -> {Atomic!Nothing}
                     [] OTHER -> {memory}
    /\ End(r)

\* The request's deadline, a lost connection or the end of the process.  A Book
\* whose last save fails does not try again.
Abort(r) ==
    /\ tx[r].pc # "idle"
    /\ memory' = IF tx[r].op = "overwrite" THEN Atomic!Nothing ELSE memory
    /\ End(r)
    /\ UNCHANGED <<row, guests>>

\* Book ends between its saves.
Forget ==
    /\ ~Running("overwrite")
    /\ Atomic!Forget
    /\ UNCHANGED <<lock, tx>>

\* What a request does by itself once it has asked for a connection.
Statement(r) ==
    \/ Begin(r)
    \/ ComposeBook(r)
    \/ FindForUpdate(r)
    \/ LoadGuests(r)
    \/ ReadCapacity(r)
    \/ Apply(r)
    \/ Refuse(r)
    \/ UpsertRow(r)
    \/ SaveGuests(r)
    \/ Commit(r)

Next ==
    \/ \E r \in Requests : (\E op \in Op : Start(r, op)) \/ Statement(r) \/ Abort(r)
    \/ Forget

Spec == Init /\ [][Next]_vars

\* Requests run on; deadlines are not relied upon.
FairSpec == Spec /\ \A r \in Requests : WF_vars(Statement(r))

-----------------------------------------------------------------------------
(* Properties *)

\* From loading the aggregate to committing it nobody else changes the row or the
\* guests, although Book's saves come without reading and the guests are read by
\* a statement of their own.
ReadIsCurrent ==
    \A r \in Requests :
        /\ tx[r].op \in {"update", "guests"}
        /\ tx[r].pc \in {"loaded", "checked", "applied", "half", "saved"}
        => tx[r].read = Stored

\* A stored booking has a list of guests that some request asked for, never the
\* remains of two: Save deletes and upserts guest by guest, and only the row's
\* lock keeps two of them apart.
GuestsWithinCapacity == row # Atomic!Unsaved => validGuests(guests, Capacity)

\* The interleaved transactions do what atomic ones would do.
ImplementsBooking == Atomic!Spec

\* app/booking_test.go: guests can be changed.  Once they are, a payment or a
\* cancellation that loaded the booking earlier does not bring the old ones back;
\* only another change replaces them, or Book's last save, which reads nothing.
GuestsStay ==
    [][guests' # guests =>
         \E r \in Requests : /\ tx[r].pc = "saved" /\ tx'[r].pc = "idle"
                             /\ tx[r].op \in {"insert", "guests", "overwrite"}]_vars

\* With a connection to spare for ChangeGuests, nobody needs a deadline: the
\* row's lock is given back again and again.
RowIsFreedAgain == []<>(lock = NoRequest)

=============================================================================
