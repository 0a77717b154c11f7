# A TLA+ verification of yadori

yadori sells rooms of inns: guests search for vacant nights, book a stay, pay for it
and may cancel; operators put nights on sale. Its declared subject is *an inventory
that never double-books*. This directory models that subject — the inventory of a
night, the transactions and columns that keep it, the process manager that books several
nights at once, the calendars a stay is measured on, and the tables around it with the
tools that rewrite them — checks it with TLC on small instances and proves its central
invariants with TLAPS for every instance, up to the promise it makes as a whole: a stay is confirmed at
once, on nights that all have room.

Paths below are relative to `src/server/` unless they start with `src/`.

## 1. The system

### Components

| Component | State | Operations | Modelled by |
|---|---|---|---|
| Inventory aggregate `internal/inventory/domain` | one room type on one date: quantity, fee, closed flag, numbered holds | Register, ChangeQuantity, ChangeFee, Close, Reopen, Hold, StartPayment, Confirm, Release, CollectExpired | `InventoryDomain` |
| Inventory service `internal/inventory/app` | the stored aggregates | the same, each as *find for update, apply, save* in a transaction | `Inventory` (what it promises), `InventoryTx` (how) |
| Inventory repository `internal/inventory/infra/postgres` | tables `inventories`, `holds` with `uq_slot`; row locks; 32-bit columns | Add, FindForUpdate, Save, ListExpiredInventoryIds, WithinTx, the mapper | `InventoryTx` (locks and interleavings), `InventoryRows` (what is written and read back) |
| Booking aggregate `internal/booking/domain` | status, total fee, cancellation fee, stay, guests | Book, StartPayment, Confirm, Cancel, FixTotalFee, ChangeGuests | `BookingDomain`; its calendar in `Stay` |
| Booking process manager `internal/booking/app` | none of its own: each call is a sequence of transactions on a booking and the inventories of its nights | Book with compensate, Confirm, Cancel with releaseAll, ExpireStale, ChangeGuests, Find, ListByBooker | `Reservation` (what it promises), `BookingProcess` (how); ChangeGuests in `BookingTx` |
| Booking repository `internal/booking/infra/postgres` | tables `bookings`, `guests` | Find, FindForUpdate, Save, ListStaleTemporaryHoldIds, WithinTx | `Booking` (what it promises), `BookingTx` (how) |
| Expiry worker `cmd/worker` | its pass: one clock reading, lists of stale ids and due nights | ExpireStale, then CollectExpired, every minute | `BookingProcess` |
| HTTP handlers | none | one request per call; a payment result is a request too | the requests of `BookingProcess` and `BookingTx`; their clock readings in `Stay`, their ownership checks in `Registry` |
| Search `internal/search` | none (one SQL query over inventories, holds and room types) | SearchRoomTypes | `Search` |
| Booker `internal/booker`, Accommodation `internal/accommodation` | tables `bookers`, `accommodations`, `room_types` | register a member, add an inn or a room type, find out who owns what | `Registry` |
| Routes and guards `cmd/api`, `internal/shared/auth` | the subject of a request | refuse, or let a handler run | the first steps of `Registry`'s requests |
| Load-test tools `cmd/loadseed`, `cmd/loadprep` | the rows under their marker | delete and insert by SQL; find or create, then set a quantity | `LoadSeed`, `LoadPrep`; beside the API in `LoadTools` |
| Token verification, decoding, `cmd/seed`, migrations, frontends, deployment | none that the others read | I/O, configuration | not modelled (section 7) |

### How they interact

An API request runs in a goroutine of its own and calls the booking service, which
calls the inventory service night by night through `booking/infra/adapter.go`. Every
call is a database transaction; a booking and its nights are never changed in the same
one. The worker is another process that calls the same services. Nothing is shared
but the database: requests, the worker and the load-test tools meet in its rows. Before a
handler runs, the guards of its route (`cmd/api/routes.go`) have looked up whose row it is about
to change; the handler's own statements come later.

### What is hard here, and what makes it correct

* **Concurrent transactions on a night** (READ COMMITTED, row lock taken, holds read by
  a second statement, everything written back blindly): no lost update, no slot given
  twice, the lock always given back. → `ReadIsCurrent`, `ConstraintNeverFires`,
  `ImplementsInventory`, `RowIsFreedAgain`.
* **Concurrent transactions on a booking** (the same, with rows of guests, a save that reads
  nothing, and a second pooled connection asked for under the lock): no mixed lists of
  guests, no stall. → `GuestsWithinCapacity`, `ImplementsBooking`,
  `GuestsStay`, `RowIsFreedAgain` (of `BookingTx`).
* **Two notions of a vacant stay**: search counts and sums rows, Book numbers slots night by
  night. → `OffersCanBeBooked`, `StaysAreOffered`.
* **Numbering and counting**: the aggregate numbers its slots, search and the quantity
  count them; slots come back in any order. → `SlotsDistinct`, `NoOverbooking`,
  `SearchAgreesWithHold`, `ConfirmedFitQuantity`.
* **Sequences of transactions** that interleave, fail halfway or are killed: a confirmed
  booking must have all its nights, a paid hold must not vanish under it, an unpaid one
  must not stay. → `ConfirmedIsHoused`, `PaidHoldHasPaidBooking`, `PaidHoldsStay`,
  `LifecycleRespected`, `ImplementsReservation`, `TemporaryBookingEnds`, `TemporaryHoldEnds`, `CancelledIsReleased`.
* **Data kept across transactions**: Book's booking in memory, the worker's list of
  stale ids. → `CancelledIsFinal`, `ExpirySparesConfirmed`.
* **Expiry against payment**: two clocks (request and database) decide when a hold and
  when its booking is over. → `PaymentEnds`, `ConfirmedIsPriced`.

* **Two calendars**: a date is midnight in Greenwich, today is the server's; Book compares
  instants, the tariff days, and a handler reads the clock before it waits for a row.
  → `BookableDays`, `EndsByTheClock`, `WaitingNeverPays`.
* **Columns narrower than the values**: ints wrap into 32 bits, instants lose their nanoseconds,
  an upsert writes only some columns again. → `StoredCanBeLoaded`, `StoredAsAnswered`,
  `TotalAsAnswered`, `ListingAgreesWithCollecting`, `ImplementsInventory` (of `InventoryRows`).
* **Check, then act**: who owns a room type, which member a login is, how many rooms are held is
  found out in one statement and used in a later one, while `loadseed` deletes rows.
  → `OneMemberPerSubject`, `ActsOnOwn`, `PrepMakesRoom`.
* **A tool that goes around the domain model** in thirteen separately committed statements and
  may be killed between any two. → `QuietRunsSucceed`, `SeededIsConsistent`.

`PROJECT.json` lists each hazard at its line.

## 2. The modules

```
InventoryDomain ──EXTENDS──> Inventory ───── MCInventory
       │                         ^ ^
       │                         │ │ INSTANCE (refinement, twice)
       ├──EXTENDS──> InventoryTx ┘ │ ──────── MCInventoryTx
       ├──EXTENDS──> InventoryRows ┘ ──────── MCInventoryRows    <── Widths
       ├──EXTENDS──> Search ───────────────── MCSearch           <── Widths
       ├──INSTANCE─> BookingProcess ───────── MCBookingProcess   ──refines──> Reservation
       └──INSTANCE─> Registry
BookingDomain ──INSTANCE──> BookingProcess, Registry
       ├──EXTENDS──> Booking
       │                ^
       │                │ INSTANCE (refinement)
       ├──EXTENDS──> BookingTx ────────────── MCBookingTx
       └──EXTENDS──> Stay ─────────────────── MCStay             <── Widths
Registry ──EXTENDS──> LoadSeed, LoadPrep ──EXTENDS──> LoadTools ── MCLoadTools

Proofs: InventoryDomain_proofs, Inventory_proofs, InventoryTx_proofs, InventoryRows_proofs,
        Stay_proofs, BookingTx_proofs, BookingProcess_proofs, LoadTools_proofs
```

**InventoryDomain** is the aggregate as a value. A method `X` is two operators: `CanX`,
the conjunction of the conditions under which it returns no error, and `AfterX`, the
value it leaves. A method that returns an error changes nothing, so it needs no
operator. Holds form a set (the database returns them in no order); a hold's id is left
out, because it is drawn afresh and decides nothing.

**Inventory** is the abstract specification of the service: one inventory, each
operation atomic. `now` is the clock; an operation may use an older reading of it (`at`),
because Book and the worker read it once and use it in many transactions.

**InventoryTx** splits an operation into its statements. `tx[r].read` is the aggregate the
request has rebuilt, `tx[r].write` what it will store; nothing uncommitted is visible, so
writes reach `inv` at `Commit`. `lock` is the row lock of `SELECT … FOR UPDATE` (or of an
uncommitted INSERT). `LockTimeout` is `lock_timeout`, `Abort` the end of a process, a
connection or a context, at any point. Which method a request runs is chosen in `Apply`,
the first place where it matters. `Save` meets `uq_slot` as its statements do: an upsert never moves a
stored row, so a hold that is inserted is compared with the rows that were kept (`KeptRows`) and with the
others inserted, not with the aggregate.

**Widths** has `Int32`, the wrap of a Go int into an INT column, with the column's bound as
the constant `Half`.

**InventoryRows** is the repository seen from the data: the row, the rows of holds, the mapper in
both directions, `Save` statement by statement but in one step. `asked` remembers what the
operator was told is set. `stored`, the aggregate read back from the rows, refines
`Inventory`. An instant counts in the clock's units, of which `Micro` make a microsecond.

**BookingDomain** is the booking aggregate in the style of `InventoryDomain`.

**Booking** and **BookingTx** do for a booking what `Inventory` and `InventoryTx` do for a night.
`memory` is the list of guests in the memory of a running Book, whose last save writes
it back. `Start` puts a request in the queue for a connection (`waiting`), `Begin` gets one;
`FreeConnection` guards both `Begin` and the second connection of `ReadCapacity`. Save has two
parts, the row and the guests, in the order `Turn` gives; `removed` are the guests it
deletes. There is no lock timeout: only `Abort` ends a wait.

**Search** is the query, clause by clause (`available` is its CTE, `EveryNight` the HAVING), over
inventories that the service's operations change; `CanHoldStay` and `Price` say what Book
would do.

**Stay** is one booking on the hour: instants are hours, `zone` the server's offset from Greenwich,
a date the number of its day there. `asked` is a guest's clock reading between `AskToCancel` and
`GuestCancels`; `ending` records why and by which reading a confirmed booking ended.

**Registry** has the five tables and the requests that go from one to the next: `Begin…` is what the
guards of a route and the handler find out first, the other actions are the statements that
follow, and `Cut` ends a request anywhere. `LoadSeed` is `loadseed`'s statement list (`seed` names
the next one; `Exec` is refused when a foreign key or an index would be violated), `LoadPrep` is
`loadprep` (`prep` is its program counter and local variables), and `LoadTools` lets them run,
be killed and run again beside the API. `disturbed` records that a request wrote to the rows of
the run that is going on. The expiry of holds, confirmation and several nights are
`BookingProcess`'s.

**BookingProcess** composes the two aggregates. A transaction is one step — justified
by `InventoryTx` and `BookingTx` — and a request's `pc` names the transaction it runs next:

| `pc` | code in `internal/booking/app/booking.go` |
|---|---|
| create, hold, fix | Book: first save (68), holdAllDates (91-108), second save (84) |
| undo, undone | compensate: releases (255-257), save (258-259) |
| pay, secure, confirm | Confirm: the two loops (117-126), last transaction (128-137) |
| release | Cancel: releaseAll (263-272) |
| worker: expire, release, list, collect | ExpireStale (274-297), CollectExpired of the inventory service |

`req[c].at` is the request's clock reading. `HoldFails`, `UndoNight`'s last disjunct, `Cut`
and `WorkerFails` are the failures: a transaction that fails, one that commits although
its caller is told it failed, a killed process. `faults` counts them.

**Reservation** is what a guest and an operator may rely on: per booking a state (`none`,
`pending`, `confirmed`, `ended`), per night the rooms on sale, and three rules — a stay is confirmed
for all its nights at once and only where each has room, the rooms of a night never go below
what is promised, what has ended stays ended. `StateOf` and the nights' quantities are the
refinement mapping; holds, slots, transactions and the worker are hidden.

The blind saves of Book are `SaveFixed` and `SaveUndone`: they write
`InMemory` plus what Book changed, whatever the row holds now, as `UpsertBooking` does.

Operators called `X_Something` next to an `X` are faulty variants used only to see that
a property notices such a fault.

## 3. The runs

| Run | Instance | Shows |
|---|---|---|
| `inventory` | 3 bookings, quantities −1..3, fees −1..1, clock 0..2 | the safety properties of a night and `HoldsAdvance` |
| `inventory_tx` | 3 transactions, 2 bookings, quantities −1..2, fair | `ReadIsCurrent`, `ConstraintNeverFires`, that the transactions implement `Inventory`, and that the row's lock is always released |
| `booking` | 2 bookings (two nights, and the second of them), 1 room, 2 requests, 1 failure, clients wait, an operator on the second night | the safety of the process manager, the price of what is confirmed as long as nothing fails, and that the process implements `Reservation` |
| `booking_expiry` | 1 booking over two nights, 2 requests, 1 failure, fair | unpaid bookings and temporary holds end; a cancelled booking's nights are released unless something failed |
| `booking_tx` | 3 requests on one booking, 3 guests, capacity 2, 4 connections, fair | `GuestsWithinCapacity`, `GuestsStay`, that the transactions implement `Booking`, and that the row's lock is always released without a deadline |
| `inventory_rows` | 3 bookings, 3 hold ids, columns of three bits, amounts that fit, that wrap to a negative and to a positive, a clock finer than its column | `StoredCanBeLoaded`, `StoredAsAnswered`, `ListingAgreesWithCollecting`, and that the rows implement `Inventory` |
| `search` | 2 room types, 2 nights, columns of three bits, fees 1 and 3, searches for guests and limits that fit and that wrap | search offers exactly what can be booked, at its price |
| `load_tools` | 1 guest, 1 operator, 2 requests at a time and 3 in all, 2 runs of the tools | who acts on what, and what a tool's run leaves behind |
| `stay` | zones −6, 0 and +9, three dates, four totals, a column of four bits, 9 days in steps of 3 hours | which days can be booked, what a cancellation costs, what total is stored |
| `booking_blind`, `booking_stale`, `booking_stuck` | see section 5 | three disagreements between code and its tests or docs |

### Bounds, and why they suffice

* *Three bookings* on a night: two hold slots 1 and 2, the third is sold out or takes the
  slot that one of them frees. *Quantities* reach one above that, and −1 is refused.
* *Three transactions*: one holds the row, two wait; one of them gets it and the other
  times out. A doubled slot or a lost update needs two.
* *Two nights*: the smallest stay that can be held, paid, released or refused halfway.
  *One room* and *overlapping stays* make the second night contested.
* *Two requests and the worker* are three concurrent actors on a booking.
* *Three guests' ids* let the stored list, Book's and a new one be disjoint; a capacity of 2
  leaves room for lists of different lengths and is exceeded by two of them mixed.
* *Four connections* for three requests: one to spare for ChangeGuests. Fewer only take
  interleavings away from the safety properties, but with as many requests as connections
  ChangeGuests can only be saved by a deadline (PROJECT.json lists it among the hazards).
* *Two room types and two nights* for search: a stay of which one night is missing, closed
  or sold out, next to a room type whose nights must not be counted; a quantity of 2 leaves a
  night partly held. Fees of 1 and 3 in a column that ends at 3 make one stay fit and the
  other overflow; limits wrap to a positive one and to none. Past dates are left out: search offers them,
  Book refuses them. So are stays of more than 292 years, whose nights `validCriteria` miscounts
  (`time.Duration` saturates).
* *An operator on the contested night* with one room: he closes it, takes the room away and puts it
  back between any two steps of the requests. Two confirmed bookings on slots 1 and 2, of which
  the lower leaves, are the business of `inventory`.
* *Narrow columns* (`Half` is 4 or 8): arithmetic modulo 2·`Half` has the same cases at every width —
  a number fits, wraps to a negative, or wraps to a positive. The proofs hold for every width.
* *Two runs* of the load-test tools: one that is killed or fails anywhere and one that finds what it
  left. *Three requests*, two at a time: a registration, a booking under way and its cancellation.
* *Three zones* and *steps of three hours over nine days*: the clock meets every limit of the tariff
  (7 and 3 days, the check-in day) from both sides in each zone.
* *One failure* is enough for each partial result a single failure can leave; the
  liveness run has one, anywhere.
* In `booking*`, `TTL` is one tick and the clock runs to 3, so that every hold and booking made can
  expire (`BeginBook` requires `now + TTL + 2 <= MaxNow`). Liveness of expiry under a finite clock
  is meaningful only because of that guard.
* `Tick` lets a request see the clock move at most once: the API cancels a request
  after 5 s (`cmd/api/main.go`), and a tick stands for 30 minutes.
* `DaysBefore` fixes the distance to check-in; the cancellation tariff is the subject of `stay`.
  There a step of the clock is longer than a hold lives and than a handler waits.

Symmetry is used for bookings and requests where they are interchangeable, never in a run
that checks liveness. Deadlock is not checked where the
system may stop: with the clock at its bound and nothing left to do.

### `ClientsWait`

A client normally acts on a booking when Book has answered, and then Book's last save is
over. But the first save makes the booking visible in `GET /bookings`, so a second tab
may pay for it or cancel it while Book still runs. `ClientsWait` separates the two:
with it the safety properties hold, without it `booking_blind` breaks
one of them. `booking_expiry` runs without it, and so does all of `BookingTx`.

### Fairness

* `BookingProcess`: weak fairness of every request's own next step (its goroutine runs on),
  of the worker (its ticker fires again after every pass) and of the clock. No client is
  ever obliged to act, and no failure is.
* `BookingTx`: weak fairness of a request's next statement, `Abort` not included: nothing is
  owed to deadlines.
* `CancelledIsReleased` needs no more than that: the request that cancels runs on.
* `InventoryTx`: weak fairness of an open transaction's next statement: neither
  `lock_timeout` nor the request's deadline lets a statement wait for ever.

## 4. What is proved

`InventoryDomain_proofs` proves lemmas about the aggregate's operators; they carry the
rest. `WellFormed(v)` is the inductive invariant on an aggregate: types, a finite set of
holds, slots between 1 and the quantity, distinct slots, one hold per booking, and an
expiry exactly on temporary holds. Each operator preserves it:

* Hold adds the least free number (`VacantSlotIsFree`, by well-foundedness of the naturals);
* ChangeQuantity may go down only to the highest slot (`MaxSlotBounds`);
* paying and confirming change one hold's status, releasing and collecting remove holds.

`CountingAgreesWithNumbering` derives from it that the holds are never more than the
quantity (an injection into `1..quantity`) and that a free number exists exactly when they
are fewer.

`Inventory_proofs`: `IInv` (types of the clock and `WellFormed(inv)`) is inductive, and
gives `TypeCorrect`, `NeverOverbooked`, `SlotsNeverShared`, `NeverHeldTwice`,
`OnlyTemporaryHoldsExpire` and `SearchIsHonest`. None of these properties is inductive alone:
`NoOverbooking`, for one, needs distinct slots to turn numbers into a count. `HoldsNeverGoBack`
is the action property: an operation either leaves every hold alone, adds one in a free slot, advances one in
its slot or removes some, so that no hold changes its slot or becomes temporary again.

`InventoryTx_proofs`: the strengthened invariant says that whoever is past its lock owns
the lock, that what it read is what is stored, that what it will write is an outcome
of a method on what it read, and that a new row is written only while there is
none. It gives `NoLostUpdate` and `ConstraintIsIdle` (which also needs that no method moves a
booking to another slot, `OutcomesKeepSlots`), and with it each step maps to a step of
`Inventory` or a stutter: `TransactionsAreAtomic`. The only steps of
`Inventory` are `Commit`, `CommitInsert` and `Tick`. Since a request reads the clock before
its transaction ends, outcomes computed at an earlier instant must remain outcomes later
(`OutcomesGrow`). `TransactionsNeverOversell` carries the aggregate's rules over to what is stored between
any two statements.

`InventoryRows_proofs`: what the wrap of an int into a column does, for every width: it always lands in
the column (`Narrowed`), and a number below a full turn either is kept or becomes a negative one
(`FirstTurn`). The CHECKs of the tables keep the stored quantity and fee between 0 and the
column's end, whatever wrapped on the way (`RInv`), so that the mapper can always
rebuild the aggregate (`NightsStayUsable`); and an amount below a full turn is stored as it was
answered, because all that wraps from there is negative and is refused
(`OperatorIsToldTheTruth`). `WorkerListsWhatItCollects`: a night the
worker lists by SQL, at the resolution of a microsecond, has something to collect by the aggregate's
finer clock, and one it does not list has nothing that expired a microsecond ago. `RowsKeepThePromise` is the refinement: the
aggregate read back from the rows takes only steps of `Inventory`, at whatever width and resolution, unless an
amount of a full turn has been stored. It assumes that the clock shows every whole microsecond of an instant it
shows (`TruncationAssumption`).

The second part of `InventoryRows_proofs` is about the search over such rows; both parts use the widths of the columns
and the lemmas on the aggregate, and `Search` names its operations apart (`RegisterNight`, `SearchSpec`) to go with
`InventoryRows`. The query folds the fees over a set of
nights in an order the library chooses, Book adds them night by night: `SumExists` and `AnyOrder` show that
there is such a sum and that every order gives the same, `SumByNight` that Book's recursion has it
too (each by a least counterexample, over the sets' cardinality or the nights to the end). `SearchInv` says that
every night that has a row is `WellFormed`; with `CountingAgreesWithNumbering` the query's count finds a
stay whole exactly when every night can be held (`EveryNightIsHoldable`), at the same price
(`FeeIsPrice`). That gives `OffersAreHonest` and `NoStayIsHidden`, for any number of room types and nights, every
operation on them and every width of the columns.

`Stay_proofs`: the invariant ties a cancellation to the reading of the clock it was decided by and
the fee to the days counted from there. It gives, for every zone, date and instant, `TodayIsBookable`,
`FeeByTheHour`, `QuoteNeverFalls` (the tariff is monotone in the days, and the days in the clock) and,
with the lemmas on narrow columns, `ChargedAsAnswered`.

`BookingTx_proofs`: whoever reads under the row's lock owns it until COMMIT, and what it will write is an
outcome on what is stored. Book's saves, which read nothing, need two arguments of their own:
while the first runs there is no row, so no other transaction is open; the last takes the lock
with its upsert *before* it lists the stored guests, so that from then on nobody else can change them. So
`removed` is exactly what is stored and not kept, and COMMIT leaves the list that was asked for:
`GuestsNeverMix`, `UpdatesKeepGuests`, `ReadsStayCurrent`, and the
refinement `TransactionsImplementBooking`.

`BookingProcess_proofs`, under `ClientsWait`: a booking and its nights are written in different transactions,
so that every property is about what lies between them. The invariant `IInv` has

* the aggregates of all nights (`WellFormed`, from `InventoryDomain_proofs`);
* where every request and the worker is on its stay (`Placed`, `WorkerPlaced`), that a request sees the
  clock move at most once, and that a booking has one Book (`OneBook`);
* `BookAhead`: while Book runs, its booking is temporary and no older than Book's clock reading. With
  `HoldTTL` at least one tick it is too young to be stale, so the worker leaves it alone, and waiting
  clients do too: the blind saves overwrite nothing;
* `FollowUps` and `PaidIsPaidFor`: only a booking whose payment has begun has requests that pay its
  nights, and paid holds;
* `Behind`: the nights behind a request that confirms them are confirmed, unless the booking
  has been cancelled — then the last transaction is refused;
* `Housed`, `Priced`, `FreeSoFar`: the properties themselves.

An operation on a night either changes no paid hold (`Quiet`: Hold, CollectExpired, the operator), adds one for
its booking (`Advances`), or removes those of its booking (`Frees`, only for cancelled
ones). From this follow `ConfirmedHaveTheirNights`, `HoldsAreNeverAhead`, `ConfirmedCarryTheirPrice`,
`StatusesAdvance` and `PaidHoldsNeverVanish`. `ConfirmedNeverOutnumberRooms` maps the confirmed bookings of a night
injectively to its slots. `ProcessImplementsReservation` puts them together: a step writes one
booking or one night (`OneAtATime`), a booking's step is one of `Reservation`'s (`StateMoves`), and the rooms
suffice after it.

`LoadTools_proofs`, about the tables with any requests of the API and both tools between any two
statements, has three inductive invariants, each on the one before:

* `OwnInv`: a row refers only to rows that exist, and a login has at most one member; what a request
  found out belongs to its login *if it is still there*, since `loadseed` may have deleted it (`Owned`); a booking
  that is being made is one request's, and others that cancel it are its guest's (`Agree`); a run of
  `loadprep` knows its own rows. It gives `MembersAreUnique` and `StepsActOnOwn`.
* `PrepInv`: the operator of `loadprep` never has two inns or more room types than asked for, and the run's list
  names each of them once (`RushOK`, whatever was killed before); undisturbed, the room types behind
  the run have the vacancy asked for and the holds it counted are those there are (`QuietPrep`). It gives
  `RushIsReady`.
* `SeedInv`: one conjunct of `Phase` per span of `loadseed`'s thirteen statements, between the one that
  deletes a kind of row and the one that inserts it again. It does not matter how far a killed run came, because
  the deletes go by the marker and not by what a run remembers. Once the run is done `Consistent` holds, and the API keeps
  it: a guest's request frees or adds only his own holds, and slots are taken by the numbers that are
  free. It gives `SeededRowsKeepTheRules` and `QuietRunsAreNotRefused`.

`QuietRunsSucceed` is an action property because the proof of a stronger form, that an undisturbed run never
fails, stopped for a good reason: with enough rooms a hold may stand in a slot above the number of
rooms held and vacant together, and then ChangeQuantity refuses `loadprep`'s quantity
(`cmd/loadprep/main.go`). The property says that nothing else refuses a run.

Where a lemma needs induction over a list or a finite set, it takes the least counterexample instead
(`\E k : ~P(k)` and none below), which needs no operator as a parameter.

Assumptions: quantities and fees are integers, instants are naturals and include 0, the
date is a natural, `NoRequest` is not a request, a stay has at least one night, `HoldTTL` is at least
one tick, the capacity of a room type is positive and, with what the operator enters in `Search`, fits its column
(larger amounts are the subject of `InventoryRows`); in `BookingProcess_proofs` also that clients wait.
Sets of bookings, requests and instants may be infinite. In `LoadTools_proofs` the requests are finitely
many, the seeded members are no guests' logins and the tools' markers no operators' (`SubjectsAssumption`), and the
seed's counts are naturals, its quantities a finite nonempty set and its members distinct (`LoadSeedAssumption`).

**Only model-checked:** all liveness (fairness and ENABLED are beyond the prover); the process
manager without `ClientsWait` (where `booking_blind` shows that the strongest properties fail).

## 5. Where the code and its tests or docs disagree

Three runs show it:

1. `booking_blind` — Book's last save (`booking.go:84`) is not preceded by a read: it
   overwrites a cancellation committed meanwhile and the cancelled booking is payable again
   (`domain/booking_test.go:110`: a cancelled booking can not be paid for). It also
   restores the guests Book was given over a change of guests, which is why
   `GuestsStay` excepts it.
2. `booking_stale` — `ExpireStale` (`booking.go:286`) cancels a booking confirmed after it
   listed the stale ones (`app/booking_test.go:379`: a confirmed booking is not
   expired).
3. `booking_stuck` — a hold is counted from the request's clock, its booking from the
   database's; a hold that was collected first leaves a booking that was paid in
   `processing_payment` for ever (`src/README.md:94` promises a recovery).

The properties that hold say where else the code stops short of what one might expect:

* The releases after a cancellation stop at the first that fails, or with the request
  (`booking.go:268`): a hold that was paid for has no expiry, so nobody gives the night back
  (`src/README.md:90`: released, or collected when it expires). A second Cancel would; nobody is
  obliged to send it. `CancelledIsReleased` excepts failures.
* The quantity is bounded below by the highest slot number, not by the number of holds
  (`inventory_test.go:457`, the error's text at `inventory.go:12`).
* int32 wraps: from 2^32 on, an amount of money or a number of rooms is stored as another one and
  answered as asked (`StoredAsAnswered`, `TotalAsAnswered` except exactly these). Below that the CHECK of
  the column refuses it — after Book has held every night, so that such a booking stays
  behind, payable and without a price.
* On a server behind Greenwich Book refuses a check-in today that a server ahead of it
  accepts (`BookableDays`).
* One stay that the form lets through and whose fees add up to 2^31 or more makes the whole search
  fail; a number of guests from 2^31 on may be offered rooms that Book refuses; a limit on the fee
  that is a multiple of 2^32, a negative one too, is taken as none (`StaysAreOffered`,
  `OffersCanBeBooked`; the proof of the latter failed until it excepted negative limits as well).
* A failed payment reported after a successful one cancels the confirmed booking free of charge
  (`EndsByTheClock`).
* `src/README.md:173` says that `loadseed` deletes what it made before and makes it again; with
  requests on those very rooms meanwhile it can fail, which `disturbed` excepts.

## 6. Plan

Done in this order, because the inventory is what everything relies on: `InventoryDomain`,
`Inventory`, their proofs, `InventoryTx` and its refinement, `BookingDomain`, `BookingProcess`,
`Booking` and `BookingTx`, `Search`; then the columns (`Widths`, `InventoryRows`), the calendar
(`Stay`), the tables around them with the load-test tools (`Registry`, `LoadSeed`, `LoadPrep`, `LoadTools`), and
`Reservation`; with the proofs of all of them, every safety property of the passing runs as a theorem.

Left:

1. Liveness of `Reservation` (a pending stay is confirmed or ended), if the code comes to
   recover a payment whose holds are gone (section 5, `booking_stuck`).

## 7. Not modelled, and why

* The verification of tokens is Keycloak's and a library's; CORS, decoding and status codes keep no
  state.
* The validation of names, addresses and mail addresses: it changes nothing and no property needs it.
* `cmd/api` and `cmd/migrate` beyond the routes and deadlines: wiring, and migrations that run once.
* `cmd/seed` only adds rows through the operations modelled already; the k6 scripts (`src/load`) are
  clients. `SoftDeleteRoomType` has no caller.
* `web`: clients. `deploy`: configuration.
* The database itself is modelled from how the code uses it: READ COMMITTED, row locks, atomic
  commit, unique and foreign keys, CHECKs, columns of 32 bits.
* Reads (Find, ListByBooker, ListSummaries) change nothing and have no actions.

## 8. Running

```
tlc -config MCInventory.cfg MCInventory
tlapm Inventory_proofs.tla
```
