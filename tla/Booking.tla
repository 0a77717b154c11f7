------------------------------- MODULE Booking -------------------------------
(***************************************************************************)
(* What the transactions on one booking promise the process manager: each  *)
(* is atomic on the booking's row together with its guests.  BookingTx     *)
(* shows how internal/booking/infra/postgres/repository.go keeps it.       *)
(*                                                                         *)
(* The promise is no stronger than the code's: the transaction that ends   *)
(* Book writes what Book has kept in memory, whatever is stored by then.   *)
(***************************************************************************)
EXTENDS BookingDomain

CONSTANTS Guests,        \* guest ids
          Capacity,      \* of the room type
          Totals,        \* fees a stay may come to
          Days           \* days from a cancellation to the check-in date

VARIABLES row,           \* the stored aggregate, or Unsaved
          guests,        \* the stored guests
          memory         \* the guests of the booking a running Book has in memory

vars == <<row, guests, memory>>

Unsaved == [status |-> "unsaved", totalFee |-> 0, cancellationFee |-> 0]
Saved == row # Unsaved

\* No Book is running: a Book's guests are never empty.
Nothing == {}

Init ==
    /\ row = Unsaved
    /\ guests = {}
    /\ memory = Nothing

-----------------------------------------------------------------------------
\* The first save.  It may be done although Book is told that it failed.
Book(party) ==
    /\ ~Saved
    /\ validGuests(party, Capacity)
    /\ row' = NewBooking
    /\ guests' = party
    /\ memory' \in {party, Nothing}

\* The values Book's last save may write: the fee fixed, or the booking cancelled
\* by compensate.
FinalRows ==
    {AfterFixTotalFee(NewBooking, total) : total \in Totals} \cup
    {AfterCancel(NewBooking, Expired, days) : days \in Days}

Overwrite(k) ==
    /\ memory # Nothing
    /\ row' = k
    /\ guests' = memory
    /\ memory' = Nothing

\* Book ends without its last save.
Forget ==
    /\ memory # Nothing
    /\ memory' = Nothing
    /\ UNCHANGED <<row, guests>>

\* What StartPayment, Confirm and Cancel may leave of k.
UpdatedRows(k) ==
    {j \in {AfterStartPayment(k)} : CanStartPayment(k)} \cup
    {j \in {AfterConfirm(k)} : CanConfirm(k)} \cup
    {AfterCancel(k, reason, days) :
        reason \in {reason \in CancellationReason : CanCancel(k)}, days \in Days}

Update(k) ==
    /\ row' = k
    /\ UNCHANGED <<guests, memory>>

ChangeGuests(party) ==
    /\ Saved
    /\ CanChangeGuests(row, party, Capacity)
    /\ guests' = party
    /\ UNCHANGED <<row, memory>>

Next ==
    \/ \E party \in SUBSET Guests : Book(party) \/ ChangeGuests(party)
    \/ \E k \in FinalRows : Overwrite(k)
    \/ Forget
    \/ Saved /\ \E k \in UpdatedRows(row) : Update(k)

Spec == Init /\ [][Next]_vars

=============================================================================
