----------------------------- MODULE Reservation -----------------------------
(***************************************************************************)
(* What the booking process promises, seen from outside: a stay of several *)
(* nights is confirmed as a whole or not at all, no night is ever promised *)
(* to more stays than it has rooms on sale, and what has ended stays ended.*)
(* There are no holds, no slots, no worker and no transactions here;       *)
(* BookingProcess keeps the promise with them, as long as clients wait for *)
(* Book to answer.                                                         *)
(***************************************************************************)
EXTENDS Integers, FiniteSets, Functions

CONSTANTS Bookings, Nights,
          Stay              \* as in BookingProcess

VARIABLES state,            \* per booking: none, pending, confirmed or ended
          rooms             \* per night: the rooms on sale

vars == <<state, rooms>>

NightsOf(b) == Range(Stay[b])

\* The stays that have been promised a room on night n.
Promised(n) == {b \in Bookings : state[b] = "confirmed" /\ n \in NightsOf(b)}

Init ==
    /\ state = [b \in Bookings |-> "none"]
    /\ rooms \in [Nights -> Nat]

-----------------------------------------------------------------------------
Become(b, s) ==
    /\ state' = [state EXCEPT ![b] = s]
    /\ UNCHANGED rooms

Request(b) == state[b] = "none" /\ Become(b, "pending")

\* All nights at once.
Confirm(b) ==
    /\ state[b] = "pending"
    /\ \A n \in NightsOf(b) : Cardinality(Promised(n) \cup {b}) <= rooms[n]
    /\ Become(b, "confirmed")

\* A cancellation by the guest, or by a payment that failed; or nobody paid.
End(b) == state[b] \in {"pending", "confirmed"} /\ Become(b, "ended")

\* The operator can not take away a room that is promised.
Resize(n) ==
    /\ UNCHANGED state
    /\ rooms' \in [Nights -> Nat]
    /\ \A m \in Nights \ {n} : rooms'[m] = rooms[m]
    /\ Cardinality(Promised(n)) <= rooms'[n]

Next ==
    \/ \E n \in Nights : Resize(n)
    \/ \E b \in Bookings : Request(b) \/ Confirm(b) \/ End(b)

Spec == Init /\ [][Next]_vars

=============================================================================
