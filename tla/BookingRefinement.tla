-------------------------- MODULE BookingRefinement ------------------------
(***************************************************************************)
(* The booking application implements Reservation when calls of            *)
(* createBooking come one at a time (MaxInFlight = 1), crashes, answers    *)
(* that come repeatedly or crosswise and the administrators included.      *)
(***************************************************************************)
EXTENDS BookingSystem

\* A reservation is held from the commit on, paid when the invoice is, and
\* released when the second save of a failed answer cancels the booking.
StateOf(r) ==
  IF ~Booked(r) THEN "none"
  ELSE IF booking[r].status = "CANCELED" THEN "released"
  ELSE IF invoice[r].status = "PAID" THEN "paid" ELSE "held"

StayOf(r) == [rooms |-> RoomsOf(booking[r]), start |-> booking[r].start, end |-> booking[r].end]

Wishes == {[rooms |-> Range(i.roomIds), start |-> i.start, end |-> i.end] : i \in Input}

Abstract == INSTANCE Reservation WITH
  Client <- Request, Wish <- Wishes,
  state <- [r \in Request |-> StateOf(r)], stay <- [r \in Request |-> StayOf(r)],
  disputed <- {r \in Request : Disputed(r)}

\* createBooking and handleVnpayReturn implement the reservation of rooms: every
\* commit is a reservation of what was asked for, free of the others' rooms,
\* every answer is a payment or a release, and no step undoes either but for a
\* reservation of which contrary answers came.
ImplementsReservation == Abstract!ReservationSpec
=============================================================================
