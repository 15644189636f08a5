-------------------------- MODULE MCBookingSystem --------------------------
(* Instances of BookingSystem for TLC. *)
EXTENDS BookingRefinement, TLC

\* Requests and answers are handled alike, whichever they are (safety runs only).
Symmetry == Permutations(Request) \cup Permutations(Return)

Stay(rooms, start, end) ==
  [roomIds |-> rooms, start |-> start, end |-> end, serviceIds |-> <<>>, quantities |-> <<>>]

\* Room 1 for a day and a half, both rooms for a stay that overlaps the first by
\* half a day, and room 1 from a later day on.
Stays == {Stay(<<1>>, 24, 60), Stay(<<2, 1>>, 48, 72), Stay(<<1>>, 72, 96)}

\* With services, the quantities in halves: one and a half of one, two services in the
\* order of their keys and against it, one that does not exist, a list of quantities
\* that is too short, a room asked for twice, no room, a stay that ends before it
\* begins, one that begins in the past.
With(stay, services, quantities) ==
  [stay EXCEPT !.serviceIds = services, !.quantities = quantities]

Orders == {With(Stay(<<1>>, 24, 60), <<1>>, <<3>>), With(Stay(<<2, 1>>, 48, 72), <<>>, <<>>)}

Mistakes ==
  {With(Stay(<<1>>, 24, 60), <<1>>, <<>>), With(Stay(<<1>>, 24, 60), <<9>>, <<2>>),
   Stay(<<1, 1>>, 24, 60), Stay(<<>>, 24, 60), Stay(<<1>>, 60, 24), Stay(<<1>>, 0, 24)}

OrdersAndMistakes == Orders \cup Mistakes

TwoServices ==
  {With(Stay(<<1>>, 24, 60), <<1, 2>>, <<2, 6>>), With(Stay(<<1>>, 24, 60), <<2, 1>>, <<6, 2>>)}
=============================================================================
