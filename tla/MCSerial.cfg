\* Calls of createBooking one at a time, two deliveries of answers, one of which may
\* be lost in a crash between the two saves.
SPECIFICATION Spec
CONSTANTS
  Request = {r1, r2, r3}
  Return = {h1, h2}
  Admin = {}
  RoomId = {1, 2}
  ServiceId = {}
  Price = {1}
  Clock = {0}
  Parts = 2
  ColumnMax = 20
  VnpMin = 1
  VnpMax = 30
  Input <- Stays
  MaxInFlight = 1
  MaxCrashes = 1
SYMMETRY Symmetry
INVARIANTS
  SerialDoubleBookingIsRevival
PROPERTIES
  ImplementsReservation
CHECK_DEADLOCK FALSE
