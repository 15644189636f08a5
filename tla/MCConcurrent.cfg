\* Two calls of createBooking at once.
SPECIFICATION Spec
CONSTANTS
  Request = {r1, r2}
  Return = {}
  Admin = {}
  RoomId = {1, 2}
  ServiceId = {}
  Price = {1}
  Clock = {0}
  Parts = 2
  ColumnMax = 20
  VnpMin = 1
  VnpMax = 30
  Input <- Stays
  MaxInFlight = 2
  MaxCrashes = 0
INVARIANTS
  NoDoubleBooking
CHECK_DEADLOCK FALSE
