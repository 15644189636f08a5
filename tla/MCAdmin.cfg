\* Two clients book and make every mistake the handler looks for, while an
\* administrator edits and deletes rooms and services and the clock moves.
SPECIFICATION Spec
CONSTANTS
  Request = {r1, r2}
  Return = {}
  Admin = {a1}
  RoomId = {1, 2}
  ServiceId = {1}
  Price = {0, 3}
  Clock = {0, 30, 100}
  Parts = 2
  ColumnMax = 10
  VnpMin = 1
  VnpMax = 30
  Input <- OrdersAndMistakes
  MaxInFlight = 2
  MaxCrashes = 0
SYMMETRY Symmetry
INVARIANTS
  NothingHeldWithoutUrl
  ReferentialIntegrity
  InvoiceMatchesLines
CHECK_DEADLOCK FALSE
