\* One call that asks for two services, in either order.
SPECIFICATION Spec
CONSTANTS
  Request = {r1}
  Return = {}
  Admin = {}
  RoomId = {1, 2}
  ServiceId = {1, 2}
  Price = {1}
  Clock = {0}
  Parts = 2
  ColumnMax = 20
  VnpMin = 1
  VnpMax = 30
  Input <- TwoServices
  MaxInFlight = 2
  MaxCrashes = 0
INVARIANTS
  QuantitiesAsRequested
CHECK_DEADLOCK FALSE
