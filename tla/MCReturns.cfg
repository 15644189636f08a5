\* Two bookings, their payment pages and two deliveries, in any interleaving, with a
\* crash of the booking application: one answer handled twice, or two contrary ones.
SPECIFICATION FairSpec
CONSTANTS
  Request = {r1, r2}
  Return = {h1, h2}
  Admin = {}
  RoomId = {1, 2}
  ServiceId = {}
  Price = {1}
  Clock = {0}
  Parts = 2
  ColumnMax = 20
  VnpMin = 1
  VnpMax = 30
  Input <- Stays
  MaxInFlight = 2
  MaxCrashes = 1
INVARIANTS
  TypeOK
  DoubleBookingHasCause
  
  
  StatusesAgree
  
PROPERTIES
  PaidStaysPaid
  EveryCallAnswered
  DeliveredPaymentCounts
CHECK_DEADLOCK FALSE
