--------------------------- MODULE HotelDatabase ---------------------------
(***************************************************************************)
(* The MySQL tables that the booking, payment and catalogue handlers share *)
(* (libs/database/src/entities, migrations/1756437796104-InitialDatabase)  *)
(* and the operators over their rows.                                      *)
(*                                                                         *)
(* A row of `bookings` and its row of `invoices` are named by the request  *)
(* that inserted them: every createBooking inserts at most one of each, in *)
(* one transaction.  Times are whole hours.  Money is counted in the unit  *)
(* of the DECIMAL(10,2) columns, a hundredth of a VND; a quantity of the   *)
(* request in units of 1/Parts, because it need not be a whole number.     *)
(***************************************************************************)
EXTENDS Integers, Sequences, FiniteSets, FiniteSetsExt

CONSTANTS
  Request,     \* the calls of createBooking of a behaviour
  RoomId,      \* primary keys of rooms
  ServiceId,   \* primary keys of services
  Price,       \* the prices a room or a service may have
  Clock,       \* the instants, in hours, at which the clock may stand
  Parts,       \* how many units of a request's quantity make a whole
  ColumnMax    \* the largest amount a DECIMAL(10,2) column holds

ASSUME RoomIdAssumption    == RoomId \subseteq Nat
ASSUME ServiceIdAssumption == ServiceId \subseteq Nat
ASSUME PriceAssumption     == Price \subseteq Nat
ASSUME ClockAssumption     == Clock \subseteq Nat
ASSUME PartsAssumption     == Parts \in Nat \ {0}
ASSUME ColumnMaxAssumption == ColumnMax \in Nat

VARIABLES
  now,           \* new Date() of every service
  roomRows,      \* the rooms that exist
  roomPrice,     \* rooms.price, of a deleted room the last one
  serviceRows,   \* the services that exist
  servicePrice,  \* services.price
  booking,       \* bookings with their booking_rooms and booking_services
  invoice        \* invoices, of booking r the invoice r

dbVars == <<now, roomRows, roomPrice, serviceRows, servicePrice, booking, invoice>>
catalogVars == <<roomRows, roomPrice, serviceRows, servicePrice>>

BookingStatus == {"CANCELED", "BOOKED", "CHECK_IN", "CHECK_OUT"}
InvoiceStatus == {"PENDING", "PAID", "CANCELED"}

\* A row that was not inserted has status "none".
NoBooking == [status |-> "none", start |-> 0, end |-> 0, rooms |-> {}, services |-> {}]
NoInvoice == [status |-> "none", total |-> 0]

\* What MySQL stores of an amount of q parts in a column that holds whole units: the
\* nearest one, a half upwards.
Rounded(q) == (2 * q + Parts) \div (2 * Parts)

\* booking_rooms and booking_services, with the price at the time of booking; the
\* quantity is an int.
RoomLine    == [room : RoomId, price : Nat]
ServiceLine == [service : ServiceId, price : Nat, quantity : Nat]

BookingRow == [status : BookingStatus \cup {"none"}, start : Nat, end : Nat,
               rooms : SUBSET RoomLine, services : SUBSET ServiceLine]
InvoiceRow == [status : InvoiceStatus \cup {"none"}, total : Nat]

Booked(r)     == booking[r].status # "none"
RoomsOf(b)    == {l.room : l \in b.rooms}
ServicesOf(b) == {l.service : l \in b.services}

\* The foreign keys of booking_rooms and booking_services, ON DELETE NO ACTION:
\* MySQL rejects the deletion of a referenced row.
RoomReferencedNever(m) == FALSE   \* a mutant: no foreign key
RoomReferenced(m)    == \E r \in Request : m \in RoomsOf(booking[r])
ServiceReferenced(s) == \E r \in Request : s \in ServicesOf(booking[r])

\* The statuses that hold a room.
Active(b) == b.status \in {"BOOKED", "CHECK_IN"}

DbTypeOK ==
  /\ now \in Clock
  /\ roomRows \subseteq RoomId
  /\ roomPrice \in [RoomId -> Price]
  /\ serviceRows \subseteq ServiceId
  /\ servicePrice \in [ServiceId -> Price]
  /\ booking \in [Request -> BookingRow]
  /\ invoice \in [Request -> InvoiceRow]

\* A hotel that is open: some rooms and services with their prices, no booking.
DbInit ==
  /\ now \in Clock /\ \A t \in Clock : now <= t
  /\ roomRows = RoomId
  /\ roomPrice \in [RoomId -> Price]
  /\ serviceRows = ServiceId
  /\ servicePrice \in [ServiceId -> Price]
  /\ booking = [r \in Request |-> NoBooking]
  /\ invoice = [r \in Request |-> NoInvoice]
=============================================================================
