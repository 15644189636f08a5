--------------------------- MODULE CreateBooking ---------------------------
(***************************************************************************)
(* BookingService.createBooking (apps/booking/src/booking.service.ts).     *)
(* Node runs the code between two awaits without interruption; at an await *)
(* any other handler may run.  One action is one query and the code up to  *)
(* the next await, so every interleaving of two calls is a behaviour.      *)
(***************************************************************************)
EXTENDS HotelDatabase, Functions

CONSTANTS
  Input,        \* the CreateBookingDto values that clients send
  MaxInFlight,  \* how many calls may be in progress at once
  VnpMin,       \* the smallest and the largest amount VNPay takes
  VnpMax

\* The quantities are positive, not necessarily whole.
Dto == [roomIds : Seq(Nat), start : Nat, end : Nat,
        serviceIds : Seq(Nat), quantities : Seq(Nat \ {0})]

ASSUME InputAssumption       == Input \subseteq Dto
ASSUME MaxInFlightAssumption == MaxInFlight \in Nat
\* 100 and 999 999 999 900 hundredths of a VND, against 9 999 999 999 in the column.
ASSUME VnpAssumption == VnpMin \in Nat /\ VnpMax \in Nat /\ ColumnMax <= VnpMax

VARIABLES
  pc,             \* where each call is
  input,          \* its createBookingDto
  foundRooms,     \* its local `rooms`: the rows it read, with their prices
  foundServices,  \* its local `services`
  known           \* history: the bookings committed when it checked the rooms

createVars == <<pc, input, foundRooms, foundServices, known>>

Waiting  == {"findRooms", "findServices", "checkRooms", "commit", "respond"}
Answered == {"done", "rejected", "failed", "noUrl"}
CreatePc == {"idle", "crashed"} \cup Waiting \cup Answered

NoInput == [roomIds |-> <<>>, start |-> 0, end |-> 0, serviceIds |-> <<>>, quantities |-> <<>>]

FoundRoom    == [room : RoomId, price : Nat]
FoundService == [service : ServiceId, price : Nat]

CreateTypeOK ==
  /\ pc \in [Request -> CreatePc]
  /\ input \in [Request -> Dto]
  /\ foundRooms \in [Request -> SUBSET FoundRoom]
  /\ foundServices \in [Request -> SUBSET FoundService]
  /\ known \in [Request -> SUBSET Request]

CreateInit ==
  /\ pc = [r \in Request |-> "idle"]
  /\ input = [r \in Request |-> NoInput]
  /\ foundRooms = [r \in Request |-> {}]
  /\ foundServices = [r \in Request |-> {}]
  /\ known = [r \in Request |-> {}]

Goto(r, label) == pc' = [pc EXCEPT ![r] = label]
InFlight       == {r \in Request : pc[r] \in Waiting}

-----------------------------------------------------------------------------
\* What the handler computes from its locals.

\* Mutants of Blocking: only stays that begin during the new one; only its first room.
BlockingStartsInside(i, b) ==
  /\ Active(b)
  /\ RoomsOf(b) \cap Range(i.roomIds) # {}
  /\ b.start <= i.end /\ b.start >= i.start
BlockingFirstRoom(i, b) ==
  /\ Active(b)
  /\ i.roomIds[1] \in RoomsOf(b)
  /\ b.start <= i.end /\ b.end >= i.start

\* The count of step 3: both ends of the stay are inclusive, and only bookings
\* of status BOOKED or CHECK_IN hold a room.
Blocking(i, b) ==
  /\ Active(b)
  /\ RoomsOf(b) \cap Range(i.roomIds) # {}
  /\ b.start <= i.end /\ b.end >= i.start

\* Math.ceil(hours / 24)
Nights(start, end) == (end - start + 23) \div 24

\* quantities[index] || 0, in parts, where index is the place of service s among the rows
\* found: the rows come in the order of the primary key, whatever serviceIds says.
QuantityOf(i, found, s) ==
  LET index == Cardinality({f \in found : f.service <= s})
  IN  IF index \in DOMAIN i.quantities THEN i.quantities[index] ELSE 0

ServiceLines(i, found) ==
  {[service |-> f.service, price |-> f.price,
    quantity |-> Rounded(QuantityOf(i, found, f.service))] : f \in found}

\* A mutant: the prices of the moment instead of those that were read.
TotalPriceAtCommit(i, rooms, services) ==
  MapThenSumSet(LAMBDA m : roomPrice[m.room] * Nights(i.start, i.end), rooms)
    + Rounded(MapThenSumSet(LAMBDA l : l.price * QuantityOf(i, services, l.service),
                            ServiceLines(i, services)))

\* The quantities of the request, fractions included, not those of the lines; the
\* column of the invoice rounds the sum.
TotalPrice(i, rooms, services) ==
  MapThenSumSet(LAMBDA m : m.price * Nights(i.start, i.end), rooms)
    + Rounded(MapThenSumSet(LAMBDA l : l.price * QuantityOf(i, services, l.service),
                            ServiceLines(i, services)))

-----------------------------------------------------------------------------
\* 1. The gateway delivers the call; the checks before the first await.
ReceiveBooking(r, i) ==
  /\ pc[r] = "idle"
  /\ Cardinality(InFlight) < MaxInFlight
  /\ input' = [input EXCEPT ![r] = i]
  /\ Goto(r, IF i.roomIds = <<>> \/ i.start <= now THEN "rejected" ELSE "findRooms")
  /\ UNCHANGED <<foundRooms, foundServices, known, dbVars>>

\* 2. roomRepository.findBy({ id: In(roomIds) }), 404 unless one row per id.
FindRooms(r) ==
  LET ids   == input[r].roomIds
      found == Range(ids) \cap roomRows
  IN  /\ pc[r] = "findRooms"
      /\ foundRooms' = [foundRooms EXCEPT ![r] = {[room |-> m, price |-> roomPrice[m]] : m \in found}]
      /\ Goto(r, IF Cardinality(found) # Len(ids) THEN "rejected"
                 ELSE IF input[r].serviceIds = <<>> THEN "checkRooms" ELSE "findServices")
      /\ UNCHANGED <<input, foundServices, known, dbVars>>

\* serviceRepository.findBy, only when services were asked for.
FindServices(r) ==
  LET ids   == input[r].serviceIds
      found == Range(ids) \cap serviceRows
  IN  /\ pc[r] = "findServices"
      /\ foundServices' = [foundServices EXCEPT ![r] =
                             {[service |-> s, price |-> servicePrice[s]] : s \in found}]
      /\ Goto(r, IF Cardinality(found) # Len(ids) THEN "rejected" ELSE "checkRooms")
      /\ UNCHANGED <<input, foundRooms, known, dbVars>>

\* A mutant: a call whose rooms are taken gets no answer.
CheckRoomsNoAnswer(r) ==
  LET i == input[r]
  IN  /\ pc[r] = "checkRooms"
      /\ ~\E b \in Range(booking) : Blocking(i, b)
      /\ known' = [known EXCEPT ![r] = {q \in Request : Booked(q)}]
      /\ Goto(r, IF \/ i.end <= i.start
                    \/ i.serviceIds # <<>> /\ Len(i.quantities) # Len(i.serviceIds)
                 THEN "rejected" ELSE "commit")
      /\ UNCHANGED <<input, foundRooms, foundServices, dbVars>>

\* 3 and 4. The count of overlapping bookings (409), then, with no await between,
\* the checks on the length of the stay and of the quantities (400).
CheckRooms(r) ==
  LET i == input[r]
  IN  /\ pc[r] = "checkRooms"
      /\ known' = [known EXCEPT ![r] = {q \in Request : Booked(q)}]
      /\ Goto(r, IF \/ \E q \in Request : Blocking(i, booking[q])
                    \/ i.end <= i.start
                    \/ i.serviceIds # <<>> /\ Len(i.quantities) # Len(i.serviceIds)
                 THEN "rejected" ELSE "commit")
      /\ UNCHANGED <<input, foundRooms, foundServices, dbVars>>

\* 5. The transaction: the booking, its lines and its invoice, all or none.  It
\* rolls back when a room or a service was deleted since it was read (foreign
\* key) or the total does not fit the column.
BookingOf(r) ==
  [status |-> "BOOKED", start |-> input[r].start, end |-> input[r].end,
   rooms |-> foundRooms[r], services |-> ServiceLines(input[r], foundServices[r])]

\* A mutant: the booking is saved outside the transaction.
CommitPartially(r) ==
  LET total == TotalPrice(input[r], foundRooms[r], foundServices[r])
  IN  /\ pc[r] = "commit"
      /\ RoomsOf(BookingOf(r)) \subseteq roomRows
      /\ booking' = [booking EXCEPT ![r] = BookingOf(r)]
      /\ IF total \in 0 .. ColumnMax
         THEN /\ invoice' = [invoice EXCEPT ![r] = [status |-> "PENDING", total |-> total]]
              /\ Goto(r, "respond")
         ELSE /\ Goto(r, "failed")
              /\ UNCHANGED invoice
      /\ UNCHANGED <<input, foundRooms, foundServices, known, now, catalogVars>>

Commit(r) ==
  LET total == TotalPrice(input[r], foundRooms[r], foundServices[r])
      valid == /\ RoomsOf(BookingOf(r)) \subseteq roomRows
               /\ ServicesOf(BookingOf(r)) \subseteq serviceRows
               /\ total \in 0 .. ColumnMax
  IN  /\ pc[r] = "commit"
      /\ IF valid
         THEN /\ booking' = [booking EXCEPT ![r] = BookingOf(r)]
              /\ invoice' = [invoice EXCEPT ![r] = [status |-> "PENDING", total |-> total]]
              /\ Goto(r, "respond")
         ELSE /\ Goto(r, "failed")
              /\ UNCHANGED <<booking, invoice>>
      /\ UNCHANGED <<input, foundRooms, foundServices, known, now, catalogVars>>

\* 6. createPaymentUrl, after the commit: it throws on an amount VNPay refuses.
Respond(r) ==
  /\ pc[r] = "respond"
  /\ Goto(r, IF invoice[r].total \in VnpMin .. VnpMax THEN "done" ELSE "noUrl")
  /\ UNCHANGED <<input, foundRooms, foundServices, known, dbVars>>

CreateStep(r) == FindRooms(r) \/ FindServices(r) \/ CheckRooms(r) \/ Commit(r) \/ Respond(r)

CreateNext == \E r \in Request : (\E i \in Input : ReceiveBooking(r, i)) \/ CreateStep(r)
=============================================================================
