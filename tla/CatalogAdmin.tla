---------------------------- MODULE CatalogAdmin ---------------------------
(***************************************************************************)
(* What administrators do to rooms and services while clients book them:   *)
(* RoomService.updateRoomInfo and deleteRoom, and updateService and        *)
(* deleteService of the service application.  Each reads, decides, awaits  *)
(* and writes, so the decision may be stale when the write happens.  An    *)
(* operation on a row that does not exist is answered 404 and is a stutter.*)
(***************************************************************************)
EXTENDS HotelDatabase

CONSTANT Admin   \* administrators, each doing one operation at a time

VARIABLES
  adminPc,     \* where the operation of each administrator is
  adminId,     \* the room or service that it is about
  adminPrice   \* the new price of an update

adminVars == <<adminPc, adminId, adminPrice>>

AdminPc == {"idle", "updateRoom", "deleteRoom",
            "updateService", "checkRelated", "deleteService"}

AdminTypeOK ==
  /\ adminPc \in [Admin -> AdminPc]
  /\ adminId \in [Admin -> Nat]
  /\ adminPrice \in [Admin -> Price \cup {0}]
  /\ \A a \in Admin : adminPc[a] \in {"updateRoom", "updateService"} => adminPrice[a] \in Price

AdminInit ==
  /\ adminPc = [a \in Admin |-> "idle"]
  /\ adminId = [a \in Admin |-> 0]
  /\ adminPrice = [a \in Admin |-> 0]

AdminGoto(a, label) == adminPc' = [adminPc EXCEPT ![a] = label]

Finish(a) ==
  /\ AdminGoto(a, "idle")
  /\ adminId' = [adminId EXCEPT ![a] = 0]
  /\ adminPrice' = [adminPrice EXCEPT ![a] = 0]

\* An operation on row id begins, with the query that looks the row up.
Begin(a, label, id, price) ==
  /\ adminPc[a] = "idle"
  /\ AdminGoto(a, label)
  /\ adminId' = [adminId EXCEPT ![a] = id]
  /\ adminPrice' = [adminPrice EXCEPT ![a] = price]
  /\ UNCHANGED dbVars

-----------------------------------------------------------------------------
\* updateRoomInfo: findOneBy, then update(id), which does nothing to a row that
\* was deleted meanwhile.
BeginUpdateRoom(a, m, price) == m \in roomRows /\ Begin(a, "updateRoom", m, price)

UpdateRoom(a) ==
  LET m == adminId[a]
  IN  /\ adminPc[a] = "updateRoom"
      /\ roomPrice' = IF m \in roomRows THEN [roomPrice EXCEPT ![m] = adminPrice[a]] ELSE roomPrice
      /\ Finish(a)
      /\ UNCHANGED <<now, roomRows, serviceRows, servicePrice, booking, invoice>>

\* deleteRoom refuses a room with a booking, of any status, that has not ended.
Occupied(m) ==
  \E r \in Request : /\ m \in RoomsOf(booking[r])
                     /\ booking[r].start > now \/ booking[r].end > now

BeginDeleteRoom(a, m) ==
  /\ m \in roomRows /\ ~Occupied(m)
  /\ Begin(a, "deleteRoom", m, 0)

\* MySQL rejects the deletion of a room with any booking: the handler throws.
DeleteRoom(a) ==
  LET m == adminId[a]
  IN  /\ adminPc[a] = "deleteRoom"
      /\ roomRows' = IF RoomReferenced(m) THEN roomRows ELSE roomRows \ {m}
      /\ Finish(a)
      /\ UNCHANGED <<now, roomPrice, serviceRows, servicePrice, booking, invoice>>

-----------------------------------------------------------------------------
BeginUpdateService(a, s, price) == s \in serviceRows /\ Begin(a, "updateService", s, price)

UpdateService(a) ==
  LET s == adminId[a]
  IN  /\ adminPc[a] = "updateService"
      /\ servicePrice' = IF s \in serviceRows THEN [servicePrice EXCEPT ![s] = adminPrice[a]]
                         ELSE servicePrice
      /\ Finish(a)
      /\ UNCHANGED <<now, roomRows, roomPrice, serviceRows, booking, invoice>>

\* deleteService: the row, then any booking_services row of it, then the delete.
BeginDeleteService(a, s) == s \in serviceRows /\ Begin(a, "checkRelated", s, 0)

CheckRelated(a) ==
  /\ adminPc[a] = "checkRelated"
  /\ IF ServiceReferenced(adminId[a])
     THEN Finish(a)
     ELSE AdminGoto(a, "deleteService") /\ UNCHANGED <<adminId, adminPrice>>
  /\ UNCHANGED dbVars

DeleteService(a) ==
  LET s == adminId[a]
  IN  /\ adminPc[a] = "deleteService"
      /\ serviceRows' = IF ServiceReferenced(s) THEN serviceRows ELSE serviceRows \ {s}
      /\ Finish(a)
      /\ UNCHANGED <<now, roomRows, roomPrice, servicePrice, booking, invoice>>

AdminStep(a) == \/ UpdateRoom(a) \/ DeleteRoom(a)
                \/ UpdateService(a) \/ CheckRelated(a) \/ DeleteService(a)

AdminBegins(a) ==
  \/ \E m \in RoomId : BeginDeleteRoom(a, m) \/ \E p \in Price : BeginUpdateRoom(a, m, p)
  \/ \E s \in ServiceId : BeginDeleteService(a, s) \/ \E p \in Price : BeginUpdateService(a, s, p)

AdminNext == \E a \in Admin : AdminBegins(a) \/ AdminStep(a)
=============================================================================
