--------------------------- MODULE BookingSystem ---------------------------
(***************************************************************************)
(* Clients that book, customers that pay and administrators that edit the  *)
(* catalogue, all over one database; the clock moves and the booking       *)
(* application may crash and restart.                                      *)
(***************************************************************************)
EXTENDS VnpayReturn, CatalogAdmin

CONSTANT MaxCrashes   \* bound on the crashes of a behaviour

ASSUME MaxCrashesAssumption == MaxCrashes \in Nat

VARIABLE crashes   \* how often the booking application has crashed

vars == <<dbVars, createVars, returnVars, adminVars, crashes>>

TypeOK ==
  /\ DbTypeOK
  /\ CreateTypeOK
  /\ ReturnTypeOK
  /\ AdminTypeOK
  /\ crashes \in 0 .. MaxCrashes

Init ==
  /\ DbInit
  /\ CreateInit
  /\ ReturnInit
  /\ AdminInit
  /\ crashes = 0

Tick ==
  /\ \E t \in Clock : t > now /\ now' = t
  /\ UNCHANGED <<catalogVars, booking, invoice, createVars, returnVars, adminVars, crashes>>

\* The process of the booking application dies: every handler in progress is
\* lost, what was committed stays.
Crash ==
  /\ crashes < MaxCrashes
  /\ crashes' = crashes + 1
  /\ pc' = [r \in Request |-> IF pc[r] \in Waiting THEN "crashed" ELSE pc[r]]
  /\ retPc' = [h \in Return |-> IF retPc[h] \in ReturnWaiting THEN "crashed" ELSE retPc[h]]
  /\ UNCHANGED <<dbVars, input, foundRooms, foundServices, known,
                 signed, carries, received, mails, revived, adminVars>>

Create == CreateNext /\ UNCHANGED <<returnVars, adminVars, crashes>>
Vnpay  == VnpayNext  /\ UNCHANGED <<createVars, adminVars, crashes>>
Answers == ReturnNext /\ UNCHANGED <<createVars, adminVars, crashes>>
Administer == AdminNext /\ UNCHANGED <<createVars, returnVars, crashes>>

Next == Create \/ Vnpay \/ Answers \/ Administer \/ Tick \/ Crash

Spec == Init /\ [][Next]_vars

\* Node resumes every handler whose query has been answered, and MySQL answers
\* every query; nothing obliges a client, a customer or an administrator to act.
Fairness ==
  /\ \A r \in Request : WF_vars(CreateStep(r) /\ UNCHANGED <<returnVars, adminVars, crashes>>)
  /\ \A h \in Return : WF_vars(ReturnStep(h) /\ UNCHANGED <<createVars, adminVars, crashes>>)

FairSpec == Spec /\ Fairness

-----------------------------------------------------------------------------
(* Safety. *)

\* Two bookings want the same room for some common instant.
Clash(b, c) ==
  /\ RoomsOf(b) \cap RoomsOf(c) # {}
  /\ b.start < c.end /\ c.start < b.end

\* What a hotel wants of createBooking: no room is held by two bookings at once
\* (the 409 of booking.service.ts:111).
NoDoubleBooking ==
  \A q, r \in Request :
    q # r /\ Active(booking[q]) /\ Active(booking[r]) => ~Clash(booking[q], booking[r])

\* The check of createBooking is sound as far as it reaches: if two bookings hold
\* a room at once and one of them was committed before the other was checked,
\* then that one was canceled at the time and a late payment revived it.  A
\* double booking has no other cause than such a revival or two calls of which
\* neither had committed when the other looked.
DoubleBookingHasCause ==
  \A q, r \in Request :
    /\ q # r /\ q \in known[r]
    /\ Active(booking[q]) /\ Active(booking[r]) /\ Clash(booking[q], booking[r])
    => q \in revived

\* Calls that come one at a time sell a room twice only by such a revival.
SerialDoubleBookingIsRevival ==
  \A q, r \in Request :
    q # r /\ Active(booking[q]) /\ Active(booking[r]) /\ Clash(booking[q], booking[r])
      => q \in revived \/ r \in revived

\* handleVnpayReturn revives a canceled booking only where VNPay signed a success
\* and a verified text said otherwise: never by handling one answer twice or two
\* calls at a time, and not on a text without the hash.
RevivalNeedsBothAnswers == \A r \in revived : Disputed(r) /\ Paid(r)

\* An invoice is paid, and a confirmation mailed, only for a success that VNPay
\* signed and a call brought; invoice and booking are canceled only for a failure
\* that VNPay signed or for the parameters of the payment page itself.
StatusIsSigned ==
  \A r \in Request :
    /\ invoice[r].status = "PAID" \/ mails[r] > 0 => Succeeded(r) /\ Paid(r)
    /\ invoice[r].status = "CANCELED" \/ booking[r].status = "CANCELED" =>
         \E a \in received : a.inv = r /\ a.code # "00" /\ (a \in signed \/ PageParameters(a))

\* A call that was not answered with a payment URL holds no room, except when the
\* URL was refused for its amount or the process died: a rolled back transaction
\* and every early return leave neither a booking nor an invoice.
NothingHeldWithoutUrl ==
  \A r \in Request :
    /\ Booked(r) <=> invoice[r].status # "none"
    /\ Booked(r) /\ pc[r] \notin {"respond", "done", "crashed"}
         => pc[r] = "noUrl" /\ invoice[r].total \notin VnpMin .. VnpMax

\* The rows that a booking refers to exist, though the rooms and services were
\* read several awaits before the commit and deleteRoom and deleteService decide
\* on a stale read.
ReferentialIntegrity ==
  \A r \in Request :
    /\ RoomsOf(booking[r]) \subseteq roomRows
    /\ ServicesOf(booking[r]) \subseteq serviceRows

\* The invoice is what the lines of the booking come to, though the prices may
\* be edited between the read, the computation and the commit.  A quantity that is
\* not whole is rounded in its line only: it puts them apart by at most half of its
\* price, and the rounding of the sum by half a unit.
InvoiceMatchesLines ==
  \A r \in Request : LET b == booking[r] IN
    Booked(r) =>
      \E nights \in 1 .. b.end :
        LET apart == invoice[r].total
                       - (nights * MapThenSumSet(LAMBDA l : l.price, b.rooms)
                            + MapThenSumSet(LAMBDA l : l.price * l.quantity, b.services))
            prices == MapThenSumSet(LAMBDA l : l.price, b.services)
        IN  /\ 24 * (nights - 1) < b.end - b.start /\ b.end - b.start <= 24 * nights
            /\ 2 * apart \in -(prices + 1) .. prices + 1
            /\ (\A k \in DOMAIN input[r].quantities : input[r].quantities[k] % Parts = 0)
                 => apart = 0

\* An invoice and its booking tell one story, unless contrary answers came, or a
\* handler that cancels is between its two saves or died there.
StatusesAgree ==
  \A r \in Request :
    \/ invoice[r].status = "CANCELED" <=> booking[r].status = "CANCELED"
    \/ Disputed(r)
    \/ \E h \in Return : /\ retPc[h] \in {"saveBooking", "crashed"}
                          /\ carries[h].inv = r /\ carries[h].code # "00"

\* Each service of a booking is booked in the quantity that stands at its place
\* in the request (booking.service.ts:138), as far as its column can hold it.
QuantitiesAsRequested ==
  \A r \in Request : Booked(r) =>
    \A k \in DOMAIN input[r].serviceIds :
      \E l \in booking[r].services :
        l.service = input[r].serviceIds[k] /\ l.quantity = Rounded(input[r].quantities[k])

(* What a step may never do. *)

\* A paid invoice stays paid, and its booking stays booked, until a verified text
\* says otherwise: not by a second delivery, handlers that cross, or a crash.
PaidStaysPaid ==
  [][\A r \in Request : ~Disputed(r) =>
       /\ invoice[r].status = "PAID" => invoice'[r].status = "PAID"
       /\ mails[r] > 0 => booking'[r].status = "BOOKED"]_vars

(* Liveness. *)

\* Every call of createBooking is answered, or lost in a crash.
EveryCallAnswered ==
  \A r \in Request : pc[r] \in Waiting ~> pc[r] \in Answered \cup {"crashed"}

\* A success that reaches vnpay_return is answered with the invoice paid and the
\* booking booked, unless the process dies or a contrary answer comes as well.
DeliveredPaymentCounts ==
  \A h \in Return :
    retPc[h] = "readInvoice" /\ carries[h].code = "00"
      ~> \/ /\ retPc[h] = "answered"
            /\ invoice[carries[h].inv].status = "PAID"
            /\ booking[carries[h].inv].status = "BOOKED"
         \/ retPc[h] = "crashed"
         \/ Disputed(carries[h].inv)

-----------------------------------------------------------------------------
(* The inductive invariant behind the safety properties. *)

\* Before its commit a call has no row; after it the row is what was asked for.
CallInv ==
  \A r \in Request :
    /\ pc[r] \in {"respond", "done", "noUrl"} => Booked(r)
    /\ pc[r] \notin {"respond", "done", "noUrl", "crashed"} => ~Booked(r)
    /\ pc[r] = "idle" => foundRooms[r] = {}
    /\ \A f \in foundRooms[r] : f.room \in Range(input[r].roomIds)
    /\ Booked(r) => /\ booking[r].start = input[r].start /\ booking[r].end = input[r].end
                    /\ \A l \in booking[r].rooms : l.room \in Range(input[r].roomIds)
    /\ booking[r].status \in {"none", "BOOKED", "CANCELED"}

\* Texts with the hash are of bookings whose call was answered, a success is VNPay's,
\* and a handler that got past the verification carries what was verified.
AnswerInv ==
  /\ \A a \in signed : pc[a.inv] = "done" /\ a.code # "absent"
  /\ \A a \in received : a \in signed \/ PageParameters(a)
  /\ \A h \in Return : /\ retPc[h] \in ReturnWaiting \cup {"crashed"} => carries[h] \in received
                       /\ retPc[h] = "enqueue" => carries[h].code = "00"

\* What a call saw when it checked the rooms is still there, and does not block it
\* as long as it was not revived.
CheckInv ==
  \A r \in Request : \A q \in known[r] :
    /\ Booked(q)
    /\ (pc[r] = "commit" \/ Booked(r)) /\ q \notin revived
         => ~Blocking(input[r], booking[q])

IInv ==
  /\ TypeOK
  /\ CallInv
  /\ AnswerInv
  /\ NothingHeldWithoutUrl
  /\ StatusIsSigned
  /\ RevivalNeedsBothAnswers
  /\ CheckInv
=============================================================================
