---------------------------- MODULE VnpayReturn ----------------------------
(***************************************************************************)
(* BookingService.handleVnpayReturn and the payment page of VNPay that     *)
(* calls it.  The customer's browser carries VNPay's signed answer back:   *)
(* it may do so late, more than once, in any order, or never.  The         *)
(* parameters of the payment page's own URL carry the same hash.           *)
(***************************************************************************)
EXTENDS CreateBooking

CONSTANTS
  Return   \* the calls of vnpay_return of a behaviour

VARIABLES
  signed,   \* the answers VNPay has signed: of which invoice, with which code
  retPc,    \* where each call of vnpay_return is
  carries,  \* the answer that it carries
  received, \* history: the answers that were verified
  mails,    \* send-booking-confirmation-email jobs put on the queue, per invoice
  revived   \* history: the bookings that went from CANCELED back to BOOKED

returnVars == <<signed, retPc, carries, received, mails, revived>>

\* vnp_ResponseCode: VNPay says "00" of a payment, "24" stands for its other codes.
\* Every field of the dto is optional, and so is this one.
VnpayCode == {"00", "24"}
Code      == VnpayCode \cup {"absent"}
Answer    == [inv : Request, code : Code]
NoAnswer  == [inv |-> "none", code |-> "none"]

ReturnWaiting == {"readInvoice", "saveInvoice", "saveBooking", "enqueue"}
ReturnPc      == {"idle", "answered", "crashed"} \cup ReturnWaiting

\* What VNPay has signed of an invoice ...
Paid(r) == [inv |-> r, code |-> "00"] \in signed

\* ... and what handlers have been told of it.
Succeeded(r) == [inv |-> r, code |-> "00"] \in received
Refused(r)   == \E code \in Code \ {"00"} : [inv |-> r, code |-> code] \in received
Disputed(r)  == Succeeded(r) /\ Refused(r)

ReturnTypeOK ==
  /\ signed \subseteq Answer
  /\ retPc \in [Return -> ReturnPc]
  /\ carries \in [Return -> Answer \cup {NoAnswer}]
  /\ received \subseteq Answer
  /\ mails \in [Request -> Nat]
  /\ revived \subseteq Request

ReturnInit ==
  /\ signed = {}
  /\ retPc = [h \in Return |-> "idle"]
  /\ carries = [h \in Return |-> NoAnswer]
  /\ received = {}
  /\ mails = [r \in Request |-> 0]
  /\ revived = {}

ReturnGoto(h, label) == retPc' = [retPc EXCEPT ![h] = label]

-----------------------------------------------------------------------------
\* The customer pays on the page whose URL createBooking answered, or fails to and
\* may try again.
VnpaySigns(r, code) ==
  /\ pc[r] = "done"
  /\ ~Paid(r)
  /\ signed' = signed \cup {[inv |-> r, code |-> code]}
  /\ UNCHANGED <<retPc, carries, received, mails, revived, dbVars>>

\* createPaymentUrl hashes the parameters of the payment page, of which none is a
\* response code, with the secret that verifyReturnUrl compares with: they pass where
\* they arrive as they were hashed, the return URL in its encoded form.
PageParameters(a) == a.code = "absent" /\ pc[a.inv] = "done"

\* verifyReturnUrl: the hash tells neither what VNPay signed from what the
\* application did, nor an answer from a question; any other text changes nothing.
VerifiedAlways(a) == TRUE   \* a mutant: the signature is not compared
Verified(a)       == a \in signed \/ PageParameters(a)

\* A mutant: the handler goes on whatever the verification says.
ReceiveReturnUnverified(h, a) ==
  /\ retPc[h] = "idle"
  /\ carries' = [carries EXCEPT ![h] = a]
  /\ received' = IF Verified(a) THEN received \cup {a} ELSE received
  /\ ReturnGoto(h, "readInvoice")
  /\ UNCHANGED <<signed, mails, revived, dbVars>>

ReceiveReturn(h, a) ==
  /\ retPc[h] = "idle"
  /\ carries' = [carries EXCEPT ![h] = a]
  /\ received' = IF Verified(a) THEN received \cup {a} ELSE received
  /\ ReturnGoto(h, IF Verified(a) THEN "readInvoice" ELSE "answered")
  /\ UNCHANGED <<signed, mails, revived, dbVars>>

\* The query of the invoice with its booking, then the assignments to both
\* entities.  save() later writes the statuses assigned here, whatever another
\* handler has stored since; the code looks at no status it read.
ReadInvoice(h) ==
  /\ retPc[h] = "readInvoice"
  /\ ReturnGoto(h, IF invoice[carries[h].inv].status = "none" THEN "answered" ELSE "saveInvoice")
  /\ UNCHANGED <<signed, carries, received, mails, revived, dbVars>>

\* Mutants: any answer is taken for a success; the save is forgotten; the status
\* of the booking is stored.
SaveInvoiceAlwaysPaid(h) ==
  /\ retPc[h] = "saveInvoice"
  /\ invoice' = [invoice EXCEPT ![carries[h].inv].status = "PAID"]
  /\ ReturnGoto(h, "saveBooking")
  /\ UNCHANGED <<signed, carries, received, mails, revived, now, catalogVars, booking>>

SaveInvoiceForgotten(h) ==
  /\ retPc[h] = "saveInvoice"
  /\ ReturnGoto(h, "saveBooking")
  /\ UNCHANGED <<signed, carries, received, mails, revived, dbVars>>

SaveInvoiceMixedUp(h) ==
  /\ retPc[h] = "saveInvoice"
  /\ invoice' = [invoice EXCEPT ![carries[h].inv].status =
                   IF carries[h].code = "00" THEN "BOOKED" ELSE "CANCELED"]
  /\ ReturnGoto(h, "saveBooking")
  /\ UNCHANGED <<signed, carries, received, mails, revived, now, catalogVars, booking>>

SaveInvoice(h) ==
  /\ retPc[h] = "saveInvoice"
  /\ invoice' = [invoice EXCEPT ![carries[h].inv].status =
                   IF carries[h].code = "00" THEN "PAID" ELSE "CANCELED"]
  /\ ReturnGoto(h, "saveBooking")
  /\ UNCHANGED <<signed, carries, received, mails, revived, now, catalogVars, booking>>

\* A mutant: a failed payment cancels the invoice only.
SaveBookingPaidOnly(h) ==
  LET r       == carries[h].inv
      success == carries[h].code = "00"
  IN  /\ retPc[h] = "saveBooking"
      /\ booking' = IF success THEN [booking EXCEPT ![r].status = "BOOKED"] ELSE booking
      /\ ReturnGoto(h, IF success THEN "enqueue" ELSE "answered")
      /\ UNCHANGED <<signed, carries, received, mails, revived, now, catalogVars, invoice>>

\* The second save, in no transaction with the first.
SaveBooking(h) ==
  LET r       == carries[h].inv
      success == carries[h].code = "00"
  IN  /\ retPc[h] = "saveBooking"
      /\ booking' = [booking EXCEPT ![r].status = IF success THEN "BOOKED" ELSE "CANCELED"]
      /\ revived' = IF success /\ booking[r].status = "CANCELED" THEN revived \cup {r} ELSE revived
      /\ ReturnGoto(h, IF success THEN "enqueue" ELSE "answered")
      /\ UNCHANGED <<signed, carries, received, mails, now, catalogVars, invoice>>

\* emailQueue.add: when Redis refuses the job the error is logged, and the
\* answer to the customer is the same.
Enqueue(h) ==
  LET r == carries[h].inv
  IN  /\ retPc[h] = "enqueue"
      /\ mails' \in {mails, [mails EXCEPT ![r] = @ + 1]}
      /\ ReturnGoto(h, "answered")
      /\ UNCHANGED <<signed, carries, received, revived, dbVars>>

ReturnStep(h) == ReadInvoice(h) \/ SaveInvoice(h) \/ SaveBooking(h) \/ Enqueue(h)

VnpayNext == \E r \in Request, code \in VnpayCode : VnpaySigns(r, code)

ReturnNext == \E h \in Return : (\E a \in Answer : ReceiveReturn(h, a)) \/ ReturnStep(h)
=============================================================================
