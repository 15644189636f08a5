-------------------------- MODULE ReservationProofs -------------------------
(***************************************************************************)
(* What a hotel and its customers may rely on under conditions that the    *)
(* code alone does not give.  As long as no contrary answers come of a     *)
(* booking its payment stays, and invoice and booking tell one story; with *)
(* one call of createBooking at a time a room is held twice only by a      *)
(* revival, and the application implements Reservation.                    *)
(***************************************************************************)
EXTENDS BookingSystemProofs, FiniteSetTheorems, BookingRefinement

-----------------------------------------------------------------------------
(* One call at a time. *)

\* At most one call is between its first and its last await.
OneCall == \A q, r \in InFlight : q = r

\* The call that is about to commit saw every booking there is ...
CommitSeesAll == \A r \in Request : pc[r] = "commit" => \A q \in Request : Booked(q) => q \in known[r]

\* ... so of two bookings one saw the other.
OneSawTheOther ==
  \A q, r \in Request : q # r /\ Booked(q) /\ Booked(r) => q \in known[r] \/ r \in known[q]

SerialInv == IInv /\ OneCall /\ CommitSeesAll /\ OneSawTheOther

LEMMA SerialInit == Init => SerialInv
<1>1. Init => IInv
  BY TypeInit, IndInit DEF IInv, IndInv
<1>2. Init => OneCall /\ CommitSeesAll /\ OneSawTheOther
  BY DEF Init, CreateInit, DbInit, OneCall, InFlight, Waiting, CommitSeesAll,
     OneSawTheOther, Booked, NoBooking
<1> QED BY <1>1, <1>2 DEF SerialInv

\* A call is let in only when no other is in progress.
LEMMA NobodyInFlight ==
  ASSUME IsFiniteSet(Request), MaxInFlight <= 1, Cardinality(InFlight) < MaxInFlight
  PROVE  InFlight = {}
<1>1. IsFiniteSet(InFlight)
  BY FS_Subset DEF InFlight
<1>2. Cardinality(InFlight) \in Nat
  BY <1>1, FS_CardinalityType
<1>3. Cardinality(InFlight) = 0
  BY <1>2, MaxInFlightAssumption
<1> QED BY <1>1, <1>3, FS_EmptySet

\* No step lets a second call in.
LEMMA OneCallStep ==
  ASSUME IsFiniteSet(Request), MaxInFlight <= 1, TypeOK, OneCall, [Next]_vars
  PROVE  OneCall'
<1> USE DEF TypeOK, CreateTypeOK
<1>1. ASSUME InFlight' \subseteq InFlight PROVE OneCall'
  BY <1>1 DEF OneCall
<1>2. ASSUME NEW r \in Request, NEW i \in Input, ReceiveBooking(r, i) PROVE OneCall'
  <2>1. InFlight = {}
    BY <1>2, NobodyInFlight DEF ReceiveBooking
  <2>2. InFlight' \subseteq {r}
    BY <1>2, <2>1 DEF ReceiveBooking, Goto, InFlight
  <2> QED BY <2>2 DEF OneCall
<1>3. ASSUME NEW r \in Request, CreateStep(r) PROVE OneCall'
  <2>1. pc[r] \in Waiting /\ \A q \in Request \ {r} : pc'[q] = pc[q]
    BY <1>3 DEF CreateStep, FindRooms, FindServices, CheckRooms, Commit, Respond, Goto, Waiting
  <2> QED BY <1>1, <2>1 DEF InFlight
<1>4. CASE Create
  BY <1>2, <1>3, <1>4 DEF Create, CreateNext
<1>5. CASE Crash
  BY <1>1, <1>5 DEF Crash, InFlight, Waiting
<1>6. CASE Vnpay \/ Answers \/ Administer \/ Tick \/ UNCHANGED vars
  <2>1. UNCHANGED pc
    BY <1>6 DEF Vnpay, Answers, Administer, Tick, vars, createVars
  <2> QED BY <1>1, <2>1 DEF InFlight
<1> QED BY <1>4, <1>5, <1>6 DEF Next

\* Which bookings exist changes in a commit only.
LEMMA BookedStep ==
  ASSUME IInv, [Next]_vars, ~\E r \in Request : Commit(r)
  PROVE  \A q \in Request : Booked(q)' <=> Booked(q)
<1> USE DEF IInv, TypeOK, DbTypeOK
<1>1. ASSUME UNCHANGED booking PROVE \A q \in Request : Booked(q)' <=> Booked(q)
  BY <1>1 DEF Booked
<1>2. ASSUME NEW h \in Return, SaveBooking(h) PROVE \A q \in Request : Booked(q)' <=> Booked(q)
  <2>1. carries[h].inv \in Request /\ Booked(carries[h].inv)
    BY <1>2, CarriedAnswer DEF SaveBooking, ReturnWaiting
  <2>2. \A q \in Request : booking'[q].status = booking[q].status
          \/ (q = carries[h].inv /\ booking'[q].status \in {"BOOKED", "CANCELED"})
    BY <1>2, <2>1 DEF SaveBooking, BookingRow
  <2> QED BY <2>1, <2>2 DEF Booked
<1>3. CASE Create
  BY <1>1, <1>3 DEF Create, CreateNext, CreateStep, ReceiveBooking, FindRooms, FindServices,
     CheckRooms, Respond, dbVars
<1>4. CASE Answers
  <2>1. CASE \E h \in Return : SaveBooking(h)
    BY <2>1, <1>2
  <2>2. CASE ~\E h \in Return : SaveBooking(h)
    BY <1>4, <2>2, <1>1 DEF Answers, ReturnNext, ReturnStep, ReceiveReturn, ReadInvoice,
       SaveInvoice, Enqueue, dbVars
  <2> QED BY <2>1, <2>2
<1>5. CASE Administer
  BY <1>5, <1>1 DEF Administer, AdminNext, AdminStep, AdminBegins, BeginUpdateRoom, BeginDeleteRoom,
     BeginUpdateService, BeginDeleteService, Begin, UpdateRoom, DeleteRoom, UpdateService,
     CheckRelated, DeleteService, dbVars
<1>6. CASE Vnpay \/ Tick \/ Crash \/ UNCHANGED vars
  BY <1>6, <1>1 DEF Vnpay, VnpayNext, VnpaySigns, Tick, Crash, vars, dbVars
<1> QED BY <1>3, <1>4, <1>5, <1>6 DEF Next

\* The check and the commit of a call that nobody interrupts.
LEMMA SeesStep ==
  ASSUME IInv, OneCall, CommitSeesAll, OneSawTheOther, [Next]_vars
  PROVE  CommitSeesAll' /\ OneSawTheOther'
<1> USE DEF IInv, TypeOK, CreateTypeOK
<1>1. ASSUME NEW r \in Request, Commit(r) PROVE CommitSeesAll' /\ OneSawTheOther'
  <2>1. /\ pc[r] = "commit" /\ pc'[r] # "commit" /\ UNCHANGED known
        /\ \A q \in Request \ {r} : pc'[q] = pc[q]
    BY <1>1 DEF Commit, Goto
  <2>2. \A q \in Request \ {r} : Booked(q)' <=> Booked(q)
    BY <1>1 DEF Commit, Booked, DbTypeOK
  <2>3. \A q \in Request : pc[q] = "commit" => q = r
    BY <2>1 DEF OneCall, InFlight, Waiting
  <2>4. CommitSeesAll'
    BY <2>1, <2>3 DEF CommitSeesAll
  <2>5. OneSawTheOther'
    BY <2>1, <2>2 DEF OneSawTheOther, CommitSeesAll
  <2> QED BY <2>4, <2>5
<1>2. CASE ~\E r \in Request : Commit(r)
  <2>1. \A q \in Request : Booked(q)' <=> Booked(q)
    BY <1>2, BookedStep
  <2>2. ASSUME NEW r \in Request, CheckRooms(r) PROVE CommitSeesAll' /\ OneSawTheOther'
    <3>1. ~Booked(r) /\ known'[r] = {q \in Request : Booked(q)}
      BY <2>2 DEF CheckRooms, CallInv
    <3>2. \A q \in Request \ {r} : known'[q] = known[q] /\ pc'[q] = pc[q]
      BY <2>2 DEF CheckRooms, Goto
    <3> QED BY <2>1, <3>1, <3>2 DEF CommitSeesAll, OneSawTheOther
  <2>3. ASSUME UNCHANGED known, \A q \in Request : pc'[q] = "commit" => pc[q] = "commit"
        PROVE  CommitSeesAll' /\ OneSawTheOther'
    BY <2>1, <2>3 DEF CommitSeesAll, OneSawTheOther
  <2>4. CASE Create
    <3>1. ASSUME NEW r \in Request,
                 \/ \E i \in Input : ReceiveBooking(r, i)
                 \/ FindRooms(r) \/ FindServices(r) \/ Respond(r)
          PROVE  UNCHANGED known /\ \A q \in Request : pc'[q] = "commit" => pc[q] = "commit"
      BY <3>1 DEF ReceiveBooking, FindRooms, FindServices, Respond, Goto
    <3> QED BY <1>2, <2>2, <2>3, <2>4, <3>1 DEF Create, CreateNext, CreateStep
  <2>5. CASE Crash
    BY <2>3, <2>5 DEF Crash
  <2>6. CASE Vnpay \/ Answers \/ Administer \/ Tick \/ UNCHANGED vars
    BY <2>3, <2>6 DEF Vnpay, Answers, Administer, Tick, vars, createVars
  <2> QED BY <2>4, <2>5, <2>6 DEF Next
<1> QED BY <1>1, <1>2

\* Of two bookings one saw the other, and would have been blocked by it.
LEMMA ClashIsRevival == SerialInv => SerialDoubleBookingIsRevival
<1> SUFFICES ASSUME SerialInv, NEW q \in Request, NEW r \in Request, q # r,
                    Active(booking[q]), Active(booking[r]), Clash(booking[q], booking[r])
             PROVE  q \in revived \/ r \in revived
  BY DEF SerialDoubleBookingIsRevival
<1>1. q \in known[r] \/ r \in known[q]
  BY DEF SerialInv, OneSawTheOther, Active, Booked
<1>2. Clash(booking[r], booking[q])
  BY DEF Clash
<1>3. DoubleBookingHasCause
  BY CauseFollows DEF SerialInv
<1> QED BY <1>1, <1>2, <1>3 DEF DoubleBookingHasCause

LEMMA SerialStep ==
  ASSUME IsFiniteSet(Request), MaxInFlight <= 1, SerialInv, [Next]_vars
  PROVE  SerialInv'
<1>1. IInv'
  BY InvariantStep DEF SerialInv
<1>2. OneCall'
  BY OneCallStep DEF SerialInv, IInv
<1>3. CommitSeesAll' /\ OneSawTheOther'
  BY SeesStep DEF SerialInv
<1> QED BY <1>1, <1>2, <1>3 DEF SerialInv

\* When createBooking runs one call at a time, a room is held by two bookings at once
\* only where a payment revived one that had been canceled: for any number of calls,
\* rooms, stays, answers, administrators and crashes.  The run `concurrent` shows that
\* the condition cannot be dropped.
THEOREM SerialCallsClashByRevival ==
  ASSUME IsFiniteSet(Request), MaxInFlight <= 1
  PROVE  Spec => []SerialDoubleBookingIsRevival
<1>1. Init => SerialInv
  BY SerialInit
<1>2. SerialInv /\ [Next]_vars => SerialInv'
  BY SerialStep
<1>3. SerialInv => SerialDoubleBookingIsRevival
  BY ClashIsRevival
<1> QED BY <1>1, <1>2, <1>3, PTL DEF Spec

-----------------------------------------------------------------------------
(* No contrary answers. *)

\* Which rows each step writes: all but these three write neither.
LEMMA WritersOnly ==
  ASSUME [Next]_vars,
         ~\E r \in Request : Commit(r),
         ~\E h \in Return : SaveInvoice(h) \/ SaveBooking(h)
  PROVE  UNCHANGED <<booking, invoice>>
<1>1. CASE Create
  BY <1>1 DEF Create, CreateNext, CreateStep, ReceiveBooking, FindRooms, FindServices,
     CheckRooms, Respond, dbVars
<1>2. CASE Answers
  BY <1>2 DEF Answers, ReturnNext, ReturnStep, ReceiveReturn, ReadInvoice, Enqueue, dbVars
<1>3. CASE Administer
  BY <1>3 DEF Administer, AdminNext, AdminStep, AdminBegins, BeginUpdateRoom, BeginDeleteRoom,
     BeginUpdateService, BeginDeleteService, Begin, UpdateRoom, DeleteRoom, UpdateService,
     CheckRelated, DeleteService, dbVars
<1>4. CASE Vnpay \/ Tick \/ Crash \/ UNCHANGED vars
  BY <1>4 DEF Vnpay, VnpayNext, VnpaySigns, Tick, Crash, vars, dbVars
<1> QED BY <1>1, <1>2, <1>3, <1>4 DEF Next

\* What was received stays received, and the step that receives writes no row.
LEMMA ReceivedGrows ==
  ASSUME [Next]_vars
  PROVE  /\ received \subseteq received'
         /\ UNCHANGED received \/ \E h \in Return, a \in Answer : ReceiveReturn(h, a)
<1>1. CASE Answers
  BY <1>1 DEF Answers, ReturnNext, ReturnStep, ReceiveReturn, ReadInvoice, SaveInvoice,
     SaveBooking, Enqueue
<1>2. CASE Create \/ Vnpay \/ Administer \/ Tick \/ Crash \/ UNCHANGED vars
  BY <1>2 DEF Create, Vnpay, VnpayNext, VnpaySigns, Administer, Tick, Crash, vars, returnVars
<1> QED BY <1>1, <1>2 DEF Next

LEMMA AnswersStay ==
  ASSUME [Next]_vars, NEW r \in Request
  PROVE  /\ Succeeded(r) => Succeeded(r)'
         /\ Refused(r) => Refused(r)'
         /\ Disputed(r) => Disputed(r)'
BY ReceivedGrows DEF Succeeded, Refused, Disputed

\* Where no contrary answers came, the statuses are those of the answer.
StatusesReceived ==
  \A r \in Request : ~Disputed(r) =>
    /\ Succeeded(r) => booking[r].status = "BOOKED" /\ invoice[r].status \in {"PENDING", "PAID"}
    /\ Refused(r) => invoice[r].status \in {"PENDING", "CANCELED"}

LEMMA StatusesFollow == IInv => StatusesReceived
<1> SUFFICES ASSUME IInv, NEW r \in Request, ~Disputed(r)
             PROVE  /\ Succeeded(r) => /\ booking[r].status = "BOOKED"
                                       /\ invoice[r].status \in {"PENDING", "PAID"}
                    /\ Refused(r) => invoice[r].status \in {"PENDING", "CANCELED"}
  BY DEF StatusesReceived
<1> USE DEF IInv
<1>1. ASSUME Succeeded(r) \/ Refused(r) PROVE pc[r] = "done"
  <2>1. PICK a \in received : a.inv = r
    BY <1>1 DEF Succeeded, Refused
  <2> QED BY <2>1 DEF AnswerInv, PageParameters
<1>2. pc[r] = "done" => Booked(r) /\ invoice[r].status # "none"
  BY DEF CallInv, NothingHeldWithoutUrl
<1>3. booking[r].status \in {"none", "BOOKED", "CANCELED"}
      /\ invoice[r].status \in {"none", "PENDING", "PAID", "CANCELED"}
  BY DEF CallInv, TypeOK, DbTypeOK, InvoiceRow, InvoiceStatus
<1>4. /\ invoice[r].status = "CANCELED" \/ booking[r].status = "CANCELED" => Refused(r)
      /\ invoice[r].status = "PAID" => Succeeded(r)
  BY CanceledRefused DEF StatusIsSigned
<1> QED BY <1>1, <1>2, <1>3, <1>4 DEF Disputed, Booked

LEMMA InvariantInit == Init => IInv
BY TypeInit, IndInit DEF IInv, IndInv

LEMMA StatusesStep ==
  ASSUME IInv, [Next]_vars
  PROVE  IInv' /\ StatusesReceived'
<1>1. IInv'
  BY InvariantStep
<1>2. (IInv => StatusesReceived)'
  BY StatusesFollow, PTL
<1> QED BY <1>1, <1>2

-----------------------------------------------------------------------------
(* A payment stays. *)

LEMMA PaidStep ==
  ASSUME IInv, [Next]_vars, NEW r \in Request, ~Disputed(r)
  PROVE  /\ invoice[r].status = "PAID" => invoice'[r].status = "PAID"
         /\ mails[r] > 0 => booking'[r].status = "BOOKED"
<1> USE DEF IInv, TypeOK, DbTypeOK
<1>1. invoice[r].status = "PAID" \/ mails[r] > 0 => Succeeded(r)
  BY DEF StatusIsSigned
<1>2. ASSUME NEW h \in Return, NEW a \in Answer, ReceiveReturn(h, a)
      PROVE  /\ invoice[r].status = "PAID" => invoice'[r].status = "PAID"
             /\ mails[r] > 0 => booking'[r].status = "BOOKED"
  <2>1. UNCHANGED <<booking, invoice>>
    BY <1>2 DEF ReceiveReturn, dbVars
  <2> QED BY <1>1, <2>1, StatusesFollow DEF StatusesReceived
<1>3. ASSUME UNCHANGED received
      PROVE  /\ invoice[r].status = "PAID" => invoice'[r].status = "PAID"
             /\ mails[r] > 0 => booking'[r].status = "BOOKED"
  <2>1. StatusesReceived'
    BY StatusesStep
  <2>2. ~Disputed(r)' /\ (Succeeded(r)' <=> Succeeded(r))
    BY <1>3 DEF Disputed, Succeeded, Refused
  <2>3. mails[r] > 0 => booking'[r].status = "BOOKED"
    BY <1>1, <2>1, <2>2 DEF StatusesReceived
  <2>4. ASSUME invoice[r].status = "PAID" PROVE invoice'[r].status = "PAID"
    <3>1. invoice'[r].status \in {"PENDING", "PAID"}
      BY <1>1, <2>1, <2>2, <2>4 DEF StatusesReceived
    <3>2. ASSUME NEW q \in Request, Commit(q) PROVE invoice'[r].status = "PAID"
      <4>1. q # r
        BY <2>4, <3>2 DEF Commit, CallInv, NothingHeldWithoutUrl
      <4> QED BY <2>4, <3>2, <4>1 DEF Commit
    <3>3. ASSUME NEW h \in Return, SaveInvoice(h) PROVE invoice'[r].status = "PAID"
      <4>1. invoice'[r].status # "PENDING"
        BY <2>4, <3>3 DEF SaveInvoice, InvoiceRow
      <4> QED BY <3>1, <4>1
    <3>4. ASSUME NEW h \in Return, SaveBooking(h) PROVE invoice'[r].status = "PAID"
      BY <2>4, <3>4 DEF SaveBooking
    <3> QED BY <2>4, <3>2, <3>3, <3>4, WritersOnly
  <2> QED BY <2>3, <2>4
<1> QED BY <1>2, <1>3, ReceivedGrows

\* Until a verified text says otherwise a paid invoice stays paid and its booking
\* booked, however often the answer comes and wherever handlers cross or die.
THEOREM PaymentsStay == Spec => PaidStaysPaid
<1>1. IInv /\ [Next]_vars =>
        [\A r \in Request : ~Disputed(r) =>
           /\ invoice[r].status = "PAID" => invoice'[r].status = "PAID"
           /\ mails[r] > 0 => booking'[r].status = "BOOKED"]_vars
  BY PaidStep
<1> QED BY <1>1, InvariantStep, InvariantInit, PTL DEF Spec, PaidStaysPaid

-----------------------------------------------------------------------------
(* Invoice and booking agree. *)

\* What a handler that cancels has saved of the invoice stays saved.
SavedStays ==
  \A h \in Return :
    /\ retPc[h] = "saveBooking"
    /\ carries[h].code # "00"
    /\ ~Disputed(carries[h].inv)
    => invoice[carries[h].inv].status = "CANCELED"

AgreeInv == IInv /\ SavedStays /\ StatusesAgree

LEMMA AgreeInit == Init => AgreeInv
<1> SUFFICES ASSUME Init PROVE AgreeInv
  OBVIOUS
<1>1. SavedStays /\ StatusesAgree
  BY DEF Init, DbInit, ReturnInit, SavedStays, StatusesAgree, NoBooking, NoInvoice
<1> QED BY <1>1, InvariantInit DEF AgreeInv

\* A handler comes between its saves by the first, and leaves by the second or dies.
LEMMA BetweenSaves ==
  ASSUME TypeOK, [Next]_vars, NEW g \in Return
  PROVE  /\ retPc[g] \in {"saveBooking", "crashed"} =>
              \/ retPc'[g] \in {"saveBooking", "crashed"} /\ carries'[g] = carries[g]
              \/ SaveBooking(g)
         /\ retPc'[g] = "saveBooking" =>
              (retPc[g] = "saveBooking" /\ carries'[g] = carries[g]) \/ SaveInvoice(g)
<1> USE DEF TypeOK, ReturnTypeOK
<1>1. ASSUME NEW h \in Return, ReturnStep(h) \/ \E a \in Answer : ReceiveReturn(h, a)
      PROVE  /\ h # g => retPc'[g] = retPc[g] /\ carries'[g] = carries[g]
             /\ h = g => /\ retPc[g] # "crashed"
                         /\ retPc[g] = "saveBooking" => SaveBooking(g)
                         /\ retPc'[g] = "saveBooking" => SaveInvoice(g)
  BY <1>1 DEF ReturnStep, ReceiveReturn, ReadInvoice, SaveInvoice, SaveBooking, Enqueue, ReturnGoto
<1>2. CASE Answers
  BY <1>1, <1>2 DEF Answers, ReturnNext
<1>3. CASE Create \/ Vnpay \/ Administer \/ Tick \/ UNCHANGED vars
  <2>1. UNCHANGED <<retPc, carries>>
    BY <1>3 DEF Create, Vnpay, VnpayNext, VnpaySigns, Administer, Tick, vars, returnVars
  <2> QED BY <2>1
<1>4. CASE Crash
  BY <1>4 DEF Crash, ReturnWaiting
<1> QED BY <1>2, <1>3, <1>4 DEF Next

\* The rows of a booking that was answered change by its handlers only.
LEMMA RowsOfAnswered ==
  ASSUME IInv, [Next]_vars, NEW r \in Request, pc[r] = "done",
         ~\E h \in Return : (SaveInvoice(h) \/ SaveBooking(h)) /\ carries[h].inv = r
  PROVE  booking'[r] = booking[r] /\ invoice'[r] = invoice[r]
<1> USE DEF IInv, TypeOK, DbTypeOK
<1>1. ASSUME NEW q \in Request, Commit(q)
      PROVE  booking'[r] = booking[r] /\ invoice'[r] = invoice[r]
  BY <1>1 DEF Commit
<1>2. ASSUME NEW h \in Return, SaveInvoice(h) \/ SaveBooking(h), carries[h].inv # r
      PROVE  booking'[r] = booking[r] /\ invoice'[r] = invoice[r]
  BY <1>2 DEF SaveInvoice, SaveBooking
<1> QED BY <1>1, <1>2, WritersOnly

LEMMA SavedStep ==
  ASSUME AgreeInv, [Next]_vars
  PROVE  SavedStays'
<1> SUFFICES ASSUME NEW g \in Return, retPc'[g] = "saveBooking", carries'[g].code # "00",
                    ~Disputed(carries[g].inv)'
             PROVE  invoice'[carries'[g].inv].status = "CANCELED"
  BY DEF SavedStays, Disputed, Succeeded, Refused
<1> USE DEF AgreeInv
<1>0. TypeOK
  BY DEF IInv
<1>1. ASSUME NEW h \in Return, SaveInvoice(h)
      PROVE  /\ UNCHANGED carries /\ carries[h].inv \in Request
             /\ carries[h].code # "00" => invoice'[carries[h].inv].status = "CANCELED"
             /\ carries[h].code = "00" => Succeeded(carries[h].inv)
  <2>1. carries[h].inv \in Request
    BY <1>1, CarriedAnswer DEF SaveInvoice, ReturnWaiting
  <2> QED BY <1>1, <2>1, CarriedAnswer DEF SaveInvoice, ReturnWaiting, IInv, TypeOK, DbTypeOK, InvoiceRow
<1>2. CASE SaveInvoice(g)
  BY <1>1, <1>2
<1>3. CASE ~SaveInvoice(g)
  <2>1. retPc[g] = "saveBooking" /\ carries'[g] = carries[g]
    BY <1>0, <1>3, BetweenSaves
  <2>2. PICK r \in Request : r = carries[g].inv
    BY <2>1, CarriedAnswer DEF ReturnWaiting
  <2>3. Refused(r) /\ ~Disputed(r) /\ pc[r] = "done"
    <3>1. Refused(r) /\ pc[r] = "done"
      BY <2>1, <2>2, CarriedAnswer DEF ReturnWaiting
    <3>2. ~Disputed(r)'
      BY <2>1, <2>2 DEF Disputed, Succeeded, Refused
    <3> QED BY <3>1, <3>2, AnswersStay
  <2>4. invoice[r].status = "CANCELED"
    BY <2>1, <2>2, <2>3 DEF SavedStays
  <2>5. ASSUME NEW h \in Return, SaveInvoice(h), carries[h].inv = r
        PROVE  invoice'[r].status = "CANCELED"
    BY <1>1, <2>3, <2>5 DEF Disputed
  <2>6. ASSUME NEW h \in Return, SaveBooking(h)
        PROVE  invoice'[r].status = "CANCELED"
    BY <2>4, <2>6 DEF SaveBooking
  <2>7. invoice'[r].status = "CANCELED"
    BY <2>3, <2>4, <2>5, <2>6, RowsOfAnswered
  <2> QED BY <2>1, <2>2, <2>7
<1> QED BY <1>2, <1>3

LEMMA AgreeStep ==
  ASSUME AgreeInv, [Next]_vars
  PROVE  StatusesAgree'
<1> SUFFICES ASSUME NEW r \in Request, ~Disputed(r)',
                    ~\E h \in Return : /\ retPc'[h] \in {"saveBooking", "crashed"}
                                        /\ carries'[h].inv = r /\ carries'[h].code # "00"
             PROVE  invoice'[r].status = "CANCELED" <=> booking'[r].status = "CANCELED"
  BY DEF StatusesAgree
<1> USE DEF AgreeInv
<1>0. TypeOK /\ ~Disputed(r)
  BY AnswersStay DEF IInv
<1>1. CASE UNCHANGED <<booking, invoice>> /\ ~Refused(r)
  BY <1>1, CanceledRefused
<1>2. CASE ~Refused(r) /\ UNCHANGED received
  <2>1. ~Refused(r)'
    BY <1>2 DEF Refused
  <2>2. (IInv /\ (invoice[r].status = "CANCELED" \/ booking[r].status = "CANCELED") => Refused(r))'
    BY CanceledRefused, PTL
  <2> QED BY <2>1, <2>2, InvariantStep
<1>3. CASE Refused(r)
  <2>1. pc[r] = "done" /\ ~Succeeded(r)
    <3>1. PICK a \in received : a.inv = r
      BY <1>3 DEF Refused
    <3> QED BY <1>0, <1>3, <3>1 DEF IInv, AnswerInv, PageParameters, Disputed
  <2>2. ASSUME NEW h \in Return, SaveInvoice(h) PROVE carries[h].inv # r
    <3>1. retPc'[h] = "saveBooking" /\ UNCHANGED carries
      BY <1>0, <2>2 DEF SaveInvoice, ReturnGoto, TypeOK, ReturnTypeOK
    <3>2. carries[h].code = "00" => Succeeded(carries[h].inv)
      BY <2>2, CarriedAnswer DEF SaveInvoice, ReturnWaiting
    <3> QED BY <2>1, <3>1, <3>2
  <2>3. ASSUME NEW h \in Return, SaveBooking(h), carries[h].inv = r
        PROVE  invoice'[r].status = "CANCELED" /\ booking'[r].status = "CANCELED"
    <3>1. carries[h].code # "00"
      BY <2>1, <2>3, CarriedAnswer DEF SaveBooking, ReturnWaiting
    <3>2. invoice'[r].status = "CANCELED"
      BY <1>0, <2>3, <3>1 DEF SaveBooking, SavedStays
    <3> QED BY <1>0, <2>3, <3>1, <3>2 DEF SaveBooking, TypeOK, DbTypeOK, BookingRow
  <2>4. CASE ~\E h \in Return : SaveBooking(h) /\ carries[h].inv = r
    <3>1. booking'[r] = booking[r] /\ invoice'[r] = invoice[r]
      BY <2>1, <2>2, <2>4, RowsOfAnswered
    <3>2. ~\E h \in Return : /\ retPc[h] \in {"saveBooking", "crashed"}
                              /\ carries[h].inv = r /\ carries[h].code # "00"
      BY <1>0, <2>4, BetweenSaves
    <3> QED BY <1>0, <3>1, <3>2 DEF StatusesAgree
  <2> QED BY <2>3, <2>4
<1>4. UNCHANGED received \/ UNCHANGED <<booking, invoice>>
  BY ReceivedGrows DEF ReceiveReturn, dbVars
<1> QED BY <1>1, <1>2, <1>3, <1>4

\* Where no contrary answers came, invoice and booking tell one story but for a handler
\* that cancels and is between its two saves, or died there.
THEOREM RowsAgree == Spec => []StatusesAgree
<1>1. AgreeInv /\ [Next]_vars => AgreeInv'
  BY InvariantStep, SavedStep, AgreeStep DEF AgreeInv
<1>2. AgreeInv => StatusesAgree
  BY DEF AgreeInv
<1> QED BY <1>1, <1>2, AgreeInit, PTL DEF Spec

-----------------------------------------------------------------------------
(* Refinement. *)

\* One row per id: then every id has its row.
LEMMA OneRowPerId ==
  ASSUME NEW s \in Seq(Nat), NEW rows, Cardinality(Range(s) \cap rows) = Len(s)
  PROVE  Range(s) \cap rows = Range(s)
<1>1. PICK n \in Nat : n = Len(s) /\ DOMAIN s = 1 .. n /\ s \in [1 .. n -> Nat]
  <2>1. Len(s) \in Nat /\ DOMAIN s = 1 .. Len(s) /\ s \in [1 .. Len(s) -> Nat]
    OBVIOUS
  <2> QED BY <2>1
<1>2. IsFiniteSet(1 .. n) /\ Cardinality(1 .. n) = n
  <2>1. 1 \in Int /\ n \in Int
    OBVIOUS
  <2>2. IsFiniteSet(1 .. n) /\ Cardinality(1 .. n) = IF 1 > n THEN 0 ELSE n - 1 + 1
    BY <2>1, FS_Interval
  <2> QED BY <2>2
<1>3. s \in Surjection(1 .. n, Range(s))
  <2>1. \A k \in 1 .. n : s[k] \in Range(s)
    BY <1>1 DEF Range
  <2>2. s \in [1 .. n -> Range(s)]
    BY <1>1, <2>1
  <2>3. \A t \in Range(s) : \E k \in 1 .. n : s[k] = t
    BY <1>1 DEF Range
  <2> QED BY <2>2, <2>3 DEF Surjection
<1>4. IsFiniteSet(Range(s)) /\ Cardinality(Range(s)) <= n
  BY <1>2, <1>3, FS_Surjection
<1>5. Cardinality(Range(s)) \in Nat
  BY <1>4, FS_CardinalityType
<1>6. /\ Cardinality(Range(s) \cap rows) <= Cardinality(Range(s))
      /\ Cardinality(Range(s)) = Cardinality(Range(s) \cap rows) => Range(s) = Range(s) \cap rows
  <2>1. Range(s) \cap rows \in SUBSET Range(s)
    OBVIOUS
  <2> QED BY <1>4, <2>1, FS_Subset
<1> QED BY <1>1, <1>4, <1>5, <1>6

\* What a call has checked before its commit: it was asked for some room, found every
\* one of them, and the stay is not empty.
LocalInv ==
  \A r \in Request :
    /\ pc[r] \in Waiting => input[r] \in Input /\ input[r].roomIds # <<>>
    /\ pc[r] \in {"findServices", "checkRooms", "commit"} =>
         {f.room : f \in foundRooms[r]} = Range(input[r].roomIds)
    /\ pc[r] = "commit" => input[r].start < input[r].end

LEMMA LocalStep ==
  ASSUME TypeOK, LocalInv, [Next]_vars
  PROVE  LocalInv'
<1> USE Constants DEF TypeOK, CreateTypeOK
<1>1. ASSUME NEW r \in Request, NEW i \in Input, ReceiveBooking(r, i) PROVE LocalInv'
  <2>1. /\ pc'[r] \in {"rejected", "findRooms"} /\ input'[r] = i /\ UNCHANGED foundRooms
        /\ pc'[r] # "rejected" => i.roomIds # <<>>
        /\ \A q \in Request \ {r} : pc'[q] = pc[q] /\ input'[q] = input[q]
    BY <1>1 DEF ReceiveBooking, Goto
  <2> QED BY <2>1 DEF LocalInv, Waiting
<1>2. ASSUME NEW r \in Request, FindRooms(r) PROVE LocalInv'
  <2> DEFINE found == Range(input[r].roomIds) \cap roomRows
  <2>1. input[r].roomIds \in Seq(Nat)
    BY DEF Dto
  <2>2. {f.room : f \in foundRooms'[r]} = found
    <3>1. foundRooms'[r] = {[room |-> m, price |-> roomPrice[m]] : m \in found}
      BY <1>2 DEF FindRooms
    <3> HIDE DEF found
    <3>2. ASSUME NEW m \in found PROVE m \in {f.room : f \in foundRooms'[r]}
      <4>1. [room |-> m, price |-> roomPrice[m]] \in foundRooms'[r]
        BY <3>1
      <4>2. [room |-> m, price |-> roomPrice[m]].room = m
        OBVIOUS
      <4> QED BY <4>1, <4>2
    <3>3. ASSUME NEW f \in foundRooms'[r] PROVE f.room \in found
      BY <3>1
    <3> QED BY <3>2, <3>3
  <2>3. pc[r] = "findRooms" /\ UNCHANGED input
    BY <1>2 DEF FindRooms
  <2>4. /\ pc'[r] \in {"rejected", "checkRooms", "findServices"}
        /\ pc'[r] # "rejected" => found = Range(input[r].roomIds)
    BY <1>2, <2>1, OneRowPerId DEF FindRooms, Goto
  <2>5. \A q \in Request \ {r} : pc'[q] = pc[q] /\ foundRooms'[q] = foundRooms[q]
    BY <1>2 DEF FindRooms, Goto
  <2> HIDE DEF found
  <2> QED BY <2>2, <2>3, <2>4, <2>5 DEF LocalInv, Waiting
<1>3. ASSUME NEW r \in Request, FindServices(r) PROVE LocalInv'
  BY <1>3 DEF FindServices, Goto, LocalInv, Waiting
<1>4. ASSUME NEW r \in Request, CheckRooms(r) PROVE LocalInv'
  <2>1. input[r].start \in Nat /\ input[r].end \in Nat
    BY DEF Dto
  <2> QED BY <1>4, <2>1 DEF CheckRooms, Goto, LocalInv, Waiting
<1>5. ASSUME NEW r \in Request, Commit(r) \/ Respond(r) PROVE LocalInv'
  <2>1. /\ pc[r] \in Waiting /\ UNCHANGED <<input, foundRooms>>
        /\ pc'[r] \in {"respond", "failed", "done", "noUrl"}
        /\ \A q \in Request \ {r} : pc'[q] = pc[q]
    BY <1>5 DEF Commit, Respond, Goto, Waiting
  <2> QED BY <2>1 DEF LocalInv, Waiting
<1>6. CASE Create
  BY <1>1, <1>2, <1>3, <1>4, <1>5, <1>6 DEF Create, CreateNext, CreateStep
<1>7. CASE Crash
  BY <1>7 DEF Crash, LocalInv, Waiting
<1>8. CASE Vnpay \/ Answers \/ Administer \/ Tick \/ UNCHANGED vars
  <2>1. UNCHANGED <<pc, input, foundRooms>>
    BY <1>8 DEF Vnpay, Answers, Administer, Tick, vars, createVars
  <2> QED BY <2>1 DEF LocalInv
<1> QED BY <1>6, <1>7, <1>8 DEF Next

PromiseInv == SerialInv /\ LocalInv

LEMMA PromiseInit == Init => PromiseInv
<1>1. Init => LocalInv
  BY DEF Init, CreateInit, LocalInv, Waiting
<1> QED BY <1>1, SerialInit DEF PromiseInv

LEMMA PromiseStep ==
  ASSUME IsFiniteSet(Request), MaxInFlight <= 1, PromiseInv, [Next]_vars
  PROVE  PromiseInv'
BY SerialStep, LocalStep DEF PromiseInv, SerialInv, IInv

\* What the mapped state of a reservation says of its rows.
LEMMA MappedState ==
  ASSUME IInv, NEW r \in Request
  PROVE  /\ StateOf(r) = "none" <=> ~Booked(r)
         /\ StateOf(r) = "released" <=> booking[r].status = "CANCELED"
         /\ StateOf(r) = "paid" <=> booking[r].status = "BOOKED" /\ invoice[r].status = "PAID"
         /\ StateOf(r) = "held" <=> booking[r].status = "BOOKED" /\ invoice[r].status # "PAID"
<1>1. booking[r].status \in {"none", "BOOKED", "CANCELED"}
  BY DEF IInv, CallInv
<1>2. CASE booking[r].status = "none"
  <2>1. StateOf(r) = "none"
    BY <1>2 DEF StateOf, Booked
  <2> QED BY <1>2, <2>1 DEF Booked
<1>3. CASE booking[r].status = "CANCELED"
  <2>1. StateOf(r) = "released"
    BY <1>3 DEF StateOf, Booked
  <2> QED BY <1>3, <2>1 DEF Booked
<1>4. CASE booking[r].status = "BOOKED" /\ invoice[r].status = "PAID"
  <2>1. StateOf(r) = "paid"
    BY <1>4 DEF StateOf, Booked
  <2> QED BY <1>4, <2>1 DEF Booked
<1>5. CASE booking[r].status = "BOOKED" /\ invoice[r].status # "PAID"
  <2>1. StateOf(r) = "held"
    BY <1>5 DEF StateOf, Booked
  <2> QED BY <1>5, <2>1 DEF Booked
<1> QED BY <1>1, <1>2, <1>3, <1>4, <1>5

\* A step that leaves the rows of r alone, and a step that writes them.
LEMMA SameRows ==
  ASSUME NEW r \in Request, booking'[r] = booking[r], invoice'[r] = invoice[r]
  PROVE  StateOf(r)' = StateOf(r) /\ StayOf(r)' = StayOf(r)
BY DEF StateOf, StayOf, Booked, RoomsOf

LEMMA SameDisputes ==
  ASSUME UNCHANGED received
  PROVE  {q \in Request : Disputed(q)}' = {q \in Request : Disputed(q)}
BY DEF Disputed, Succeeded, Refused

LEMMA MapInit == Init => Abstract!ReservationInit
<1> SUFFICES ASSUME Init PROVE Abstract!ReservationInit
  OBVIOUS
<1>1. \A r \in Request : booking[r] = NoBooking
  BY DEF Init, DbInit
<1>2. \A r \in Request : StateOf(r) = "none"
  BY <1>1 DEF StateOf, Booked, NoBooking
<1>3. \A r \in Request : StayOf(r) = Abstract!NoStay
  BY <1>1 DEF StayOf, RoomsOf, NoBooking, Abstract!NoStay
<1>4. {r \in Request : Disputed(r)} = {}
  BY DEF Init, ReturnInit, Disputed, Succeeded
<1> QED BY <1>2, <1>3, <1>4 DEF Abstract!ReservationInit

\* The commit reserves what was asked for, which no other reservation holds.
LEMMA CommitReserves ==
  ASSUME PromiseInv, PromiseInv', NEW r \in Request, Commit(r), UNCHANGED received
  PROVE  Abstract!ReservationNext \/ UNCHANGED Abstract!reservationVars
<1> USE DEF PromiseInv, SerialInv, IInv, TypeOK, DbTypeOK, CreateTypeOK
<1>0. {q \in Request : Disputed(q)}' = {q \in Request : Disputed(q)}
  BY SameDisputes
<1>1. pc[r] = "commit" /\ ~Booked(r)
  BY DEF Commit, CallInv
<1>2. \A q \in Request \ {r} : StateOf(q)' = StateOf(q) /\ StayOf(q)' = StayOf(q)
  <2>1. \A q \in Request \ {r} : booking'[q] = booking[q] /\ invoice'[q] = invoice[q]
    BY DEF Commit
  <2> QED BY <2>1, SameRows
<1>3. CASE UNCHANGED <<booking, invoice>>
  <2>1. \A q \in Request : StateOf(q)' = StateOf(q) /\ StayOf(q)' = StayOf(q)
    BY <1>3, SameRows
  <2> QED BY <2>1, <1>0 DEF Abstract!reservationVars
<1>4. CASE booking'[r] = BookingOf(r) /\ invoice'[r].status = "PENDING"
  <2> DEFINE s == [rooms |-> Range(input[r].roomIds), start |-> input[r].start,
                   end |-> input[r].end]
  <2>1. s \in Wishes
    BY <1>1 DEF LocalInv, Wishes, Waiting
  <2>2. s.rooms # {} /\ s.start < s.end
    <3>1. input[r].roomIds # <<>> /\ input[r].roomIds \in Seq(Nat)
      BY <1>1, Constants DEF LocalInv, Waiting, Dto
    <3>2. 1 \in DOMAIN input[r].roomIds
      BY <3>1
    <3>3. s.rooms # {}
      BY <3>2 DEF Range
    <3> QED BY <1>1, <3>3 DEF LocalInv
  <2>3. StateOf(r) = "none" /\ StateOf(r)' = "held" /\ StayOf(r)' = s
    <3>1. StateOf(r) = "none"
      BY <1>1 DEF StateOf
    <3>2. StateOf(r)' = "held"
      BY <1>4 DEF StateOf, Booked, BookingOf
    <3>3. RoomsOf(BookingOf(r)) = Range(input[r].roomIds)
      BY <1>1 DEF LocalInv, RoomsOf, BookingOf
    <3>4. booking'[r].start = input[r].start /\ booking'[r].end = input[r].end
      BY <1>4 DEF BookingOf
    <3>5. StayOf(r)' = [rooms |-> RoomsOf(booking'[r]), start |-> booking'[r].start,
                        end |-> booking'[r].end]
      BY DEF StayOf, RoomsOf
    <3>6. RoomsOf(booking'[r]) = Range(input[r].roomIds)
      BY <1>4, <3>3
    <3> QED BY <3>1, <3>2, <3>4, <3>5, <3>6
  <2>4. ASSUME NEW d \in Request, ~Disputed(d), StateOf(d) \in {"held", "paid"}
        PROVE  ~Abstract!Together(s, StayOf(d))
    <3>1. Booked(d) /\ Active(booking[d])
      BY <2>4, MappedState DEF Booked, Active
    <3>2. d \in known[r] /\ d \notin revived
      BY <1>1, <2>4, <3>1 DEF CommitSeesAll, RevivalNeedsBothAnswers
    <3>3. ~Blocking(input[r], booking[d])
      BY <1>1, <3>2 DEF CheckInv
    <3>4. /\ booking[d].start \in Nat /\ booking[d].end \in Nat
          /\ input[r].start \in Nat /\ input[r].end \in Nat
      BY DEF BookingRow, Dto
    <3> QED BY <3>1, <3>3, <3>4 DEF Blocking, Abstract!Together, StayOf
  <2> HIDE DEF s
  <2>5. Abstract!Reserve(r, s)
    BY <1>0, <1>2, <2>2, <2>3, <2>4 DEF Abstract!Reserve, Abstract!Holds
  <2> QED BY <2>1, <2>5 DEF Abstract!ReservationNext
<1> QED BY <1>3, <1>4 DEF Commit

\* A save pays or gives up the reservation of its answer, does so once more, or
\* settles a dispute.
LEMMA SavePaysOrGivesUp ==
  ASSUME IInv, NEW h \in Return, SaveInvoice(h) \/ SaveBooking(h)
  PROVE  Abstract!ReservationNext \/ UNCHANGED Abstract!reservationVars
<1> DEFINE success == carries[h].code = "00"
<1>0. {q \in Request : Disputed(q)}' = {q \in Request : Disputed(q)}
  BY SameDisputes DEF SaveInvoice, SaveBooking
<1>1. /\ carries[h].inv \in Request /\ Booked(carries[h].inv)
      /\ success => Succeeded(carries[h].inv)
      /\ ~success => Refused(carries[h].inv)
  BY CarriedAnswer DEF SaveInvoice, SaveBooking, ReturnWaiting
<1>2. /\ \A q \in Request \ {carries[h].inv} :
           booking'[q] = booking[q] /\ invoice'[q] = invoice[q]
      /\ booking'[carries[h].inv].rooms = booking[carries[h].inv].rooms
      /\ booking'[carries[h].inv].start = booking[carries[h].inv].start
      /\ booking'[carries[h].inv].end = booking[carries[h].inv].end
  BY <1>1 DEF SaveInvoice, SaveBooking, IInv, TypeOK, DbTypeOK, BookingRow
<1>3. \/ /\ booking'[carries[h].inv].status = booking[carries[h].inv].status
         /\ invoice'[carries[h].inv].status = IF success THEN "PAID" ELSE "CANCELED"
      \/ /\ invoice'[carries[h].inv] = invoice[carries[h].inv]
         /\ booking'[carries[h].inv].status = IF success THEN "BOOKED" ELSE "CANCELED"
  BY <1>1 DEF SaveInvoice, SaveBooking, IInv, TypeOK, DbTypeOK, BookingRow, InvoiceRow
<1> HIDE DEF success
<1>4. PICK r \in Request : r = carries[h].inv
  BY <1>1
<1>5. \A q \in Request \ {r} : StateOf(q)' = StateOf(q) /\ StayOf(q)' = StayOf(q)
  BY <1>2, <1>4, SameRows
<1>6. StayOf(r)' = StayOf(r)
  BY <1>2, <1>4 DEF StayOf, RoomsOf
<1>7. booking[r].status \in {"BOOKED", "CANCELED"}
  BY <1>1, <1>4 DEF IInv, CallInv, Booked
<1>8. \/ /\ booking'[r].status = booking[r].status
         /\ invoice'[r].status = IF success THEN "PAID" ELSE "CANCELED"
      \/ /\ invoice'[r] = invoice[r]
         /\ booking'[r].status = IF success THEN "BOOKED" ELSE "CANCELED"
  BY <1>3, <1>4
<1>9. CASE Disputed(r)
  <2>1. StateOf(r)' \in {"held", "paid", "released"}
    BY <1>7, <1>8 DEF StateOf, Booked
  <2>2. Abstract!Settle(r, StateOf(r)')
    BY <1>0, <1>5, <1>6, <1>9 DEF Abstract!Settle
  <2> QED BY <2>1, <2>2 DEF Abstract!ReservationNext
<1>10. CASE ~Disputed(r)
  <2>1. \/ StateOf(r)' = StateOf(r)
        \/ StateOf(r) = "held" /\ StateOf(r)' \in {"paid", "released"}
    <3>1. /\ Succeeded(r) => booking[r].status = "BOOKED" /\ ~Refused(r)
          /\ Refused(r) => invoice[r].status # "PAID"
      BY <1>10, StatusesFollow DEF StatusesReceived, Disputed
    <3>2. (success => Succeeded(r)) /\ (~success => Refused(r))
      BY <1>1, <1>4
    <3> QED BY <1>7, <1>8, <3>1, <3>2 DEF StateOf, Booked
  <2>2. CASE StateOf(r)' = StateOf(r)
    BY <1>0, <1>5, <1>6, <2>2 DEF Abstract!reservationVars
  <2>3. CASE StateOf(r) = "held" /\ StateOf(r)' = "paid"
    <3>1. Abstract!Pay(r)
      BY <1>0, <1>5, <1>6, <2>3 DEF Abstract!Pay
    <3> QED BY <3>1 DEF Abstract!ReservationNext
  <2>4. CASE StateOf(r) = "held" /\ StateOf(r)' = "released"
    <3>1. Abstract!GiveUp(r)
      BY <1>0, <1>5, <1>6, <2>4 DEF Abstract!GiveUp
    <3> QED BY <3>1 DEF Abstract!ReservationNext
  <2> QED BY <2>1, <2>2, <2>3, <2>4
<1> QED BY <1>9, <1>10

\* A text that is contrary to what came before disputes the reservation, which exists.
LEMMA ReceiveDisputes ==
  ASSUME IInv, NEW h \in Return, NEW a \in Answer, ReceiveReturn(h, a)
  PROVE  Abstract!ReservationNext \/ UNCHANGED Abstract!reservationVars
<1>1. \A q \in Request : StateOf(q)' = StateOf(q) /\ StayOf(q)' = StayOf(q)
  <2>1. \A q \in Request : booking'[q] = booking[q] /\ invoice'[q] = invoice[q]
    BY DEF ReceiveReturn, dbVars
  <2> QED BY <2>1, SameRows
<1>2. CASE UNCHANGED received
  BY <1>1, <1>2, SameDisputes DEF Abstract!reservationVars
<1>3. CASE received' = received \cup {a} /\ Verified(a)
  <2>1. PICK r \in Request : r = a.inv /\ \E code \in Code : a = [inv |-> r, code |-> code]
    BY DEF Answer
  <2>2. StateOf(r) # "none"
    <3>1. pc[r] = "done"
      BY <1>3, <2>1 DEF Verified, PageParameters, IInv, AnswerInv
    <3> QED BY <3>1, MappedState DEF IInv, CallInv
  <2>3. \A q \in Request \ {r} : Disputed(q)' <=> Disputed(q)
    BY <1>3, <2>1 DEF Disputed, Succeeded, Refused
  <2>4. Disputed(r) => Disputed(r)'
    BY <1>3 DEF Disputed, Succeeded, Refused
  <2>5. CASE Disputed(r)' <=> Disputed(r)
    <3>1. {q \in Request : Disputed(q)}' = {q \in Request : Disputed(q)}
      BY <2>3, <2>5
    <3> QED BY <1>1, <3>1 DEF Abstract!reservationVars
  <2>6. CASE Disputed(r)' /\ ~Disputed(r)
    <3>1. {q \in Request : Disputed(q)}' = {q \in Request : Disputed(q)} \cup {r}
      BY <2>3, <2>6
    <3>2. Abstract!Dispute(r)
      BY <1>1, <2>2, <3>1 DEF Abstract!Dispute
    <3> QED BY <3>2 DEF Abstract!ReservationNext
  <2> QED BY <2>4, <2>5, <2>6
<1> QED BY <1>2, <1>3 DEF ReceiveReturn

\* When calls come one at a time the application implements the reservation of rooms,
\* through every crash and whatever answers come, how often and in which order.
THEOREM SerialCallsImplementReservation ==
  ASSUME IsFiniteSet(Request), MaxInFlight <= 1
  PROVE  Spec => ImplementsReservation
<1>1. PromiseInv /\ [Next]_vars => PromiseInv'
  BY PromiseStep
<1>2. PromiseInv /\ PromiseInv' /\ [Next]_vars =>
        Abstract!ReservationNext \/ UNCHANGED Abstract!reservationVars
  <2> SUFFICES ASSUME PromiseInv, PromiseInv', [Next]_vars
               PROVE  Abstract!ReservationNext \/ UNCHANGED Abstract!reservationVars
    OBVIOUS
  <2>1. CASE UNCHANGED <<booking, invoice, received>>
    <3>1. \A q \in Request : StateOf(q)' = StateOf(q) /\ StayOf(q)' = StayOf(q)
      BY <2>1, SameRows
    <3> QED BY <2>1, <3>1, SameDisputes DEF Abstract!reservationVars
  <2>2. CASE Create
    <3>1. UNCHANGED received
      BY <2>2 DEF Create, returnVars
    <3>2. CASE \E r \in Request : Commit(r)
      BY <3>1, <3>2, CommitReserves
    <3>3. CASE ~\E r \in Request : Commit(r)
      BY <2>1, <2>2, <3>1, <3>3 DEF Create, CreateNext, CreateStep, ReceiveBooking, FindRooms,
         FindServices, CheckRooms, Respond, dbVars
    <3> QED BY <3>2, <3>3
  <2>3. CASE Answers
    <3>1. ASSUME NEW h \in Return, ReadInvoice(h) \/ Enqueue(h)
          PROVE  UNCHANGED <<booking, invoice, received>>
      BY <3>1 DEF ReadInvoice, Enqueue, dbVars
    <3> QED BY <2>1, <2>3, <3>1, SavePaysOrGivesUp, ReceiveDisputes
            DEF Answers, ReturnNext, ReturnStep, PromiseInv, SerialInv
  <2>4. CASE Administer \/ Vnpay \/ Tick \/ Crash \/ UNCHANGED vars
    <3>1. UNCHANGED received
      BY <2>4 DEF Administer, Vnpay, VnpayNext, VnpaySigns, Tick, Crash, vars, returnVars
    <3>2. UNCHANGED <<booking, invoice>>
      BY <2>4 DEF Administer, AdminNext, AdminStep, AdminBegins, BeginUpdateRoom, BeginDeleteRoom,
         BeginUpdateService, BeginDeleteService, Begin, UpdateRoom, DeleteRoom, UpdateService,
         CheckRelated, DeleteService, Vnpay, VnpayNext, VnpaySigns, Tick, Crash, vars, dbVars
    <3> QED BY <2>1, <3>1, <3>2
  <2> QED BY <2>2, <2>3, <2>4 DEF Next
<1> QED BY <1>1, <1>2, PromiseInit, MapInit, PTL
        DEF Spec, ImplementsReservation, Abstract!ReservationSpec
=============================================================================
