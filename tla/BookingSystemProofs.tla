------------------------ MODULE BookingSystemProofs ------------------------
(***************************************************************************)
(* Theorems of BookingSystem for every set of calls, rooms, prices and     *)
(* instants, every bound and every environment.                            *)
(***************************************************************************)
EXTENDS BookingSystem, TLAPS

\* The constants of the four modules.
LEMMA Constants ==
  /\ RoomId \subseteq Nat /\ ServiceId \subseteq Nat /\ Price \subseteq Nat
  /\ Clock \subseteq Nat /\ ColumnMax \in Nat /\ Input \subseteq Dto
  /\ MaxCrashes \in Nat
BY RoomIdAssumption, ServiceIdAssumption, PriceAssumption, ClockAssumption,
   ColumnMaxAssumption, InputAssumption, MaxCrashesAssumption

-----------------------------------------------------------------------------
(* Type correctness. *)

\* The column stores the whole number nearest to what it is given.
LEMMA RoundedNearest ==
  ASSUME NEW q \in Nat
  PROVE  /\ Rounded(q) \in Nat
         /\ 2 * (Parts * Rounded(q) - q) \in -Parts .. Parts
<1> DEFINE a == 2 * q + Parts
           b == 2 * Parts
           d == a \div b
<1>1. a \in Nat /\ b \in Nat \ {0} /\ Parts \in Nat \ {0}
  BY PartsAssumption
<1>2. d \in Int /\ b * d <= a /\ a < b * d + b
  BY <1>1
<1>3. d \in Nat
  BY <1>1, <1>2
<1>4. b * d = 2 * (Parts * d) /\ Parts * d \in Nat
  BY <1>1, <1>3
<1> QED BY <1>1, <1>2, <1>3, <1>4 DEF Rounded

\* Whatever the quantities sent, each line stores a natural number.
LEMMA QuantityType ==
  ASSUME NEW i \in Dto, NEW found, NEW s
  PROVE  QuantityOf(i, found, s) \in Nat
<1>1. i.quantities \in Seq(Nat)
  BY DEF Dto
<1>2. \A k \in DOMAIN i.quantities : i.quantities[k] \in Nat
  BY <1>1
<1> QED BY <1>2 DEF QuantityOf

LEMMA ServiceLinesType ==
  ASSUME NEW i \in Dto, NEW found \in SUBSET FoundService
  PROVE  ServiceLines(i, found) \subseteq ServiceLine
BY QuantityType, RoundedNearest DEF ServiceLines, ServiceLine, FoundService

LEMMA TypeInit == Init => TypeOK
BY Constants DEF Init, TypeOK, DbInit, DbTypeOK, CreateInit, CreateTypeOK, ReturnInit,
   ReturnTypeOK, AdminInit, AdminTypeOK, BookingRow, InvoiceRow, NoBooking, NoInvoice,
   Dto, NoInput, CreatePc, ReturnPc, AdminPc

\* The handler of createBooking keeps the types of its locals and of the rows.
LEMMA CreateType ==
  ASSUME DbTypeOK, CreateTypeOK, CreateNext
  PROVE  DbTypeOK' /\ CreateTypeOK'
<1> USE Constants
<1>1. ASSUME NEW r \in Request, NEW i \in Input, ReceiveBooking(r, i)
      PROVE  DbTypeOK' /\ CreateTypeOK'
  BY <1>1 DEF ReceiveBooking, Goto, DbTypeOK, CreateTypeOK, dbVars, CreatePc, Waiting, Answered
<1>2. ASSUME NEW r \in Request, FindRooms(r)
      PROVE  DbTypeOK' /\ CreateTypeOK'
  <2>1. {[room |-> m, price |-> roomPrice[m]] : m \in Range(input[r].roomIds) \cap roomRows}
          \subseteq FoundRoom
    <3>1. \A m \in roomRows : m \in RoomId /\ roomPrice[m] \in Nat
      BY DEF DbTypeOK
    <3> QED BY <3>1 DEF FoundRoom
  <2>2. foundRooms' \in [Request -> SUBSET FoundRoom]
    BY <1>2, <2>1 DEF FindRooms, CreateTypeOK
  <2>3. pc' \in [Request -> CreatePc]
    BY <1>2 DEF FindRooms, Goto, CreateTypeOK, CreatePc, Waiting, Answered
  <2> QED BY <1>2, <2>2, <2>3 DEF FindRooms, DbTypeOK, CreateTypeOK, dbVars
<1>3. ASSUME NEW r \in Request, FindServices(r)
      PROVE  DbTypeOK' /\ CreateTypeOK'
  <2>1. {[service |-> s, price |-> servicePrice[s]] :
           s \in Range(input[r].serviceIds) \cap serviceRows} \subseteq FoundService
    <3>1. \A s \in serviceRows : s \in ServiceId /\ servicePrice[s] \in Nat
      BY DEF DbTypeOK
    <3> QED BY <3>1 DEF FoundService
  <2>2. foundServices' \in [Request -> SUBSET FoundService]
    BY <1>3, <2>1 DEF FindServices, CreateTypeOK
  <2>3. pc' \in [Request -> CreatePc]
    BY <1>3 DEF FindServices, Goto, CreateTypeOK, CreatePc, Waiting, Answered
  <2> QED BY <1>3, <2>2, <2>3 DEF FindServices, DbTypeOK, CreateTypeOK, dbVars
<1>4. ASSUME NEW r \in Request, CheckRooms(r)
      PROVE  DbTypeOK' /\ CreateTypeOK'
  BY <1>4 DEF CheckRooms, Goto, DbTypeOK, CreateTypeOK, dbVars, CreatePc, Waiting, Answered
<1>5. ASSUME NEW r \in Request, Commit(r)
      PROVE  DbTypeOK' /\ CreateTypeOK'
  <2>1. BookingOf(r) \in BookingRow
    <3>1. input[r] \in Dto /\ foundRooms[r] \subseteq FoundRoom
          /\ foundServices[r] \in SUBSET FoundService
      BY DEF CreateTypeOK
    <3>2. ServiceLines(input[r], foundServices[r]) \subseteq ServiceLine
      BY <3>1, ServiceLinesType
    <3> QED BY <3>1, <3>2 DEF BookingOf, BookingRow, BookingStatus, FoundRoom, RoomLine, Dto
  <2>2. DbTypeOK'
    <3>1. CASE UNCHANGED <<booking, invoice>>
      BY <1>5, <3>1 DEF Commit, DbTypeOK, catalogVars
    <3>2. CASE booking' = [booking EXCEPT ![r] = BookingOf(r)]
               /\ \E total \in 0 .. ColumnMax :
                    invoice' = [invoice EXCEPT ![r] = [status |-> "PENDING", total |-> total]]
      BY <1>5, <2>1, <3>2 DEF Commit, DbTypeOK, catalogVars, InvoiceRow, InvoiceStatus
    <3> QED BY <1>5, <3>1, <3>2 DEF Commit
  <2>3. CreateTypeOK'
    BY <1>5 DEF Commit, CreateTypeOK, Goto, CreatePc, Waiting, Answered
  <2> QED BY <2>2, <2>3
<1>6. ASSUME NEW r \in Request, Respond(r)
      PROVE  DbTypeOK' /\ CreateTypeOK'
  BY <1>6 DEF Respond, Goto, DbTypeOK, CreateTypeOK, dbVars, CreatePc, Waiting, Answered
<1> QED BY <1>1, <1>2, <1>3, <1>4, <1>5, <1>6 DEF CreateNext, CreateStep

\* A save changes one status of one row, which an answer names.
LEMMA SaveType ==
  ASSUME DbTypeOK, NEW r,
         NEW s \in {"PAID", "CANCELED"}, NEW t \in {"BOOKED", "CANCELED"}
  PROVE  /\ [invoice EXCEPT ![r].status = s] \in [Request -> InvoiceRow]
         /\ [booking EXCEPT ![r].status = t] \in [Request -> BookingRow]
BY DEF DbTypeOK, InvoiceRow, InvoiceStatus, BookingRow, BookingStatus

\* So do the handler of vnpay_return and VNPay.
LEMMA ReturnType ==
  ASSUME DbTypeOK, ReturnTypeOK, ReturnNext
  PROVE  DbTypeOK' /\ ReturnTypeOK'
<1> USE DEF ReturnTypeOK, ReturnGoto, ReturnPc, ReturnWaiting
<1>1. ASSUME NEW h \in Return, NEW a \in Answer, ReceiveReturn(h, a)
      PROVE  DbTypeOK' /\ ReturnTypeOK'
  BY <1>1 DEF ReceiveReturn, DbTypeOK, dbVars
<1>2. ASSUME NEW h \in Return, ReadInvoice(h)
      PROVE  DbTypeOK' /\ ReturnTypeOK'
  BY <1>2 DEF ReadInvoice, DbTypeOK, dbVars
<1>3. ASSUME NEW h \in Return, SaveInvoice(h)
      PROVE  DbTypeOK' /\ ReturnTypeOK'
  <2>1. invoice' \in [Request -> InvoiceRow]
    BY <1>3, SaveType DEF SaveInvoice
  <2> QED BY <1>3, <2>1 DEF SaveInvoice, DbTypeOK, catalogVars
<1>4. ASSUME NEW h \in Return, SaveBooking(h)
      PROVE  DbTypeOK' /\ ReturnTypeOK'
  <2>1. booking' \in [Request -> BookingRow]
    BY <1>4, SaveType DEF SaveBooking
  <2>2. revived' \subseteq Request
    <3>1. CASE carries[h] \in Answer
      BY <1>4, <3>1 DEF SaveBooking, Answer
    <3>2. CASE carries[h] = NoAnswer
      BY <1>4, <3>2 DEF SaveBooking, NoAnswer
    <3> QED BY <3>1, <3>2
  <2> QED BY <1>4, <2>1, <2>2 DEF SaveBooking, DbTypeOK, catalogVars
<1>5. ASSUME NEW h \in Return, Enqueue(h)
      PROVE  DbTypeOK' /\ ReturnTypeOK'
  BY <1>5 DEF Enqueue, DbTypeOK, dbVars
<1> QED BY <1>1, <1>2, <1>3, <1>4, <1>5 DEF ReturnNext, ReturnStep

LEMMA VnpayType ==
  ASSUME DbTypeOK, ReturnTypeOK, VnpayNext
  PROVE  DbTypeOK' /\ ReturnTypeOK'
BY DEF VnpayNext, VnpaySigns, DbTypeOK, ReturnTypeOK, dbVars, Answer, Code, VnpayCode

\* And the administrators.
LEMMA AdminType ==
  ASSUME DbTypeOK, AdminTypeOK, AdminNext
  PROVE  DbTypeOK' /\ AdminTypeOK'
<1> USE Constants DEF DbTypeOK, AdminTypeOK, AdminPc, AdminGoto, Finish, dbVars
<1>1. ASSUME NEW a \in Admin, AdminBegins(a)
      PROVE  DbTypeOK' /\ AdminTypeOK'
  BY <1>1 DEF AdminBegins, BeginUpdateRoom, BeginDeleteRoom, BeginUpdateService,
     BeginDeleteService, Begin
<1>2. ASSUME NEW a \in Admin, UpdateRoom(a)
      PROVE  DbTypeOK' /\ AdminTypeOK'
  BY <1>2 DEF UpdateRoom
<1>3. ASSUME NEW a \in Admin, DeleteRoom(a)
      PROVE  DbTypeOK' /\ AdminTypeOK'
  BY <1>3 DEF DeleteRoom
<1>4. ASSUME NEW a \in Admin, UpdateService(a)
      PROVE  DbTypeOK' /\ AdminTypeOK'
  BY <1>4 DEF UpdateService
<1>5. ASSUME NEW a \in Admin, CheckRelated(a)
      PROVE  DbTypeOK' /\ AdminTypeOK'
  BY <1>5 DEF CheckRelated
<1>6. ASSUME NEW a \in Admin, DeleteService(a)
      PROVE  DbTypeOK' /\ AdminTypeOK'
  BY <1>6 DEF DeleteService
<1> QED BY <1>1, <1>2, <1>3, <1>4, <1>5, <1>6 DEF AdminNext, AdminStep

LEMMA TypeStep == TypeOK /\ [Next]_vars => TypeOK'
<1> SUFFICES ASSUME TypeOK, [Next]_vars PROVE TypeOK'
  OBVIOUS
<1> USE DEF TypeOK
<1>1. CASE Create
  <2>1. DbTypeOK' /\ CreateTypeOK'
    BY <1>1, CreateType DEF Create
  <2> QED BY <1>1, <2>1 DEF Create, returnVars, adminVars, ReturnTypeOK, AdminTypeOK
<1>2. CASE Vnpay
  <2>1. DbTypeOK' /\ ReturnTypeOK'
    BY <1>2, VnpayType DEF Vnpay
  <2> QED BY <1>2, <2>1 DEF Vnpay, createVars, adminVars, CreateTypeOK, AdminTypeOK
<1>3. CASE Answers
  <2>1. DbTypeOK' /\ ReturnTypeOK'
    BY <1>3, ReturnType DEF Answers
  <2> QED BY <1>3, <2>1 DEF Answers, createVars, adminVars, CreateTypeOK, AdminTypeOK
<1>4. CASE Administer
  <2>1. DbTypeOK' /\ AdminTypeOK'
    BY <1>4, AdminType DEF Administer
  <2> QED BY <1>4, <2>1 DEF Administer, createVars, returnVars, CreateTypeOK, ReturnTypeOK
<1>5. CASE Tick
  BY <1>5 DEF Tick, catalogVars, createVars, returnVars, adminVars, DbTypeOK, CreateTypeOK,
     ReturnTypeOK, AdminTypeOK
<1>6. CASE Crash
  <2>1. pc' \in [Request -> CreatePc] /\ retPc' \in [Return -> ReturnPc]
    BY <1>6 DEF Crash, CreateTypeOK, ReturnTypeOK, CreatePc, ReturnPc
  <2>2. crashes' \in 0 .. MaxCrashes
    BY <1>6, Constants DEF Crash
  <2> QED BY <1>6, <2>1, <2>2 DEF Crash, dbVars, adminVars, DbTypeOK, CreateTypeOK,
             ReturnTypeOK, AdminTypeOK
<1>7. CASE UNCHANGED vars
  BY <1>7 DEF vars, dbVars, createVars, returnVars, adminVars, DbTypeOK, CreateTypeOK,
     ReturnTypeOK, AdminTypeOK
<1> QED BY <1>1, <1>2, <1>3, <1>4, <1>5, <1>6, <1>7 DEF Next

\* Every variable keeps its type in every behaviour of the system: in particular
\* a status is never a value of the other table's enumeration and a total always
\* fits its column.
THEOREM TypeCorrect == Spec => []TypeOK
<1>1. Init => TypeOK
  BY TypeInit
<1>2. TypeOK /\ [Next]_vars => TypeOK'
  BY TypeStep
<1> QED BY <1>1, <1>2, PTL DEF Spec

-----------------------------------------------------------------------------
(* The foreign keys. *)

LEMMA RowsInit == Init => ReferentialIntegrity
BY DEF Init, DbInit, NoBooking, ReferentialIntegrity, RoomsOf, ServicesOf

LEMMA RowsStep == TypeOK /\ ReferentialIntegrity /\ [Next]_vars => ReferentialIntegrity'
<1> SUFFICES ASSUME TypeOK, ReferentialIntegrity, [Next]_vars PROVE ReferentialIntegrity'
  OBVIOUS
<1> USE DEF ReferentialIntegrity, RoomsOf, ServicesOf
<1>1. ASSUME UNCHANGED <<roomRows, serviceRows, booking>> PROVE ReferentialIntegrity'
  BY <1>1
<1>2. ASSUME NEW r \in Request, Commit(r) PROVE ReferentialIntegrity'
  <2>1. CASE UNCHANGED booking
    BY <1>2, <2>1 DEF Commit, catalogVars
  <2>2. CASE /\ booking' = [booking EXCEPT ![r] = BookingOf(r)]
             /\ RoomsOf(BookingOf(r)) \subseteq roomRows
             /\ ServicesOf(BookingOf(r)) \subseteq serviceRows
    BY <1>2, <2>2 DEF Commit, catalogVars, TypeOK, DbTypeOK
  <2> QED BY <1>2, <2>1, <2>2 DEF Commit
<1>3. ASSUME NEW h \in Return, SaveBooking(h) PROVE ReferentialIntegrity'
  <2>1. \A r \in Request : /\ booking'[r].rooms = booking[r].rooms
                           /\ booking'[r].services = booking[r].services
    BY <1>3 DEF SaveBooking, TypeOK, DbTypeOK, BookingRow
  <2> QED BY <1>3, <2>1 DEF SaveBooking, catalogVars
<1>4. ASSUME NEW a \in Admin, DeleteRoom(a) PROVE ReferentialIntegrity'
  BY <1>4 DEF DeleteRoom, RoomReferenced
<1>5. ASSUME NEW a \in Admin, DeleteService(a) PROVE ReferentialIntegrity'
  BY <1>5 DEF DeleteService, ServiceReferenced
<1>6. CASE Create
  <2>1. CASE \E r \in Request : Commit(r)
    BY <2>1, <1>2
  <2>2. CASE ~\E r \in Request : Commit(r)
    BY <1>6, <2>2, <1>1 DEF Create, CreateNext, CreateStep, ReceiveBooking, FindRooms,
       FindServices, CheckRooms, Respond, dbVars
  <2> QED BY <2>1, <2>2
<1>7. CASE Answers
  <2>1. CASE \E h \in Return : SaveBooking(h)
    BY <2>1, <1>3
  <2>2. CASE ~\E h \in Return : SaveBooking(h)
    BY <1>7, <2>2, <1>1 DEF Answers, ReturnNext, ReturnStep, ReceiveReturn, ReadInvoice,
       SaveInvoice, Enqueue, dbVars, catalogVars
  <2> QED BY <2>1, <2>2
<1>8. CASE Administer
  <2>1. CASE \E a \in Admin : DeleteRoom(a) \/ DeleteService(a)
    BY <2>1, <1>4, <1>5
  <2>2. CASE ~\E a \in Admin : DeleteRoom(a) \/ DeleteService(a)
    BY <1>8, <2>2, <1>1 DEF Administer, AdminNext, AdminStep, AdminBegins, BeginUpdateRoom,
       BeginDeleteRoom, BeginUpdateService, BeginDeleteService, Begin, UpdateRoom,
       UpdateService, CheckRelated, dbVars
  <2> QED BY <2>1, <2>2
<1>9. CASE Vnpay \/ Tick \/ Crash \/ UNCHANGED vars
  BY <1>9, <1>1 DEF Vnpay, VnpayNext, VnpaySigns, Tick, Crash, vars, dbVars, catalogVars
<1> QED BY <1>6, <1>7, <1>8, <1>9 DEF Next

\* No interleaving of createBooking with deleteRoom and deleteService leaves a
\* booking line whose room or service is gone.
THEOREM ReferencesHold == Spec => []ReferentialIntegrity
<1>1. Init => ReferentialIntegrity
  BY RowsInit
<1>2. TypeOK /\ ReferentialIntegrity /\ [Next]_vars => ReferentialIntegrity'
  BY RowsStep
<1> QED BY <1>1, <1>2, TypeCorrect, PTL DEF Spec

-----------------------------------------------------------------------------
(* The inductive invariant.  IndInv is IInv without the types, which TypeStep  *)
(* takes care of.                                                              *)

IndInv ==
  /\ CallInv
  /\ AnswerInv
  /\ NothingHeldWithoutUrl
  /\ StatusIsSigned
  /\ RevivalNeedsBothAnswers
  /\ CheckInv

LEMMA IndInit == Init => IndInv
BY DEF Init, DbInit, CreateInit, ReturnInit, IndInv, CallInv, AnswerInv, NothingHeldWithoutUrl,
   StatusIsSigned, RevivalNeedsBothAnswers, CheckInv, Booked, NoBooking, NoInvoice, NoInput,
   ReturnWaiting

\* A canceled row has been refused, and the parameters of a page stay what they are.
LEMMA CanceledRefused ==
  ASSUME IInv, NEW r \in Request,
         invoice[r].status = "CANCELED" \/ booking[r].status = "CANCELED"
  PROVE  Refused(r)
<1>1. PICK a \in received : a.inv = r /\ a.code # "00"
  BY DEF IInv, StatusIsSigned
<1>2. a \in Answer
  BY DEF IInv, TypeOK, ReturnTypeOK
<1>3. a.code \in Code /\ a = [inv |-> r, code |-> a.code]
  BY <1>1, <1>2 DEF Answer
<1> QED BY <1>1, <1>3 DEF Refused

\* Conversely, a step keeps the statuses explained when it sets them only to what
\* was received.
LEMMA StatusGrows ==
  ASSUME IInv, AnswerInv', signed \subseteq signed', received \subseteq received',
         \A r \in Request :
           /\ invoice'[r].status = "PAID" =>
                invoice[r].status = "PAID" \/ (Succeeded(r) /\ Paid(r))
           /\ mails'[r] > 0 => mails[r] > 0 \/ (Succeeded(r) /\ Paid(r))
           /\ invoice'[r].status = "CANCELED" => invoice[r].status = "CANCELED" \/ Refused(r)
           /\ booking'[r].status = "CANCELED" => booking[r].status = "CANCELED" \/ Refused(r)
  PROVE  StatusIsSigned'
<1>1. ASSUME NEW r \in Request
      PROVE  /\ Succeeded(r) => Succeeded(r)'
             /\ Paid(r) => Paid(r)'
             /\ Refused(r) => Refused(r)'
  BY DEF Succeeded, Paid, Refused
<1>2. \A r \in Request :
        /\ invoice'[r].status = "PAID" \/ mails'[r] > 0 => (Succeeded(r) /\ Paid(r))'
        /\ invoice'[r].status = "CANCELED" \/ booking'[r].status = "CANCELED" => Refused(r)'
  BY <1>1, CanceledRefused DEF IInv, StatusIsSigned
<1>3. \A r \in Request : Refused(r)' =>
        \E a \in received' : a.inv = r /\ a.code # "00" /\ (a \in signed' \/ PageParameters(a)')
  BY DEF Refused, AnswerInv
<1> QED BY <1>2, <1>3 DEF StatusIsSigned

\* Steps that touch no booking, invoice, call or answer: the clock and the
\* administrators.
LEMMA QuietStep ==
  ASSUME IInv, UNCHANGED <<booking, invoice, createVars, returnVars>>
  PROVE  IndInv'
<1> USE DEF IInv, createVars, returnVars, Booked
<1>1. CallInv' /\ NothingHeldWithoutUrl'
  BY DEF CallInv, NothingHeldWithoutUrl
<1>2. AnswerInv'
  BY DEF AnswerInv, PageParameters
<1>3. StatusIsSigned'
  BY <1>2, StatusGrows
<1>4. RevivalNeedsBothAnswers'
  BY DEF RevivalNeedsBothAnswers, Paid, Succeeded, Refused, Disputed
<1>5. CheckInv'
  BY DEF CheckInv, Blocking, Active, RoomsOf
<1> QED BY <1>1, <1>2, <1>3, <1>4, <1>5 DEF IndInv

\* Steps of a call before its commit write only its own locals.
LEMMA CallStep ==
  ASSUME IInv, UNCHANGED returnVars, NEW r \in Request,
         \/ \E i \in Input : ReceiveBooking(r, i)
         \/ FindRooms(r) \/ FindServices(r) \/ CheckRooms(r) \/ Respond(r)
  PROVE  IndInv'
<1> USE DEF IInv, TypeOK, DbTypeOK, CreateTypeOK, ReturnTypeOK
<1>1. UNCHANGED <<booking, invoice>>
  BY DEF ReceiveBooking, FindRooms, FindServices, CheckRooms, Respond, dbVars
<1>2. CallInv'
  <2>1. ASSUME NEW i \in Input, ReceiveBooking(r, i) PROVE CallInv'
    BY <1>1, <2>1, Constants DEF ReceiveBooking, CallInv, Goto, Booked
  <2>2. CASE FindRooms(r)
    BY <1>1, <2>2 DEF FindRooms, CallInv, Goto, Booked
  <2>3. CASE FindServices(r) \/ CheckRooms(r)
    BY <1>1, <2>3 DEF FindServices, CheckRooms, CallInv, Goto, Booked
  <2>4. CASE Respond(r)
    BY <1>1, <2>4 DEF Respond, CallInv, Goto, Booked
  <2> QED BY <2>1, <2>2, <2>3, <2>4
<1>3. pc[r] # "done" /\ \A q \in Request \ {r} : pc'[q] = pc[q]
  BY DEF ReceiveBooking, FindRooms, FindServices, CheckRooms, Respond, Goto
<1>4. AnswerInv'
  BY <1>3 DEF AnswerInv, returnVars, Answer, PageParameters
<1>5. NothingHeldWithoutUrl'
  <2>1. CASE Respond(r)
    BY <1>1, <2>1 DEF Respond, NothingHeldWithoutUrl, Goto, Booked
  <2>2. CASE ~Respond(r)
    <3>1. ~Booked(r)
      BY <2>2 DEF CallInv, ReceiveBooking, FindRooms, FindServices, CheckRooms
    <3> QED BY <1>1, <1>3, <3>1 DEF NothingHeldWithoutUrl, Booked
  <2> QED BY <2>1, <2>2
<1>6. StatusIsSigned' /\ RevivalNeedsBothAnswers'
  <2>1. StatusIsSigned'
    BY <1>1, <1>4, StatusGrows DEF returnVars
  <2> QED BY <2>1 DEF RevivalNeedsBothAnswers, Paid, Succeeded, Refused, Disputed, returnVars
<1>7. CheckInv'
  <2>1. \A q \in Request : Booked(q)' <=> Booked(q)
    BY <1>1 DEF Booked
  <2>2. ASSUME UNCHANGED input
        PROVE  \A p, q \in Request :
                 Blocking(input[p], booking[q])' <=> Blocking(input[p], booking[q])
    BY <1>1, <2>2
  <2>3. CASE CheckRooms(r)
    <3>1. \A q \in Request : pc'[r] = "commit" => ~Blocking(input[r], booking[q])
      BY <2>3 DEF CheckRooms, Goto
    <3>2. ~Booked(r) /\ known'[r] = {q \in Request : Booked(q)}
      BY <2>3 DEF CheckRooms, CallInv
    <3>3. \A p \in Request \ {r} : known'[p] = known[p] /\ pc'[p] = pc[p]
      BY <2>3 DEF CheckRooms, Goto
    <3> QED BY <2>1, <2>2, <2>3, <3>1, <3>2, <3>3 DEF CheckRooms, CheckInv, returnVars
  <2>4. CASE Respond(r) \/ FindRooms(r) \/ FindServices(r)
    <3>1. UNCHANGED <<input, known>> /\ (pc'[r] = "commit" => pc[r] = "commit")
      BY <2>4 DEF Respond, FindRooms, FindServices, Goto
    <3> QED BY <1>3, <2>1, <2>2, <3>1 DEF CheckInv, returnVars
  <2>5. ASSUME NEW i \in Input, ReceiveBooking(r, i) PROVE CheckInv'
    <3>1. ~Booked(r) /\ pc'[r] # "commit" /\ UNCHANGED known
      BY <2>5 DEF ReceiveBooking, Goto, CallInv
    <3>2. \A p \in Request \ {r} : input'[p] = input[p]
      BY <2>5 DEF ReceiveBooking
    <3>3. \A p \in Request \ {r}, q \in Request :
            Blocking(input[p], booking[q])' <=> Blocking(input[p], booking[q])
      BY <1>1, <3>2
    <3> QED BY <1>3, <2>1, <3>1, <3>3 DEF CheckInv, returnVars
  <2> QED BY <2>3, <2>4, <2>5
<1> QED BY <1>2, <1>4, <1>5, <1>6, <1>7 DEF IndInv

\* The commit, which finds no row of its own and leaves the others alone.
LEMMA CommitStep ==
  ASSUME IInv, UNCHANGED returnVars, NEW r \in Request, Commit(r)
  PROVE  IndInv'
<1> USE DEF IInv, TypeOK, DbTypeOK, CreateTypeOK, ReturnTypeOK
<1>1. pc[r] = "commit" /\ ~Booked(r)
  BY DEF Commit, CallInv
<1>2. \A q \in Request \ {r} : /\ pc'[q] = pc[q] /\ booking'[q] = booking[q]
                              /\ invoice'[q] = invoice[q]
  BY DEF Commit, Goto
<1>3. \/ /\ pc'[r] = "failed" /\ booking'[r] = booking[r] /\ invoice'[r] = invoice[r]
      \/ /\ pc'[r] = "respond" /\ booking'[r] = BookingOf(r)
         /\ invoice'[r].status = "PENDING"
  BY DEF Commit, Goto
<1>4. UNCHANGED <<input, foundRooms, known>>
  BY DEF Commit
<1>5. CallInv'
  BY <1>1, <1>2, <1>3, <1>4 DEF CallInv, Booked, BookingOf
<1>6. AnswerInv'
  BY <1>1, <1>2 DEF AnswerInv, returnVars, Answer, PageParameters
<1>7. NothingHeldWithoutUrl'
  BY <1>1, <1>2, <1>3 DEF NothingHeldWithoutUrl, Booked, BookingOf
<1>8. StatusIsSigned' /\ RevivalNeedsBothAnswers'
  <2>1. \A q \in Request :
          /\ invoice'[q].status \in {"PENDING", invoice[q].status}
          /\ booking'[q].status \in {"BOOKED", booking[q].status}
    BY <1>2, <1>3 DEF BookingOf
  <2>2. StatusIsSigned'
    BY <1>6, <2>1, StatusGrows DEF returnVars
  <2> QED BY <2>2 DEF RevivalNeedsBothAnswers, Paid, Succeeded, Refused, Disputed, returnVars
<1>9. CheckInv'
  <2>1. \A q \in Request : Booked(q) => Booked(q)' /\ q # r
    BY <1>1, <1>2 DEF Booked
  <2>2. \A p \in Request, q \in Request \ {r} :
          Blocking(input[p], booking[q])' <=> Blocking(input[p], booking[q])
    BY <1>2, <1>4
  <2>3. \A p \in Request : pc'[p] = "commit" \/ Booked(p)' => pc[p] = "commit" \/ Booked(p)
    BY <1>1, <1>2, <1>3 DEF Booked
  <2> QED BY <1>4, <2>1, <2>2, <2>3 DEF CheckInv, returnVars
<1> QED BY <1>5, <1>6, <1>7, <1>8, <1>9 DEF IndInv

\* A signature is added for a call that was answered, and takes none away.
LEMMA SignStep ==
  ASSUME IInv, UNCHANGED createVars, VnpayNext
  PROVE  IndInv'
<1> PICK r \in Request, code \in VnpayCode : VnpaySigns(r, code)
  BY DEF VnpayNext
<1>1. UNCHANGED <<booking, invoice, retPc, carries, received, mails, revived>>
  BY DEF VnpaySigns, dbVars
<1>2. signed' = signed \cup {[inv |-> r, code |-> code]} /\ pc[r] = "done"
  BY DEF VnpaySigns
<1>3. CallInv' /\ NothingHeldWithoutUrl'
  BY <1>1 DEF IInv, CallInv, NothingHeldWithoutUrl, createVars, Booked
<1>4. AnswerInv'
  BY <1>1, <1>2 DEF IInv, AnswerInv, createVars, PageParameters, VnpayCode
<1>5. StatusIsSigned' /\ RevivalNeedsBothAnswers'
  <2>1. StatusIsSigned'
    BY <1>1, <1>2, <1>4, StatusGrows
  <2> QED BY <1>1, <1>2, <2>1 DEF IInv, RevivalNeedsBothAnswers, Paid, Succeeded, Refused, Disputed
<1>6. CheckInv'
  <2>1. \A p, q \in Request :
          Blocking(input[p], booking[q])' <=> Blocking(input[p], booking[q])
    BY <1>1 DEF createVars
  <2> QED BY <1>1, <2>1 DEF IInv, CheckInv, createVars, Booked
<1> QED BY <1>3, <1>4, <1>5, <1>6 DEF IndInv

\* What the handler of an answer carries is the answer of a booking.
LEMMA CarriedAnswer ==
  ASSUME IInv, NEW h \in Return, retPc[h] \in ReturnWaiting
  PROVE  /\ carries[h] \in received
         /\ carries[h].inv \in Request /\ carries[h].code \in Code
         /\ carries[h].code = "00" => Succeeded(carries[h].inv) /\ Paid(carries[h].inv)
         /\ carries[h].code # "00" => Refused(carries[h].inv)
         /\ pc[carries[h].inv] = "done" /\ Booked(carries[h].inv)
<1>1. carries[h] \in received
  BY DEF IInv, AnswerInv
<1>2. carries[h] \in Answer
  BY <1>1 DEF IInv, TypeOK, ReturnTypeOK
<1>3. carries[h].inv \in Request /\ carries[h].code \in Code
      /\ carries[h] = [inv |-> carries[h].inv, code |-> carries[h].code]
  BY <1>2 DEF Answer
<1>4. pc[carries[h].inv] = "done"
  BY <1>1 DEF IInv, AnswerInv, PageParameters
<1>5. Booked(carries[h].inv)
  BY <1>3, <1>4 DEF IInv, CallInv
<1>6. carries[h].code = "00" => carries[h] \in signed
  BY <1>1 DEF IInv, AnswerInv, PageParameters
<1> QED BY <1>1, <1>3, <1>4, <1>5, <1>6 DEF Paid, Succeeded, Refused

\* The handler's steps that write neither row.
LEMMA AnswerStep ==
  ASSUME IInv, UNCHANGED createVars, NEW h \in Return,
         \/ \E a \in Answer : ReceiveReturn(h, a)
         \/ ReadInvoice(h) \/ Enqueue(h)
  PROVE  IndInv'
<1> USE DEF IInv, TypeOK, ReturnTypeOK
<1>1. UNCHANGED <<booking, invoice, signed, revived>> /\ received \subseteq received'
  BY DEF ReceiveReturn, ReadInvoice, Enqueue, dbVars
<1>2. CallInv' /\ NothingHeldWithoutUrl' /\ RevivalNeedsBothAnswers'
  BY <1>1 DEF CallInv, NothingHeldWithoutUrl, RevivalNeedsBothAnswers, createVars, Booked, Paid, Succeeded, Refused, Disputed
<1>3. AnswerInv'
  <2>1. ASSUME NEW a \in Answer, ReceiveReturn(h, a) PROVE AnswerInv'
    <3>1. \A b \in received' : b \in received \/ (b = a /\ Verified(a))
      BY <2>1 DEF ReceiveReturn
    <3>2. \A b \in received' : b \in signed \/ PageParameters(b)
      BY <3>1 DEF Verified, AnswerInv
    <3>3. \A g \in Return : retPc'[g] \in ReturnWaiting \cup {"crashed"} =>
            /\ carries'[g] \in received'
            /\ retPc'[g] = "enqueue" => carries'[g].code = "00"
      BY <1>1, <2>1 DEF ReceiveReturn, ReturnGoto, AnswerInv, ReturnWaiting
    <3> QED BY <1>1, <3>2, <3>3 DEF AnswerInv, PageParameters, createVars, ReturnWaiting
  <2>2. CASE ReadInvoice(h)
    BY <1>1, <2>2 DEF ReadInvoice, ReturnGoto, AnswerInv, ReturnWaiting, createVars, PageParameters
  <2>3. CASE Enqueue(h)
    BY <1>1, <2>3 DEF Enqueue, ReturnGoto, AnswerInv, ReturnWaiting, createVars, PageParameters
  <2> QED BY <2>1, <2>2, <2>3
<1>4. StatusIsSigned'
  <2>1. \A q \in Request : mails'[q] > 0 => mails[q] > 0 \/ (Succeeded(q) /\ Paid(q))
    <3>1. CASE UNCHANGED mails
      BY <3>1
    <3>2. CASE Enqueue(h)
      <4>1. Succeeded(carries[h].inv) /\ Paid(carries[h].inv)
        BY <3>2, CarriedAnswer DEF Enqueue, AnswerInv, ReturnWaiting
      <4>2. \A q \in Request : mails'[q] = mails[q] \/ q = carries[h].inv
        BY <3>2 DEF Enqueue
      <4> QED BY <4>1, <4>2
    <3> QED BY <3>1, <3>2 DEF ReceiveReturn, ReadInvoice
  <2> QED BY <1>1, <1>3, <2>1, StatusGrows
<1>5. CheckInv'
  <2>1. \A p, q \in Request :
          Blocking(input[p], booking[q])' <=> Blocking(input[p], booking[q])
    BY <1>1 DEF createVars
  <2> QED BY <1>1, <2>1 DEF CheckInv, createVars, Booked
<1> QED BY <1>2, <1>3, <1>4, <1>5 DEF IndInv

\* The save of the invoice stores what the signature says.
LEMMA SaveInvoiceStep ==
  ASSUME IInv, UNCHANGED createVars, NEW h \in Return, SaveInvoice(h)
  PROVE  IndInv'
<1> USE DEF IInv, TypeOK, DbTypeOK, ReturnTypeOK
<1>1. PICK r \in Request :
        /\ r = carries[h].inv /\ carries[h] \in received /\ Booked(r)
        /\ carries[h].code = "00" => Succeeded(r) /\ Paid(r)
        /\ carries[h].code # "00" => Refused(r)
  BY CarriedAnswer DEF SaveInvoice, ReturnWaiting
<1>2. UNCHANGED <<booking, signed, carries, received, mails, revived>>
  BY DEF SaveInvoice
<1>3. /\ \A q \in Request \ {r} : invoice'[q] = invoice[q]
      /\ invoice'[r].status = IF carries[h].code = "00" THEN "PAID" ELSE "CANCELED"
      /\ invoice'[r].total = invoice[r].total
  BY <1>1 DEF SaveInvoice, InvoiceRow
<1>4. CallInv' /\ RevivalNeedsBothAnswers'
  BY <1>2 DEF CallInv, RevivalNeedsBothAnswers, createVars, Booked, Paid, Succeeded, Refused, Disputed
<1>5. AnswerInv'
  BY <1>1, <1>2 DEF SaveInvoice, ReturnGoto, AnswerInv, ReturnWaiting, createVars, PageParameters
<1>6. NothingHeldWithoutUrl'
  BY <1>1, <1>2, <1>3 DEF NothingHeldWithoutUrl, createVars, Booked
<1>7. StatusIsSigned'
  BY <1>1, <1>2, <1>3, <1>5, StatusGrows
<1>8. CheckInv'
  <2>1. \A p, q \in Request :
          Blocking(input[p], booking[q])' <=> Blocking(input[p], booking[q])
    BY <1>2 DEF createVars
  <2> QED BY <1>2, <2>1 DEF CheckInv, createVars, Booked
<1> QED BY <1>4, <1>5, <1>6, <1>7, <1>8 DEF IndInv

\* The save of the booking: what becomes active again was canceled, and is then
\* in the history.
LEMMA SaveBookingStep ==
  ASSUME IInv, UNCHANGED createVars, NEW h \in Return, SaveBooking(h)
  PROVE  IndInv'
<1> USE DEF IInv, TypeOK, DbTypeOK, ReturnTypeOK
<1>1. PICK r \in Request :
        /\ r = carries[h].inv /\ carries[h] \in received /\ Booked(r)
        /\ carries[h].code = "00" => Succeeded(r) /\ Paid(r)
        /\ carries[h].code # "00" => Refused(r)
  BY CarriedAnswer DEF SaveBooking, ReturnWaiting
<1>2. UNCHANGED <<invoice, signed, carries, received, mails>>
  BY DEF SaveBooking
<1>3. /\ \A q \in Request \ {r} : booking'[q] = booking[q]
      /\ booking'[r].status = IF carries[h].code = "00" THEN "BOOKED" ELSE "CANCELED"
      /\ booking'[r].start = booking[r].start /\ booking'[r].end = booking[r].end
      /\ booking'[r].rooms = booking[r].rooms
  BY <1>1 DEF SaveBooking, BookingRow
<1>4. revived \subseteq revived'
      /\ (carries[h].code = "00" /\ booking[r].status = "CANCELED" => r \in revived')
      /\ \A q \in revived' : q \in revived
           \/ (q = r /\ carries[h].code = "00" /\ booking[r].status = "CANCELED")
  BY <1>1 DEF SaveBooking
<1>5. CallInv'
  BY <1>1, <1>2, <1>3 DEF CallInv, createVars, Booked
<1>6. AnswerInv'
  BY <1>1, <1>2 DEF SaveBooking, ReturnGoto, AnswerInv, ReturnWaiting, createVars, PageParameters
<1>7. NothingHeldWithoutUrl'
  BY <1>1, <1>2, <1>3 DEF NothingHeldWithoutUrl, createVars, Booked
<1>8. StatusIsSigned'
  BY <1>1, <1>2, <1>3, <1>6, StatusGrows
<1>9. RevivalNeedsBothAnswers'
  <2>1. booking[r].status = "CANCELED" => Refused(r)
    BY <1>1, CanceledRefused
  <2> QED BY <1>1, <1>2, <1>4, <2>1 DEF RevivalNeedsBothAnswers, Paid, Succeeded, Refused, Disputed
<1>10. CheckInv'
  <2>1. \A q \in Request : Booked(q)' <=> Booked(q)
    BY <1>1, <1>3 DEF Booked
  <2>2. \A p \in Request, q \in Request \ {r} :
          Blocking(input[p], booking[q])' <=> Blocking(input[p], booking[q])
    BY <1>3 DEF createVars
  <2>3. r \notin revived' /\ Active(booking'[r]) => Active(booking[r])
    <3>1. booking[r].status \in {"BOOKED", "CANCELED"}
      BY <1>1 DEF CallInv, Booked
    <3> QED BY <3>1, <1>3, <1>4 DEF Active
  <2>4. \A p \in Request : r \notin revived' /\ Blocking(input[p], booking[r])'
                             => Blocking(input[p], booking[r])
    BY <1>3, <2>3 DEF Blocking, Active, RoomsOf, createVars
  <2> QED BY <1>1, <1>4, <2>1, <2>2, <2>4 DEF CheckInv, createVars, CreateTypeOK
<1> QED BY <1>5, <1>6, <1>7, <1>8, <1>9, <1>10 DEF IndInv

\* A crash loses the calls in progress and no row.
LEMMA CrashStep ==
  ASSUME IInv, Crash
  PROVE  IndInv'
<1> USE DEF IInv, TypeOK, CreateTypeOK, ReturnTypeOK
<1>1. UNCHANGED <<booking, invoice, input, foundRooms, known, signed, carries, received, mails,
                 revived>>
  BY DEF Crash, dbVars
<1>2. /\ \A r \in Request : pc'[r] = pc[r] \/ (pc'[r] = "crashed" /\ pc[r] # "done")
      /\ \A h \in Return : retPc'[h] = retPc[h]
                            \/ (retPc'[h] = "crashed" /\ retPc[h] \in ReturnWaiting)
  BY DEF Crash, Waiting
<1>3. CallInv' /\ NothingHeldWithoutUrl'
  BY <1>1, <1>2 DEF CallInv, NothingHeldWithoutUrl, Booked
<1>4. AnswerInv'
  BY <1>1, <1>2 DEF AnswerInv, ReturnWaiting, Answer, PageParameters
<1>5. StatusIsSigned' /\ RevivalNeedsBothAnswers'
  <2>1. StatusIsSigned'
    BY <1>1, <1>4, StatusGrows
  <2> QED BY <1>1, <2>1 DEF RevivalNeedsBothAnswers, Paid, Succeeded, Refused, Disputed
<1>6. CheckInv'
  <2>1. \A p, q \in Request :
          Blocking(input[p], booking[q])' <=> Blocking(input[p], booking[q])
    BY <1>1
  <2> QED BY <1>1, <1>2, <2>1 DEF CheckInv, Booked
<1> QED BY <1>3, <1>4, <1>5, <1>6 DEF IndInv

LEMMA InvariantStep == IInv /\ [Next]_vars => IInv'
<1> SUFFICES ASSUME IInv, [Next]_vars PROVE IndInv'
  BY TypeStep DEF IInv, IndInv
<1>1. CASE Create
  BY <1>1, CallStep, CommitStep DEF Create, CreateNext, CreateStep
<1>2. CASE Vnpay
  BY <1>2, SignStep DEF Vnpay
<1>3. CASE Answers
  BY <1>3, AnswerStep, SaveInvoiceStep, SaveBookingStep DEF Answers, ReturnNext, ReturnStep
<1>4. CASE Administer
  <2>1. UNCHANGED <<booking, invoice>>
    BY <1>4 DEF Administer, AdminNext, AdminStep, AdminBegins, BeginUpdateRoom, BeginDeleteRoom,
       BeginUpdateService, BeginDeleteService, Begin, UpdateRoom, DeleteRoom, UpdateService,
       CheckRelated, DeleteService, dbVars
  <2> QED BY <1>4, <2>1, QuietStep DEF Administer
<1>5. CASE Tick
  BY <1>5, QuietStep DEF Tick
<1>6. CASE Crash
  BY <1>6, CrashStep
<1>7. CASE UNCHANGED vars
  BY <1>7, QuietStep DEF vars, dbVars
<1> QED BY <1>1, <1>2, <1>3, <1>4, <1>5, <1>6, <1>7 DEF Next

\* The inductive invariant holds in every behaviour of the system.
THEOREM Invariant == Spec => []IInv
<1>1. Init => IInv
  BY TypeInit, IndInit DEF IInv, IndInv
<1> QED BY <1>1, InvariantStep, PTL DEF Spec

-----------------------------------------------------------------------------
(* What follows from it. *)

\* Two bookings that hold a room at once block one another, so the one that the
\* check of the other saw has been revived since.
LEMMA CauseFollows == IInv => DoubleBookingHasCause
<1> SUFFICES ASSUME IInv, NEW q \in Request, NEW r \in Request, q # r, q \in known[r],
                    Active(booking[q]), Active(booking[r]), Clash(booking[q], booking[r]),
                    q \notin revived
             PROVE  FALSE
  BY DEF DoubleBookingHasCause
<1>1. Booked(r) /\ ~Blocking(input[r], booking[q])
  <2>1. Booked(r)
    BY DEF Active, Booked
  <2> QED BY <2>1 DEF IInv, CheckInv
<1>2. /\ booking[r].start = input[r].start /\ booking[r].end = input[r].end
      /\ RoomsOf(booking[r]) \subseteq Range(input[r].roomIds)
  BY <1>1 DEF IInv, CallInv, RoomsOf
<1>3. /\ booking[q].start \in Nat /\ booking[q].end \in Nat
      /\ booking[r].start \in Nat /\ booking[r].end \in Nat
  BY DEF IInv, TypeOK, DbTypeOK, BookingRow
<1>4. Blocking(input[r], booking[q])
  BY <1>2, <1>3 DEF Blocking, Clash
<1> QED BY <1>1, <1>4

\* The availability check is sound as far as it reaches, for any number of calls,
\* answers and crashes: a double booking needs two calls that did not see one
\* another or a canceled booking that was revived.
THEOREM CheckIsSound == Spec => []DoubleBookingHasCause
BY Invariant, CauseFollows, PTL

\* An invoice is paid and a confirmation mailed only on a success that VNPay signed;
\* a cancelation is explained by a failure that it signed or by the parameters of the
\* payment page, whatever handlers of other answers do and wherever the process dies.
THEOREM SignaturesDecide == Spec => []StatusIsSigned
<1>1. IInv => StatusIsSigned
  BY DEF IInv
<1> QED BY <1>1, Invariant, PTL

\* A canceled booking is set back to BOOKED only where VNPay signed a success and a
\* verified text said otherwise, however often and in whatever order handlers run.
THEOREM RevivalsAreSigned == Spec => []RevivalNeedsBothAnswers
<1>1. IInv => RevivalNeedsBothAnswers
  BY DEF IInv
<1> QED BY <1>1, Invariant, PTL

\* A call that was refused, or whose transaction failed, holds no room.
THEOREM RefusedCallsHoldNothing == Spec => []NothingHeldWithoutUrl
<1>1. IInv => NothingHeldWithoutUrl
  BY DEF IInv
<1> QED BY <1>1, Invariant, PTL
=============================================================================
