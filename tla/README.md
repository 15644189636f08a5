# Verification of the hotel booking system

TLA+ models of the NestJS microservices in this repository, the TLC runs that
check them on small instances, and TLAPS proofs of what holds for every instance.
`tlc -config X.cfg M` runs a configuration, `tlapm XProofs.tla` checks the proofs of a
module of that name.

## 1. The system

Clients talk HTTP to the **gateway**, which forwards each call as one message over
TCP to one of the services. The services share one MySQL database through TypeORM
and one Redis (Bull queue `emails`), each has a cache in its own memory, and they know
nothing of one another.

| component | state it keeps | operations | what is hard | what makes it correct |
|---|---|---|---|---|
| booking service (`apps/booking`) | `bookings`, `booking_rooms`, `booking_services`, `invoices` | `createBooking`, `handleVnpayReturn`, `listAllBookings`, `getBookingsByUserId` | six awaits between the first check and the answer; VNPay's answer late, repeated or lost; two saves without a transaction; a crash in the middle | no room held twice but for known causes; invoice and booking agree; a paid booking stays; only verified texts count |
| VNPay client (`libs/common/vnpay`) | none | `createPaymentUrl`, `verifyReturnUrl` | bounds on the amount, called after the commit | the amount alone leaves a booking without its URL; no altered text passes |
| room service (`apps/room`) | `rooms` | list, create, `updateRoomInfo`, `deleteRoom` | each reads, awaits, writes | no booking loses its room |
| service service (`apps/service`) | `services` | list, create, `updateService`, `deleteService` | the same; the look at a name before the write | no booking loses its service; names unique |
| auth service (`apps/auth`) | `users`, cache (`blacklist_`, `active_attempt_`, `active_block_`) | logins, `logout`, `userRegister`, `userActive`, `validateOAuthUser`, `forgotPassword`, `verifyResetToken`, `resetPassword` | whole-row saves of stale entities; get-then-set counters; a token that expires meanwhile | a reset password stays; an activated account stays active; a token is used once |
| user service (`apps/user`) | `users` | list, create, `updateUserInfo`, `deleteUser` | the table is shared with auth | unique address |
| notification (`apps/notification`) | the Bull queue `emails` (Redis) | four job handlers of `EmailProcessor` | lost and repeated jobs, a process that dies over one | what is called completed was mailed, at most once more per restart |
| payment service (`apps/payment`) | none | `listInvoices` | pages counted by offset while rows come and go | a client that pages misses and repeats only what moved |
| upload service (`apps/upload`) | Cloudinary (external) | upload an image | it swallows its errors; several uploads in flight | a row shows an image that was sent for it |
| gateway (`apps/gateway`) | none | routing, validation, JWT and role guards, image uploads of `admin/rooms` and `admin/users`, forwarding of `admin/services` | calls of two services in one request; broken connections; a cache of its own | who passes a guard was entitled; an answered success happened |

Node runs each handler without interruption between two awaits; every await is a
point where handlers of other calls, of the same process or of another, may run.

## 2. The modules

| module | models | state | actions |
|---|---|---|---|
| `HotelDatabase` | the tables and their foreign keys | `booking`, `invoice`, `roomRows`, `roomPrice`, ... | none |
| `CreateBooking` | `BookingService.createBooking` | `pc`, and the handler's locals `input`, `foundRooms`, `foundServices`; history `known` | `ReceiveBooking`, `FindRooms`, `FindServices`, `CheckRooms`, `Commit`, `Respond`: one per await, with all the code up to the next |
| `VnpayReturn` | `BookingService.handleVnpayReturn` and VNPay | `signed`, `retPc`, `carries`, `mails`; history `received`, `revived` | `VnpaySigns` (external), `ReceiveReturn`, `ReadInvoice`, `SaveInvoice`, `SaveBooking`, `Enqueue` |
| `CatalogAdmin` | price updates and deletions of `RoomService` and of the service service | `adminPc`, `adminId`, `adminPrice` | `BeginX` is the query and the decision, `X` the write |
| `BookingSystem` | the composition, the clock, crashes | `crashes` | `Create`, `Vnpay`, `Answers`, `Administer`, `Tick`, `Crash` |
| `Reservation` | the abstract promise: reserve, pay, give up, unless told both | `state`, `stay`, `disputed` | `Reserve`, `Pay`, `GiveUp`, `Dispute`, `Settle` |
| `BookingRefinement` | the refinement mapping from `BookingSystem` to `Reservation` | | |
| `AccountService` | the handlers of `AuthService` and `UserService` that write `users` | `users`, `expired`, `mails`; per call `pc`, `op`, `target`, `token`, `entity`, `changed`; history `wrote`, `seen` | `FindAddress`, `Insert` (`userRegister`, `validateOAuthUser`, `create`); `FindCode` (`userActive`), `FindForgetful` (`forgotPassword`), `FindResetToken` (`resetPassword`), then `SelectForSave`, `UpdateChanged`, `Reinsert`; `Enqueue`; `UpdateUserInfo`, `FindDeleted`, `Delete`; `Expire` |
| `Session` | the logins and `logout` of `AuthService`, `JwtAuthGuard`, `RolesGuard`, the deny lists in the caches of two processes | `now`, `account`, `denied`; per login `pc`, `kind`, `read`, `token`; per request `reqPc`, `bears`, `ttl`; history `revoked`, `before` | `FindUser` and `ComparePassword` (`adminLogin`, `userLogin`, `googleLogin`), `NoGuard`, `GuardVerify`, `GuardLookup`, `Logout`, `SetDenied`, `ChangeAccount`, `Tick` |
| `ImageUpload` | the controllers of `admin/rooms`, `admin/users` and `admin/services`, the upload service, the room, user and service handlers they call, and late saves of the auth service | `catalog`, `entities`, `uploaded`; per call `pc`, `input`, `imageUrl`, `answer`; history `broken`, `wrote`, `removed` | `Receive` (gateway); `Upload`, `UploadFails`; `Find`, `FindFails`, `Check` (the name of a service), `Insert`, `Update`, `UpdateNothing`, `Delete`, `WriteFails`, `Reread`, `RereadFails` (handlers); `Break` (a connection); `ReadUser`, `SaveUser`, `DropUser` (auth service) |
| `EmailQueue` | the Bull queue `emails` (external) and the handlers of `EmailProcessor` | `waiting`, `job`, `stalls`, `copies`, `crashes` | `Add` (of the producers), `Take`, `Send`, `SendRejects`, `Settle`, `Crash`, `Restart` |
| `Activation` | `AuthService.userActive` with its limiter in the cache | `status`, `stored`, `attempts`, `blocked`; per call `pc`, `code`, `count`, `answer`; history `spent`, `counted`, `round`, `disturbed` | `Receive`, `Find`, `Count`, `Store`, `Block`, `Clear`, `Save`, `Forgive`, `Unblock`, `Break`, `Expire` |
| `Onboarding` | the composition of the two with `userRegister` and the administration of users | `regPc` | `FindAddress`, `InsertUser`, `EnqueueWelcome`, `RegisterFails`, `AddOther`, `Submit`, `SetStatus`, `DeleteUser` |
| `Listings` | `listAllBookings`, `getBookingsByUserId`, `listInvoices`, `listUsers`, `listRooms`, `listServices`, and a client that pages through one of them | `handler`, `listed`, `pc`, `page`, `ids`, `got`, `torn`, `seen`; history `constant`, `repeats`, `entries`, `leaves` | `ReadIds`, `ReadRows`, `Count`; `Enter`, `Leave` (everybody else) |
| `MCBookingSystem`, `MCAccountService`, `MCSession`, `MCImageUpload`, `MCOnboarding`, `MCListings` | values for TLC | | |
| `BookingSystemProofs`, `ReservationProofs`, `InvoiceProofs`, `AccountServiceProofs`, `SessionProofs`, `ImageUploadProofs`, `OnboardingProofs`, `ListingsProofs` | theorems | | |

Three compositions: `BookingSystem` is `CreateBooking`, `VnpayReturn` and `CatalogAdmin`
over `HotelDatabase`; `Onboarding` is `EmailQueue` and `Activation`, which share the mailed
codes; `BookingRefinement` is `BookingSystem` seen as `Reservation`.

A booking and its invoice carry the name of the `createBooking` call that inserted
them, because a call inserts at most one of each. A row that does not exist has
status `"none"`.

Abstractions, each with its reason:

- Times are whole hours; `Nights` keeps the rounding up. Money is counted in hundredths of a
  VND, which is what the columns hold, and a quantity of a request in units of 1/`Parts`,
  since `IsPositive` without `IsInt` (`create-booking.dto.ts:46`) lets a fraction through.
  `Rounded` is MySQL's rounding: of the quantity, in its int column, and of the total.
- The transaction of `createBooking` is one action: MySQL shows none of it before
  the commit, and the code inside it reads nothing that others write. A foreign
  key that fails, or a total beyond `DECIMAL(10,2)`, rolls it back.
- `save` of TypeORM compares the entity with the stored row and writes the columns
  that differ. In `handleVnpayReturn` the column that matters is the status, which
  the handler has always assigned, so a save is a write of the status.
- `findBy({ id: In(ids) })` returns one row per distinct key in the order of the
  primary key, which is what InnoDB does with such a query; the code sets no order.
- A text verifies (`Verified`) when VNPay signed it (`signed`) or when it is the parameters
  of the payment page (`PageParameters`), which `createPaymentUrl` hashes with the same
  secret (`vnpay.service.ts:109`); they pass where they arrive as they were hashed, the
  return URL still encoded. They have no response code: `"absent"`. Any other text has
  another hash. `"24"` stands for every response code of VNPay other than `"00"`.
- `paid_date`, `invoice_code`, guests, the payment method, the user of a booking and
  the texts are left out: no property depends on them.

- `save` of an entity that has a key (`SelectForSave`, `UpdateChanged`, `Reinsert`,
  external) is TypeORM's: read the row, note the columns that differ, update those in
  a second statement; with no row, insert the entity under its key.
- In `AccountService` a secret (uuid, password) and the key of a row are named by the
  call that draws or inserts them. `password_reset_token` and its expiry are one
  column, always written together; a token expires at any time (`Expire`). Names,
  phones, avatars and roles are left out; the limiter of `userActive` is in `Activation`. A
  deletion that MySQL refuses for the user's bookings is a choice of `Delete`.
  Whoever sends a code or a reset token had it mailed.

- In `Session` one account stands for all, and a token is named by its login, as its
  `jti` is. `Date.now()` counts ticks, `iat` and `exp` whole seconds, so that the
  rounding of `timeToExpire` matters. An error of the database or of bcrypt ends a
  login without a token, as a login that was not begun. `Required` is what `@Roles` says
  of the routes, or every role where it says nothing. `Open` are the marked routes for
  which nothing names a guard, since no module registers one for all: those of
  `AdminRoomController` (`admin-room.controller.ts:31`) and `listAllBookings`
  (`booking.controller.ts:42`). A request for one of them passes (`NoGuard`).
- The cache is the one that `package.json` installs (`:37`, `:50`): `@nestjs/cache-manager` 3
  takes `stores` and ignores `store: await redisStore(...)` (`common.module.ts:27`), so that
  each process keeps its entries in its own memory (`Process`); `set` of `cache-manager` 7
  counts milliseconds. The auth service gives it seconds (`Until`), for a denied token
  (`auth.service.ts:164`) and for the limiter of `userActive` (`:266`, `900`); in
  `Activation` an entry may expire at any time, so that nothing depends on the unit, and
  only the auth service reads it.

- In `ImageUpload` a row is named by the call that inserts it, and an image by the call
  that uploads it. `Null` is both JavaScript's `null` and a field the dto leaves out; a
  name is a room number or an address. `FindFails` and `WriteFails` may happen at any
  query: they stand for conflicts, missing rows, bookings and foreign keys as well as for
  an error of the database, all of which the gateway answers as a failure. `Find` and
  the writes, in contrast, happen only where the code goes on. `Break` loses the
  connection to a service, which dies or finishes its handler unheard. A call names a row
  of its own table, or one that nobody has inserted so far (`NamesRow`).
- `avatar` is the field of `UpdateUserDto` (`create-user.dto.ts:43`), which `updateUser` sends
  on where there is no file; a `Link` is a URL, or null, and `Absent` the field left out.
  `createUser` puts `imageUrl` in its place. `ReadUser` and `SaveUser` are what the handlers
  of the auth service do to the columns that matter here: an entity is a user with its
  address and avatar, read at one time and saved at any later one, several times, with a
  new row where there is none (`auth.service.ts:297`, `:517`, `:598`). A user that
  `validateOAuthUser` inserts with an avatar of Google's (`:420`) is not in the module.

- In `EmailQueue` Bull is what the code asks of it. No producer passes options and no
  module registers any, so a job is tried once (`attempts`), a job whose worker died is
  started once more (`maxStalledCount` = 1) and put at the head of the list, and
  each of the processor's handlers takes one job at a time, of any name. `sendMail` may
  reject a mail that the server took. The templates are left out: the four handlers
  differ in nothing else.
- In `Activation` the save of the active account is one step and its row is one status and
  one code; how `save` loses changes is the matter of `AccountService`. `Break` is an
  error of MySQL or of the cache at any await, or the end of the process. Whoever brings a
  code has it from a mail, or it is one that nobody was given (`Guess`).
- In `Listings` a key is the place of its row in the order of creation, and a filter or a
  search is a choice of which rows are listed: what a row says changes by `Enter` and
  `Leave`. With a join and `skip`, TypeORM reads the keys of a page, then their rows; it
  counts in one more query, or concludes the count from a short page (external).
  `listRooms`, `listUsers` and `listServices` name no order; MySQL is taken to answer in
  that of the primary key, and rows with one `created_at` in the order of their keys.

The environment: `VnpaySigns` lets VNPay sign for an invoice any failure and one success,
after which it signs nothing more. Answers may be delivered any number of times, in any
order, or never (`ReceiveReturn` chooses any answer, also one that nobody signed).
`MaxInFlight` bounds the calls of `createBooking` in progress and `MaxCrashes` the
crashes of the booking process.

## 3. The runs

| run | instance | result |
|---|---|---|
| `returns` | two calls at once, two deliveries of any texts, one crash, fairness | `DoubleBookingHasCause`, `RevivalNeedsBothAnswers`, `StatusIsSigned`, `StatusesAgree`, `PaidStaysPaid`, `EveryCallAnswered`, `DeliveredPaymentCounts`, `TypeOK`, and `IInv`, the invariant of the proofs |
| `admin` | two calls with every mistake, one administrator, a clock | `NothingHeldWithoutUrl`, `ReferentialIntegrity`, `InvoiceMatchesLines` |
| `serial` | three calls one at a time, two deliveries, one crash | `SerialDoubleBookingIsRevival`, `ImplementsReservation` |
| `concurrent` | two calls at once | **violates** `NoDoubleBooking` |
| `quantities` | one call, two services | **violates** `QuantitiesAsRequested` |
| `accounts` | four calls of any account handler at once, two addresses | `AccountTypeOK`, `ChangesLostOnlyToOverlap`, `MailAnnouncesWrite`, and `AccountIInv`, the invariant of the proofs |
| `lost_password` | four calls, two at once, one address | **violates** `NewPasswordWorks` |
| `sessions` | a login, two requests with its token or without, a clock of half seconds past its expiry, one edit of the account | `SessionTypeOK`, `AdmittedWasEntitled`, `RevokedWasDenied`, and `SessionIInv`, the invariant of the proofs |
| `logout` | a login, a logout and a request after it | **violates** `RevokedIsRefused` |
| `images` | three calls that create, change or delete rooms, users or services, two names, with and without files, with and without an avatar in the body, one lost connection or one entity of the auth service | `ImageTypeOK`, `NamesUnique`, `ImageBelongs`, `AnswersTrue`, `AvatarKept`, and `ImageIInv`, the invariant of the proofs |
| `onboarding` | a registration with its mail, another job, three calls of `userActive` with that code or a made-up one, a crash of the processor, fairness of the queue | `OnboardingTypeOK`, `MailedAsBullSays`, `CodeRefusedOnlyIfUsed`, `NeverBlockedEarly`, `LimitHolds`, `WelcomeSettles`, and `OnboardingIInv`, the invariant of the proofs |
| `listings` | each of the six listings over any of six rows, two to a page, three rows that enter or leave | `ListingTypeOK`, `MissedExplained`, `RepeatsExplained`, and `ListingIInv`, the invariant of the proofs |

The bounds: the hazards need two bookings that overlap, and a third that does not
(three stays, one of both rooms, one that begins where another ends a day later);
two answers of one invoice in both orders, or one answer twice (two handlers); one
crash, since a handler lost in a crash never runs again. A second administrator
would add nothing: administrators share no state but the rows, and one already
interleaves with both calls. `Symmetry` is used in runs with invariants or with a
refinement whose mapping treats requests alike, never with fairness.

The theorems hold the safety properties of `returns` for any number of handlers. In
`admin` one quantity is three halves (`Parts` = 2).

In `sessions` tokens share nothing, so one login is enough; one
request logs out and another, or the same logout again, comes later or crosses it; two
ticks make a second, so every rounding occurs. `logout` needs no second password and no
edit of the account.

In `images` three calls suffice for a creation and two rivals on its row (an update
whose row is deleted under it, two renamings), or for three insertions under two names.

A service, which has no image, meets the same rivals; `MaxDisturbed` = 1 loses one
connection, after which that call does nothing more, or has the auth service hold one
entity, which it may save twice.

In `onboarding` the limit is 2 instead of 5 and three calls pass it by one: below the
limit, at it, and beyond it. `CodesInOrder` fixes the codes of two calls, since calls are
alike. `Handlers` = 1 makes the second job wait behind the first; the theorems hold for
any number. One crash restarts a job; a second one would fail it, which `Restart` allows
for any `MaxCrashes` in the theorems. The proofs lift all of these bounds.

In `listings` six rows make three pages of two; three changes suffice for a row that
leaves a page already read, one that enters before it, and one between the two queries.

Fairness (`FairSpec`) is weak fairness of each handler's next step: MySQL answers a
query and Node then runs the continuation. Nothing is assumed of clients, of VNPay,
of the delivery of answers or of administrators. That is why
`DeliveredPaymentCounts` begins when an answer has been verified, and it ends as well where
the process died or a contrary answer came. `QueueFairness` says
that Redis and the SMTP server answer, the one way or the other, and that a process that
died is started again; `MaxCrashes` bounds how often it dies. `WelcomeSettles` needs no
more: nobody has to call `userActive`.

What the violations show:

- `concurrent`: `createBooking` checks the rooms (`booking.service.ts:101`) and
  inserts later (`:154`) without a lock or a constraint; both calls count zero.
- In no run of its own: a verified text without a success cancels the booking (`:312`), the
  room is sold again, and a late success sets the booking back to `BOOKED` (`:280`) without
  a check. `DoubleBookingHasCause`, and `SerialDoubleBookingIsRevival` for calls one at a
  time, admit exactly this. `RevivalNeedsBothAnswers` says what it takes: a success that
  VNPay signed, and another verified text; one answer handled twice never does it.
- `quantities`: quantities are matched to services by the order of the rows (`:148`,
  `:182`).

`DoubleBookingHasCause` says that these two ways to a double booking are the only ones.

- `lost_password`: a `forgotPassword` (or `userActive`) reads the user, `resetPassword`
  reads and saves the new password, the first one saves its whole entity: `save` finds
  the password different from what it holds and writes the old one back
  (`auth.service.ts:499`, `:517`).
- `logout`: logout writes its entry into the cache of the auth service (`auth.service.ts:161`),
  the guard looks into that of the gateway (`jwt-auth.guard.ts:55`), and a token that was
  logged out passes. `RevokedIsRefused` is what 'Token has been revoked' and the answer
  'Logout successful' promise.

`ChangesLostOnlyToOverlap` says how far this goes: a change of a column of an account is
undone by a later change of that column, or by a call that read the row before the
change and saved after it (or the other way round), and by nothing else. The
smallest such run needs a registration, two requests for a reset and a reset; four
calls allow it with every handler in the place of the rival.

Seen while modelling, in no run of their own: a text without a success that is handled after
a success cancels a paid booking (`:311`), and the parameters of the payment page itself are
such a text (`vnpay.service.ts:109`, `:122`; all fields of `VnpayReturnDto` are optional); where
contrary answers cross, invoice and booking may disagree for good; a fraction in `quantities`
is in the total and not in its line (`create-booking.dto.ts:46`); routes marked with `@Roles`
and no guard are open to all (`admin-room.controller.ts:31`, `booking.controller.ts:42`); the
block of `userActive` lasts less than a second, not 15 minutes (`auth.service.ts:266`); a
late save of a user by the auth service puts an old avatar back (`:517`), which `AvatarKept`
allows; a repeated success rewrites `paid_date` and
queues another mail (`:279`, `:287`); a crash between the saves of a failed payment
leaves the invoice `CANCELED` and the room held (`:313`); an unpaid booking holds its
room for ever; `deleteRoom` lets a room with past bookings through and the foreign
key then rejects it with an error no message of `room.json` covers
(`room.service.ts:146`); VNPay's upper bound is never reached, because the column
overflows first; the message of `vnpay.service.ts:80` says 9,999,999,990 VND where the
condition allows 9,999,999,999; `updateUserInfo` stores the password of its dto without
hashing it (`user.service.ts:95`), which no login then matches; `validateOAuthUser` mails
a password before the insert that may fail (`auth.service.ts:428`); an account whose
welcome job was lost can neither be activated nor registered again (`:221`); an update
of a room without a file erases its image (`admin-room.controller.ts:117`), where
`updateUser` leaves the avatar alone; an update of a room that is deleted meanwhile is
answered as a success without data (`room.service.ts:115`), which `AnswersTrue` allows;
`room.json` says that images upload 'in background', but the controller awaits them;
a mail that the SMTP server refuses, or a job that Redis refuses, is never tried again,
and the client was told that the mail is on its way (`auth.service.ts:221`); calls of
`userActive` that overlap count once (`:260`, `:266`), which is why `LimitHolds` excludes
codes in `disturbed`; the filter `if (status)` of both booking listings drops the
number 0, `CANCELED` (`booking.service.ts:338`, `:413`), which a query string brings as a
text, because `ListBookingDto.status` has no `@Type`; a client that pages while rows
leave misses as many as have left, which no cursor prevents, and may take a page torn between
its queries for the last one (`MissedExplained` exempts it).

## 4. The proofs

`BookingSystemProofs` proves for every set of calls, rooms, services, prices and
instants, every bound and every unit of quantities, from the named assumptions on
the constants (keys, prices and instants are natural numbers, inputs have the type
of the DTO):

- `TypeCorrect`: `Spec => []TypeOK`.
- `ReferencesHold`: `Spec => []ReferentialIntegrity`.
- `Invariant`: `Spec => []IInv`, and from it `CheckIsSound`
  (`DoubleBookingHasCause`), `SignaturesDecide` (`StatusIsSigned`),
  `RevivalsAreSigned` (`RevivalNeedsBothAnswers`) and
  `RefusedCallsHoldNothing` (`NothingHeldWithoutUrl`).

The invariant. `DoubleBookingHasCause` is not inductive: nothing in it says why the
bookings a call saw do not block it. `CheckInv` does: from its check on, no booking
that `r` saw blocks the input of `r` unless it was revived. `SaveBooking` keeps it
because only a `CANCELED` booking becomes active again, and then it is in `revived`;
this needs that a booking under an answer is `BOOKED` or `CANCELED` (`CallInv`), and
that texts with the hash exist only for committed bookings (`AnswerInv`). `CallInv` also ties the
row to the input, which turns a clash of two rows into `Blocking` of an input and a
row. `StatusIsSigned` makes `RevivalNeedsBothAnswers` inductive.

`ReservationProofs` proves `SerialCallsClashByRevival`: if `Request` is finite and
`MaxInFlight <= 1`, then `Spec => []SerialDoubleBookingIsRevival`. `SerialInv` adds
to `IInv` that one call is in progress (`OneCall`), so that a call at its commit has seen
every booking (`CommitSeesAll`) and of two bookings one saw the other
(`OneSawTheOther`); `DoubleBookingHasCause` does the rest. The run `concurrent` shows
that the condition is needed.

It proves two results with no condition but an exception in the property: `Disputed`, that a
success and another verified text of one invoice have both been handled.

- `PaymentsStay`: `Spec => PaidStaysPaid`. What was received stays received, and a
  success with no other text leaves no status but `BOOKED` and `PENDING` or `PAID`
  (`StatusesReceived`, which follows from `IInv`).
- `RowsAgree`: `Spec => []StatusesAgree`, crashes included: a handler of a failed
  answer has canceled the invoice before it comes between its saves (`SavedStays`), and it
  leaves that place by the second save or by dying there (`BetweenSaves`).

And a third, of calls one at a time:

- `SerialCallsImplementReservation`: `Spec => ImplementsReservation` where `Request`
  is finite and `MaxInFlight <= 1`, for any number of crashes. A commit maps to `Reserve`
  (`CommitReserves`): the booking is of the rooms asked for, at least one (`LocalInv`, which
  rests on `OneRowPerId`: as many rows as ids means that every id has its row), and the
  check made no other call overlook it. A save maps to `Pay`, to `GiveUp`, to a stutter
  or, where contrary answers came, to `Settle` (`SavePaysOrGivesUp`), and the receipt of the
  second one to `Dispute` (`ReceiveDisputes`); every other step leaves bookings and invoices alone
  (`WritersOnly`).

`InvoiceProofs` proves two results about the lines of a booking, for every set of inputs,
rows and prices, whole or fractional quantities, and any number of crashes and edits of
prices.

- `InvoicesMatch`: `Spec => []InvoiceMatchesLines`: exactly where every quantity is whole, and
  otherwise up to half of the prices of the services and half a unit (`RoundedNearest`,
  `LinesNearAsked`). The code multiplies each room by the
  nights and adds up; the property adds up the prices and multiplies once. `SumDefined` shows
  that a sum over a finite set of rows is what its recursion says, and `Distributes` that the
  factor moves out of it. Both are inductions over data, which no induction theorem of the
  library can be used for here; they are done by the least counterexample instead
  (`LeastElement`, from `NatLessThanWellFounded`): a smallest set for which the fact fails
  has an element, and the set without it (`Smaller`) contradicts that it is the smallest. The
  inductive invariant `InvoiceInv` is `IInv`, `LocalInv`, that a call has finitely many rooms
  in hand (`RowsRead`), and the property (`LinesAdd`). `NightsBegun` is the rounding up.
- `AscendingServicesGetTheirQuantities`: where every input lists its services by ascending
  id, `Spec => []QuantitiesAsRequested`, each quantity rounded as its column does it. A
  call has exactly one row for each id (`ServicesRead`), so that the rows up to the k-th id are k (`PlaceOfService`, by a
  bijection). The run `quantities` shows that another order mixes the quantities up: the
  theorem says that nothing else does.

`AccountServiceProofs` proves for every set of calls and addresses
`AccountTypeCorrect`, `LossNeedsOverlap` (`ChangesLostOnlyToOverlap`) and
`MailFollowsWrite`, from `AccountInvariant` (`Spec => []AccountIInv`). An entity in
memory agrees with every change that its call saw and is not there to change, or that
change has been overlapped (`EntityInv`); a column that `save` left out because it was
equal is equal still, or a rival has written (`CompareInv`). `QuietCall` and `WritingCall`
carry this over a step that writes no row and one that writes one; each action is an
instance of one of them.

It also proves what the run `lost_password` refutes, where `Call` is finite and
`MaxInFlight <= 1`, for any number of calls one after the other. Updates by administrators
are one statement and are not held back: they still come between the queries of a `save`.

- `OneCallKeepsNewPassword`: `Spec => []NewPasswordWorks`.
- `OneCallDeletesForGood`: no `save` inserts an account again that a call has deleted.

`AloneInv` adds to `AccountIInv` that a password in the table is one that was written
(`SecretInv`), and that a `save` on its way finds its row, brings a password only if it
resets one, and else has the one that the last reset left (`LoneInv`).

`SessionProofs` proves for every set of logins and requests, every lifetime, length of
a second and clock `SessionTypeCorrect`, `GuardsAdmitEntitled` (`AdmittedWasEntitled`),
`LogoutsLeaveEntries` (`RevokedWasDenied`) and `GuardSeesNoLogout`, from
`SessionInvariant` (`Spec => []SessionIInv`). A token that is signed names the row that its
login read, and a login that goes on has that row's role and status (`LoginInv`); that holds
whatever becomes of the account. A logout sets its entry or meets an expired token, and
what has expired stays so, since whole seconds never run backwards (`SecondsGrow`).
`GuardSeesNoLogout` is what the run `logout` comes to for every number of requests: the
gateway's list is empty, so that no lookup of a guard finds anything.

`ImageUploadProofs` proves for every set of calls and names, from `NullAssumption`
and `LinkAssumption` (an image in a body is not one that a call uploads, and `Absent` is neither),
`ImageTypeCorrect`, `NamesStayUnique`, `ImagesBelong`, `ClientsAreToldTheTruth`
(`AnswersTrue`) and `AvatarsStay` (`AvatarKept`), from `ImageInvariant`
(`Spec => []ImageIInv`). `CallOk` says what a call has behind it at each await: its
`imageUrl`, if any, is its own uploaded image; it has not written yet; the row it looked
for is there or in `removed`, which is why a delete that meets no row may answer
success. `EntityOk` says that an entity of the auth service shows an image that belongs to
its user, so that a late save mixes up nothing. `NamesUnique` needs nothing but the index:
the look at the name that
`createRoom` and `create` begin with only improves the message.

`OnboardingProofs` proves for every set of registrations, codes, jobs and calls, every
limit, number of handlers and crashes `OnboardingTypeCorrect`, `QueueTellsTheTruth`
(`MailedAsBullSays`), `MailedCodesWork` (`CodeRefusedOnlyIfUsed`), `BlockedForReason`
(`NeverBlockedEarly`) and `LimiterIsExact` (`LimitHolds`), from `OnboardingInvariant`
(`Spec => []OnboardingIInv`). The queue: what was sent before a job was taken again is
counted in `stalls` (`CopiesOk`), and a job is listed once (`ListedOnce`). The limiter: a
counter never exceeds the calls that wrote it (`RoundOk`), since each writes once what it
read plus one; while nobody overlaps it equals them (`Undisturbed`). The codes: a code is
stored, or spent, from before its job exists (`WelcomeOk`), so a miss means that it is
spent (`CodeOk`). Assumed: mailed codes are not guessed, `Attempt` is finite.
`RepeatsNeedCrashes` sharpens the first result: a mail goes out once, and once more for
each crash so far at most, since Bull finds a job without its worker only for a crash
(`DeathsInv`). While the processor lives, nobody gets a mail twice.

`ListingsProofs` proves for every finite set of rows, page size and number of changes
`ListingTypeCorrect`, `NothingMissedUnexplained` (`MissedExplained`) and
`NothingRepeatedUnexplained` (`RepeatsExplained`), from `ListingInvariant`
(`Spec => []ListingIInv`). Of the rows before the edge of the last page read, those not
shown are no more than rows that left (`Passed`), and of those after it, those shown are
no more than rows that entered (`Again`): one row in or out moves one row over an edge. The
exception of `MissedExplained`, a page torn between its two queries while rows leave, is in
the theorem too.
`QuietListingIsExact` is what this comes to while nothing enters or leaves: a client that
pages to `last_page` has seen every row exactly once (`ShownInv` is the part that the bounds
do not say: nothing else is shown).

Every safety property of a passing run is thus proved. Of the runs that expect a violation it
is proved what calls one after the other come to (`concurrent`: only a revival sells a room
twice; `lost_password`: none), that ascending ids do not meet `quantities`, and for `logout`
that every guard is as blind as the one of the run.

Only model-checked: liveness (`EveryCallAnswered`, `DeliveredPaymentCounts`,
`WelcomeSettles`), because the prover does not treat fairness and `ENABLED`.

Where a theorem has a hypothesis (one call at a time, ascending ids), TLC checked its
invariant before the proof, on the instance of the run it belongs to with that hypothesis;
no run of the project repeats that, except `serial`.

## 5. Not modelled

- Handlers that read one row by its key and change nothing (`getInvoiceById`,
  `getBookingById`, `getRoomById` and the like): they have no step between which anything
  could happen that matters.
- Routes of the gateway that forward one message, the validation pipes and the filters of
  exceptions: without state; what the DTOs admit is in the inputs of the models.
- How the VNPay URL is put together and its hash computed: `Verified` says which texts pass.
- That a mail is sent once, or at all: the code loses it when Redis refuses the job and
  queues one per delivery. The mail of `validateOAuthUser`, which goes out before its row. A
  booking whose amount `createPaymentUrl` refuses, which holds its room: `NothingHeldWithoutUrl`
  says that this happens for the amount alone. How long an entry of the deny list lasts,
  since nothing reads it.
- Reviews, promotions, shifts and invoice details, which no code writes.
- i18n texts, logging, configuration, mail templates, seeds and generated files; the
  libraries (TypeORM, Bull, the cache), which are modelled as the code uses them.
- An end to unpaid bookings: no code releases one, so no liveness property about it holds.

No run asks for retries of mails, because no producer configures them, and none for
two processes of one service, because every handler already interleaves with every other
at each await.
