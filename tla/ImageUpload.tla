---------------------------- MODULE ImageUpload ----------------------------
(***************************************************************************)
(* The administration of rooms, users and services at the gateway: one     *)
(* HTTP call sends its image to the upload service, and then the row, with *)
(* the URL, to the service of its table.  Each of these may fail alone,    *)
(* and the connection to a service may break while it works on.  The auth  *)
(* service writes to the same users, with whole rows that it read earlier. *)
(***************************************************************************)
EXTENDS Naturals, FiniteSets

CONSTANTS
  Call,   \* HTTP calls; one names the row that it inserts and the image that it uploads
  Name,   \* room numbers, addresses and names of services
  Link,   \* avatars that a body may give: images by their URL, and Null
  Null,   \* no image, and a name the dto leaves out
  Absent, \* an avatar the dto leaves out
  MaxDisturbed  \* bound on the connections that break and the entities that the auth
                \* service holds, together

ASSUME NullAssumption   == Null \notin Call /\ Null \notin Name
ASSUME LinkAssumption   == Link \cap Call = {} /\ Absent \notin Link
ASSUME DisturbedAssumption == MaxDisturbed \in Nat

VARIABLES
  pc,        \* where each call is: in the upload service or in a handler
  input,     \* what it asks for
  imageUrl,  \* the gateway's imageUrl
  answer,    \* what the client was told
  catalog,   \* the rows of the tables rooms, users and services
  entities,  \* the rows of users that handlers of the auth service have read
  uploaded,  \* the images Cloudinary holds
  broken,    \* history: calls whose connection to a service broke
  wrote,     \* history: calls that changed a row
  removed    \* history: rows deleted

vars == <<pc, input, imageUrl, answer, catalog, entities, uploaded, broken, wrote, removed>>

Table == {"room", "user", "service"}
\* avatar is the one of UpdateUserDto; createUser puts imageUrl in its place.
Input ==
  {in \in [op : {"create", "update", "delete"}, table : Table, name : Name \cup {Null},
           file : BOOLEAN, avatar : Link \cup {Absent}, target : Call] :
     /\ in.op = "create" => in.name # Null
     /\ in.op = "delete" => in.name = Null /\ ~in.file
     /\ in.table = "service" => ~in.file
     /\ in.avatar # Absent => in.op = "update" /\ in.table = "user"}
NoInput == [op |-> "none"]
Image == Call \cup Link \cup {Null}
Row   == [table : Table, name : Name, image : Image]
NoRow == [table |-> "none"]
Entity == [user : Call, row : Row]

ImageTypeOK ==
  /\ pc \in [Call -> {"idle", "upload", "find", "check", "write", "reread", "done"}]
  /\ input \in [Call -> Input \cup {NoInput}]
  /\ imageUrl \in [Call -> Call \cup {Null}]
  /\ answer \in [Call -> {"none", "success", "failure"}]
  /\ catalog \in [Call -> Row \cup {NoRow}]
  /\ entities \subseteq Entity
  /\ uploaded \subseteq Call
  /\ broken \subseteq Call
  /\ wrote \subseteq Call
  /\ removed \subseteq Call

Init ==
  /\ pc = [c \in Call |-> "idle"]
  /\ input = [c \in Call |-> NoInput]
  /\ imageUrl = [c \in Call |-> Null]
  /\ answer = [c \in Call |-> "none"]
  /\ catalog = [c \in Call |-> NoRow]
  /\ entities = {}
  /\ uploaded = {} /\ broken = {} /\ wrote = {} /\ removed = {}

Goto(c, label) == pc' = [pc EXCEPT ![c] = label]

\* A broken connection was answered when it broke.
Reply(c, a) ==
  /\ Goto(c, "done")
  /\ answer' = IF c \in broken THEN answer ELSE [answer EXCEPT ![c] = a]

\* Every error is caught by the gateway and answered as a failure.
Fail(c) ==
  /\ Reply(c, "failure")
  /\ UNCHANGED <<input, imageUrl, catalog, entities, uploaded, broken, wrote, removed>>

-----------------------------------------------------------------------------
\* The gateway and the upload service.

\* A mutant: no handler looks before it writes.
FirstStepNoLook(in) == "write"
\* updateUserInfo begins with its UPDATE; the other handlers look first.
FirstStep(in) == IF in.op = "update" /\ in.table = "user" THEN "write" ELSE "find"

\* A call names a row of its own table, or one that nobody has inserted so far.
NamesRow(in) ==
  input[in.target] = NoInput
    \/ (input[in.target].op = "create" /\ input[in.target].table = in.table)

Receive(c, in) ==
  /\ pc[c] = "idle"
  /\ NamesRow(in)
  /\ in.op = "create" => in.target = c
  /\ input' = [input EXCEPT ![c] = in]
  /\ Goto(c, IF in.file THEN "upload" ELSE FirstStep(in))
  /\ UNCHANGED <<imageUrl, answer, catalog, entities, uploaded, broken, wrote, removed>>

\* A mutant: the controller keeps imageUrl in a field that its calls share.
SetImageUrlShared(c) == imageUrl' = [d \in Call |-> c]
SetImageUrl(c)       == imageUrl' = [imageUrl EXCEPT ![c] = c]

\* Cloudinary stores the image, and the gateway, if it still waits, goes on.
Upload(c) ==
  /\ pc[c] = "upload"
  /\ uploaded' = uploaded \cup {c}
  /\ IF c \in broken THEN Goto(c, "done") /\ UNCHANGED imageUrl
                     ELSE Goto(c, FirstStep(input[c])) /\ SetImageUrl(c)
  /\ UNCHANGED <<input, answer, catalog, entities, broken, wrote, removed>>

\* The upload service swallows the error and answers nothing, which is an error of
\* the gateway.
UploadFails(c) == pc[c] = "upload" /\ Fail(c)

-----------------------------------------------------------------------------
\* The handlers of the room, the user and the service service.

Exists(c) == catalog[input[c].target] # NoRow /\ catalog[input[c].target].table = input[c].table

\* Some row, besides those in rows, has the name that the call gives.
TakenBesides(c, rows) ==
  \E r \in Call \ rows :
    catalog[r] # NoRow /\ catalog[r].table = input[c].table /\ catalog[r].name = input[c].name

\* A mutant: nobody looks whether the row is there.
PassesAny(c) == input[c].op = "create" => ~TakenBesides(c, {})
Passes(c) == IF input[c].op = "create" THEN ~TakenBesides(c, {}) ELSE Exists(c)

\* updateService looks for another service of the new name, deleteService for a booking.
Checks(in) ==
  in.table = "service" /\ (in.op = "delete" \/ (in.op = "update" /\ in.name # Null))

\* The query before the write, and what the handler decides by it.
Find(c) ==
  /\ pc[c] = "find" /\ Passes(c)
  /\ Goto(c, IF Checks(input[c]) THEN "check" ELSE "write")
  /\ UNCHANGED <<input, imageUrl, answer, catalog, entities, uploaded, broken, wrote, removed>>

\* The second query of the service service: Not(id) leaves out the row itself.
Check(c) ==
  /\ pc[c] = "check"
  /\ input[c].op = "update" => ~TakenBesides(c, {input[c].target})
  /\ Goto(c, "write")
  /\ UNCHANGED <<input, imageUrl, answer, catalog, entities, uploaded, broken, wrote, removed>>

\* Not found, a conflict, a room or service that is booked, or an error of the database.
FindFails(c) == pc[c] \in {"find", "check"} /\ Fail(c)

\* A mutant: the table has no unique index.
DuplicateNever(c, r) == FALSE
\* The unique indices of room_number, of email and of services.name.
Duplicate(c, r) == TakenBesides(c, {r})

\* Mutants: the file in the place of its URL; updateUser sends imageUrl always.
NewImageIsFile(c, old) == input[c].file
NewImageAlways(c, old) == imageUrl[c]
\* updateRoom sends imageUrl always; updateUser puts it in the place of the dto's
\* avatar only when there is one; services have none.
NewImage(c, old) ==
  CASE input[c].table = "room" \/ imageUrl[c] # Null -> imageUrl[c]
    [] input[c].table # "room" /\ imageUrl[c] = Null ->
         IF input[c].avatar # Absent THEN input[c].avatar ELSE old

\* The save of createRoom, of create and of createService.
Insert(c) ==
  /\ pc[c] = "write" /\ input[c].op = "create" /\ ~Duplicate(c, c)
  /\ catalog' = [catalog EXCEPT ![c] =
       [table |-> input[c].table, name |-> input[c].name, image |-> imageUrl[c]]]
  /\ wrote' = wrote \cup {c}
  /\ Reply(c, "success")
  /\ UNCHANGED <<input, imageUrl, entities, uploaded, broken, removed>>

\* The update of updateRoomInfo, updateUserInfo and updateService.
Update(c) ==
  LET r == input[c].target
  IN  /\ pc[c] = "write" /\ input[c].op = "update" /\ Exists(c) /\ ~Duplicate(c, r)
      /\ catalog' = [catalog EXCEPT
           ![r].name  = IF input[c].name = Null THEN @ ELSE input[c].name,
           ![r].image = NewImage(c, @)]
      /\ wrote' = wrote \cup {c}
      /\ Goto(c, "reread")
      /\ UNCHANGED <<input, imageUrl, answer, entities, uploaded, broken, removed>>

\* The row was deleted after the look at it: the UPDATE meets no row, and only
\* updateUserInfo takes notice, as one of WriteFails.
UpdateNothing(c) ==
  /\ pc[c] = "write" /\ input[c].op = "update" /\ input[c].table # "user" /\ ~Exists(c)
  /\ Goto(c, "reread")
  /\ UNCHANGED <<input, imageUrl, answer, catalog, entities, uploaded, broken, wrote, removed>>

\* The delete of deleteRoom, deleteUser and deleteService; a row that is gone is deleted alike.
Delete(c) ==
  LET r == input[c].target
  IN  /\ pc[c] = "write" /\ input[c].op = "delete"
      /\ IF Exists(c)
         THEN /\ catalog' = [catalog EXCEPT ![r] = NoRow]
              /\ wrote' = wrote \cup {c}
              /\ removed' = removed \cup {r}
         ELSE UNCHANGED <<catalog, wrote, removed>>
      /\ Reply(c, "success")
      /\ UNCHANGED <<input, imageUrl, entities, uploaded, broken>>

\* A unique index, a foreign key, no row of a user, or an error of the database.
WriteFails(c) == pc[c] = "write" /\ Fail(c)

\* The query after an update.
Reread(c) ==
  /\ pc[c] = "reread" /\ Reply(c, "success")
  /\ UNCHANGED <<input, imageUrl, catalog, entities, uploaded, broken, wrote, removed>>

RereadFails(c) == pc[c] = "reread" /\ Fail(c)

\* The connection to a service breaks: the gateway answers, and the service dies
\* or does what it was asked all the same.
Break(c) ==
  /\ pc[c] \notin {"idle", "done"} /\ c \notin broken
  /\ Cardinality(entities) + Cardinality(broken) < MaxDisturbed
  /\ broken' = broken \cup {c}
  /\ answer' = [answer EXCEPT ![c] = "failure"]
  /\ UNCHANGED pc \/ Goto(c, "done")
  /\ UNCHANGED <<input, imageUrl, catalog, entities, uploaded, wrote, removed>>

-----------------------------------------------------------------------------
\* The auth service.

\* A handler reads a user that it will change and save.
ReadUser(r) ==
  /\ catalog[r] # NoRow /\ catalog[r].table = "user"
  /\ Cardinality(entities) + Cardinality(broken) < MaxDisturbed
  /\ entities' = entities \cup {[user |-> r, row |-> catalog[r]]}
  /\ UNCHANGED <<pc, input, imageUrl, answer, catalog, uploaded, broken, wrote, removed>>

\* Its save writes every column that differs by now, so that the row has the address
\* and the avatar it had, and inserts the row anew when it is gone.  Another
\* handler may hold the same row.
SaveUser(e) ==
  /\ e \in entities
  /\ \A s \in Call \ {e.user} :
       catalog[s] # NoRow /\ catalog[s].table = "user" => catalog[s].name # e.row.name
  /\ catalog' = [catalog EXCEPT ![e.user] = e.row]
  /\ entities' \in {entities, entities \ {e}}
  /\ UNCHANGED <<pc, input, imageUrl, answer, uploaded, broken, wrote, removed>>

\* The handler ends with an answer before its save, or the save fails.
DropUser(e) ==
  /\ e \in entities
  /\ entities' = entities \ {e}
  /\ UNCHANGED <<pc, input, imageUrl, answer, catalog, uploaded, broken, wrote, removed>>

Gateway(c) == Upload(c) \/ UploadFails(c) \/ Break(c)
Handler(c) ==
  \/ Find(c) \/ Check(c) \/ FindFails(c)
  \/ Insert(c) \/ Update(c) \/ UpdateNothing(c) \/ Delete(c) \/ WriteFails(c)
  \/ Reread(c) \/ RereadFails(c)

Auth == (\E r \in Call : ReadUser(r)) \/ (\E e \in entities : SaveUser(e) \/ DropUser(e))

Next ==
  \/ \E c \in Call : (\E in \in Input : Receive(c, in)) \/ Gateway(c) \/ Handler(c)
  \/ Auth

Spec == Init /\ [][Next]_vars

-----------------------------------------------------------------------------
\* No two rooms have one number, no two users one address and no two services one
\* name, though calls that insert or rename at once have all found the name free.
NamesUnique ==
  \A r, s \in Call :
    r # s /\ catalog[r] # NoRow /\ catalog[s] # NoRow /\ catalog[r].table = catalog[s].table
      => catalog[r].name # catalog[s].name

\* An image that Cloudinary holds and that a call for the row r of a table sent.
Sent(i, r, table) ==
  i \in uploaded /\ input[i].file /\ input[i].table = table /\ input[i].target = r

\* An image that the body of an update of the user r named.
Named(i, r, table) ==
  i \in Link /\ table = "user" /\ \E c \in wrote : input[c].avatar = i /\ input[c].target = r

Belongs(r, row) ==
  row.image # Null => Sent(row.image, r, row.table) \/ Named(row.image, r, row.table)

\* A row shows an image that Cloudinary holds and that a call for this very row
\* sent, or, a user, one that the body of a call for it named: the calls of several
\* administrators, and the auth service's saves, never mix up their uploads.
ImageBelongs == \A r \in Call : catalog[r] # NoRow => Belongs(r, catalog[r])

\* What the client is told: a success has written the row with its image uploaded,
\* or the row was deleted under it; a call to create that failed has left no row,
\* unless its connection broke.
AnswersTrue ==
  \A c \in Call :
    /\ answer[c] = "success" =>
         /\ c \in wrote \/ (input[c].op # "create" /\ input[c].target \in removed)
         /\ input[c].file => c \in uploaded
    /\ answer[c] = "failure" /\ c \notin broken /\ input[c].op = "create" => c \notin wrote

\* The call c, of which the row was just written, asked for this image: its file, or
\* without one the avatar of its body.
AskedFor(c, image) == IF input[c].file THEN image = c ELSE image = input[c].avatar

\* A user keeps the avatar until a call replaces it by its file or, without a file,
\* by the avatar in its body, or the auth service puts back one that it had read.
AvatarKept ==
  [][\A r \in Call : catalog[r] # NoRow /\ catalog'[r] # NoRow /\ catalog[r].table = "user"
       => \/ catalog'[r].image = catalog[r].image
          \/ \E c \in wrote' \ wrote : input[c].target = r /\ AskedFor(c, catalog'[r].image)
          \/ [user |-> r, row |-> catalog'[r]] \in entities]_vars

-----------------------------------------------------------------------------
\* The inductive invariant.

\* The row that a call is for is there as it found it, or was deleted since.
TargetMet(c) == Exists(c) \/ input[c].target \in removed

CallOk(c) ==
  /\ pc[c] = "idle" => c \notin uploaded /\ c \notin broken /\ answer[c] = "none"
  /\ pc[c] # "idle" => /\ input[c] # NoInput
                       /\ input[c].op = "create" => input[c].target = c /\ input[c].name # Null
  /\ pc[c] \in {"idle", "upload", "find", "check", "write"} => c \notin wrote
  /\ pc[c] = "reread" => c \in wrote \/ input[c].target \in removed
  /\ pc[c] = "reread" => input[c].op # "create"
  /\ pc[c] # "done" /\ c \notin broken => answer[c] = "none"
  /\ imageUrl[c] # Null => imageUrl[c] = c /\ c \in uploaded /\ input[c].file
  /\ pc[c] = "upload" => input[c].file
  /\ pc[c] \in {"find", "check", "write", "reread"} /\ input[c].file
       => c \in uploaded /\ imageUrl[c] = c
  /\ pc[c] = "check" => input[c].op # "create"
  /\ pc[c] = "check" \/ (pc[c] = "write" /\ input[c].op = "delete")
       \/ (pc[c] = "write" /\ input[c].op = "update" /\ input[c].table # "user") => TargetMet(c)

RowOk(r) == catalog[r] # NoRow => r \in wrote /\ catalog[r].table = input[r].table

EntityOk(e) ==
  /\ e.user \in wrote
  /\ e.row.table = "user" /\ e.row.table = input[e.user].table
  /\ Belongs(e.user, e.row)

\* What a call has in hand is its own image, what it found is there or deleted, each
\* row was inserted by the call that names it, and an entity is a row that was.
ImageIInv ==
  /\ ImageTypeOK /\ NamesUnique /\ ImageBelongs /\ AnswersTrue
  /\ \A c \in Call : CallOk(c) /\ RowOk(c)
  /\ \A e \in entities : EntityOk(e)
=============================================================================
