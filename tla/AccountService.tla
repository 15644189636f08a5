--------------------------- MODULE AccountService --------------------------
(***************************************************************************)
(* The handlers of AuthService and UserService that write the table users. *)
(* Each reads a whole row, changes the entity, awaits and saves it, so two *)
(* handlers of one account may each save what the other has not seen.      *)
(*                                                                         *)
(* The secret that a call brings or draws (uuid of a token, password) and  *)
(* the key of the row that it inserts are named by the call.               *)
(***************************************************************************)
EXTENDS Integers, FiniteSets

CONSTANTS
  Call,        \* the calls of a behaviour, one operation each
  Email,       \* addresses
  NoToken,     \* the NULL of a token column
  MaxInFlight  \* how many calls may be in progress at once

ASSUME NoTokenAssumption     == NoToken \notin Call
ASSUME MaxInFlightAssumption == MaxInFlight \in Nat

VARIABLES
  users,    \* the table users, by primary key
  expired,  \* the reset tokens whose password_reset_expires has passed
  mails,    \* the jobs on the queue `emails`
  pc,       \* where each call is
  op,       \* its operation
  target,   \* the key of the row that it is about
  token,    \* the token that it was called with
  entity,   \* the user entity in its memory
  changed,  \* the columns that save() found to differ from the stored row
  wrote,    \* history: the calls that have written their row
  seen      \* history: those that had, when it read the row

accountVars == <<users, expired, mails, pc, op, target, token, entity, changed, wrote, seen>>
callVars    == <<op, target, token, entity, seen>>

Op       == {"register", "create", "google", "activate", "forgot", "reset", "update", "delete"}
Inserts  == {"register", "create", "google"}
Working  == {"insert", "select", "write", "reinsert", "enqueue", "delete"}
Finished == {"done", "rejected", "failed"}

Column   == {"email", "password", "status", "code", "reset"}
Status   == {"INACTIVE", "ACTIVE"}
Password == [secret : Call, hashed : BOOLEAN]
User     == [email : Email, password : Password, status : Status,
             code : Call \cup {NoToken},     \* verification_token
             reset : Call \cup {NoToken}]    \* password_reset_token and _expires
NoUser   == [email |-> "none"]

Mail == [kind : {"welcome", "password", "reset"}, call : Call, email : Email]

AccountTypeOK ==
  /\ users \in [Call -> User \cup {NoUser}]
  /\ expired \subseteq Call
  /\ mails \subseteq Mail
  /\ pc \in [Call -> {"idle"} \cup Working \cup Finished]
  /\ op \in [Call -> Op \cup {"none"}]
  /\ target \in [Call -> Call]
  /\ token \in [Call -> Call \cup {NoToken}]
  /\ entity \in [Call -> User \cup {NoUser}]
  /\ changed \in [Call -> SUBSET Column]
  /\ wrote \subseteq Call
  /\ seen \in [Call -> SUBSET Call]

AccountInit ==
  /\ users = [u \in Call |-> NoUser]
  /\ expired = {}
  /\ mails = {}
  /\ pc = [c \in Call |-> "idle"]
  /\ op = [c \in Call |-> "none"]
  /\ target = [c \in Call |-> c]
  /\ token = [c \in Call |-> NoToken]
  /\ entity = [c \in Call |-> NoUser]
  /\ changed = [c \in Call |-> {}]
  /\ wrote = {}
  /\ seen = [c \in Call |-> {}]

Exists(u)        == users[u] # NoUser
TakenBesides(u, e) == \E v \in Call \ {u} : Exists(v) /\ users[v].email = e
WithEmail(e)     == {u \in Call : Exists(u) /\ users[u].email = e}
InFlight         == {c \in Call : pc[c] \in Working}
Goto(c, label)   == pc' = [pc EXCEPT ![c] = label]

\* The first query of a call: what it is about, and where it goes from there.
Begin(c, o, u, t, row, label) ==
  /\ pc[c] = "idle" /\ Cardinality(InFlight) < MaxInFlight
  /\ op' = [op EXCEPT ![c] = o]
  /\ target' = [target EXCEPT ![c] = u]
  /\ token' = [token EXCEPT ![c] = t]
  /\ entity' = [entity EXCEPT ![c] = row]
  /\ seen' = [seen EXCEPT ![c] = wrote]
  /\ Goto(c, label)
  /\ UNCHANGED <<users, expired, mails, changed, wrote>>

-----------------------------------------------------------------------------
\* Insertion: userRegister, UserService.create and validateOAuthUser look the
\* address up, hash a password, and insert.

\* A mutant: a status that the column does not have.
NewUserPending(c, o, e, s) ==
  [email    |-> e,
   password |-> [secret |-> c, hashed |-> TRUE],
   status   |-> CASE o = "register" -> "PENDING" [] o = "create" -> s [] OTHER -> "ACTIVE",
   code     |-> IF o = "register" THEN c ELSE NoToken,
   reset    |-> NoToken]

\* Who registers is inactive until the code comes back, who signs in by Google is
\* active, and an administrator says which.
NewUser(c, o, e, s) ==
  [email    |-> e,
   password |-> [secret |-> c, hashed |-> TRUE],
   status   |-> CASE o = "register" -> "INACTIVE" [] o = "create" -> s [] OTHER -> "ACTIVE",
   code     |-> IF o = "register" THEN c ELSE NoToken,
   reset    |-> NoToken]

\* A mutant: the welcome mail is queued before the row is saved.
FindAddressMailFirst(c, o, e, s) ==
  Begin(c, o, c, NoToken, NewUser(c, o, e, s),
        IF WithEmail(e) # {} THEN (IF o = "google" THEN "done" ELSE "rejected")
        ELSE IF o \in {"google", "register"} THEN "enqueue" ELSE "insert")

\* An address in use is a conflict, but for Google, which then signs that user
\* in.  validateOAuthUser queues the mail before it inserts, userRegister after.
FindAddress(c, o, e, s) ==
  Begin(c, o, c, NoToken, NewUser(c, o, e, s),
        IF WithEmail(e) # {} THEN (IF o = "google" THEN "done" ELSE "rejected")
        ELSE IF o = "google" THEN "enqueue" ELSE "insert")

\* The unique key on the address decides, whatever the lookup said.
Insert(c) ==
  /\ pc[c] = "insert"
  /\ IF TakenBesides(c, entity[c].email)
     THEN Goto(c, "failed") /\ UNCHANGED <<users, wrote>>
     ELSE /\ users' = [users EXCEPT ![c] = entity[c]]
          /\ wrote' = wrote \cup {c}
          /\ Goto(c, IF op[c] = "register" THEN "enqueue" ELSE "done")
  /\ UNCHANGED <<callVars, expired, mails, changed>>

\* emailQueue.add; when Redis refuses the job the error is only logged.
MailKind == [register |-> "welcome", google |-> "password", forgot |-> "reset"]

Enqueue(c) ==
  /\ pc[c] = "enqueue"
  /\ mails' \in {mails, mails \cup {[kind |-> MailKind[op[c]], call |-> c, email |-> entity[c].email]}}
  /\ Goto(c, IF c \in wrote THEN "done" ELSE "insert")
  /\ UNCHANGED <<users, expired, callVars, changed, wrote>>

-----------------------------------------------------------------------------
\* The handlers that change a row: the lookup, the entity as they change it.

Mailed(t, kind) == \E m \in mails : m.call = t /\ m.kind = kind

\* userActive, with a code from a welcome mail.
FindCode(c, t) ==
  /\ Mailed(t, "welcome")
  /\ \/ \E u \in Call :
          /\ Exists(u) /\ users[u].code = t
          /\ Begin(c, "activate", u, t, [users[u] EXCEPT !.status = "ACTIVE", !.code = NoToken],
                   IF users[u].status = "ACTIVE" THEN "done" ELSE "select")
     \/ /\ \A u \in Call : Exists(u) => users[u].code # t
        /\ Begin(c, "activate", c, t, NoUser, "rejected")

\* forgotPassword.
FindForgetful(c, e) ==
  \/ \E u \in WithEmail(e) :
       Begin(c, "forgot", u, NoToken, [users[u] EXCEPT !.reset = c], "select")
  \/ /\ WithEmail(e) = {}
     /\ Begin(c, "forgot", c, NoToken, NoUser, "rejected")

\* A mutant: a reset drops the code of a welcome mail, too.
FindResetTokenWithCode(c, t) ==
  /\ Mailed(t, "reset")
  /\ \E u \in Call :
       /\ Exists(u) /\ users[u].reset = t /\ t \notin expired
       /\ Begin(c, "reset", u, t,
                [users[u] EXCEPT !.password = [secret |-> c, hashed |-> TRUE],
                                 !.reset = NoToken, !.code = NoToken],
                "select")

\* resetPassword (verifyResetToken is the same lookup, and changes nothing).
FindResetToken(c, t) ==
  /\ Mailed(t, "reset")
  /\ \/ \E u \in Call :
          /\ Exists(u) /\ users[u].reset = t /\ t \notin expired
          /\ Begin(c, "reset", u, t,
                   [users[u] EXCEPT !.password = [secret |-> c, hashed |-> TRUE], !.reset = NoToken],
                   "select")
     \/ /\ \A u \in Call : Exists(u) => users[u].reset # t \/ t \in expired
        /\ Begin(c, "reset", c, t, NoUser, "rejected")

\* save(), first half: TypeORM reads the row again and compares it with the
\* entity; when there is no such row, it will insert the entity with its key.
SelectForSave(c) ==
  LET u    == target[c]
      diff == {col \in Column : entity[c][col] # users[u][col]}
  IN  /\ pc[c] = "select"
      /\ IF Exists(u)
         THEN changed' = [changed EXCEPT ![c] = diff] /\ Goto(c, "write")
         ELSE Goto(c, "reinsert") /\ UNCHANGED changed
      /\ UNCHANGED <<users, expired, mails, callVars, wrote>>

AfterSave(c) == IF op[c] = "forgot" THEN "enqueue" ELSE "done"

\* A mutant of the second half: the password column is not written.
UpdateChangedNoPassword(c) ==
  LET u == target[c]
  IN  /\ pc[c] = "write"
      /\ users' = IF Exists(u)
                  THEN [users EXCEPT ![u] = [col \in Column |->
                          IF col \in changed[c] \ {"password"} THEN entity[c][col] ELSE @[col]]]
                  ELSE users
      /\ wrote' = wrote \cup {c}
      /\ Goto(c, AfterSave(c))
      /\ UNCHANGED <<callVars, expired, mails, changed>>

\* save(), second half: UPDATE of the columns that differed, of no row if it was
\* deleted meanwhile.  Putting an old address back may meet the unique key.
UpdateChanged(c) ==
  LET u == target[c]
  IN  /\ pc[c] = "write"
      /\ IF Exists(u) /\ "email" \in changed[c] /\ TakenBesides(u, entity[c].email)
         THEN Goto(c, "failed") /\ UNCHANGED <<users, wrote>>
         ELSE /\ users' = IF Exists(u)
                          THEN [users EXCEPT ![u] = [col \in Column |->
                                  IF col \in changed[c] THEN entity[c][col] ELSE @[col]]]
                          ELSE users
              /\ wrote' = wrote \cup {c}
              /\ Goto(c, AfterSave(c))
      /\ UNCHANGED <<callVars, expired, mails, changed>>

\* The insert that save() makes of an entity whose row is gone.
Reinsert(c) ==
  LET u == target[c]
  IN  /\ pc[c] = "reinsert"
      /\ IF Exists(u) \/ TakenBesides(u, entity[c].email)
         THEN Goto(c, "failed") /\ UNCHANGED <<users, wrote>>
         ELSE /\ users' = [users EXCEPT ![u] = entity[c]]
              /\ wrote' = wrote \cup {c}
              /\ Goto(c, AfterSave(c))
      /\ UNCHANGED <<callVars, expired, mails, changed>>

-----------------------------------------------------------------------------
\* Administrators.

\* updateUserInfo: one UPDATE of the columns of the dto, the password as it came.
Patch(u, e, s, p) == [users[u] EXCEPT !.email = e, !.status = s, !.password = p]

UpdateUserInfo(c, u) ==
  /\ pc[c] = "idle" /\ Exists(u)
  /\ \E e \in Email, s \in Status, p \in {users[u].password, [secret |-> c, hashed |-> FALSE]} :
       LET row == Patch(u, e, s, p)
       IN  /\ row # users[u] /\ ~TakenBesides(u, e)
           /\ users' = [users EXCEPT ![u] = row]
           /\ entity' = [entity EXCEPT ![c] = row]
           /\ changed' = [changed EXCEPT ![c] = {col \in Column : row[col] # users[u][col]}]
  /\ op' = [op EXCEPT ![c] = "update"]
  /\ target' = [target EXCEPT ![c] = u]
  /\ seen' = [seen EXCEPT ![c] = wrote]
  /\ wrote' = wrote \cup {c}
  /\ Goto(c, "done")
  /\ UNCHANGED <<expired, mails, token>>

\* deleteUser: the lookup, then the delete, which MySQL refuses for a user with
\* bookings (not part of this module).
FindDeleted(c, u) == Exists(u) /\ Begin(c, "delete", u, NoToken, users[u], "delete")

Delete(c) ==
  /\ pc[c] = "delete"
  /\ \/ /\ users' = [users EXCEPT ![target[c]] = NoUser]
        /\ wrote' = wrote \cup {c}
        /\ Goto(c, "done")
     \/ Goto(c, "failed") /\ UNCHANGED <<users, wrote>>
  /\ UNCHANGED <<callVars, expired, mails, changed>>

\* The hour of a reset token passes.
Expire(t) ==
  /\ op[t] = "forgot" /\ t \notin expired
  /\ expired' = expired \cup {t}
  /\ UNCHANGED <<users, mails, pc, callVars, changed, wrote>>

-----------------------------------------------------------------------------
AccountStep(c) == \/ Insert(c) \/ Enqueue(c) \/ SelectForSave(c) \/ UpdateChanged(c)
                  \/ Reinsert(c) \/ Delete(c)

AccountBegins(c) ==
  \/ \E o \in Inserts, e \in Email, s \in Status : FindAddress(c, o, e, s)
  \/ \E e \in Email : FindForgetful(c, e)
  \/ \E t \in Call : FindCode(c, t) \/ FindResetToken(c, t)
  \/ \E u \in Call : UpdateUserInfo(c, u) \/ FindDeleted(c, u)

AccountNext == (\E c \in Call : AccountBegins(c) \/ AccountStep(c)) \/ \E t \in Call : Expire(t)

AccountSpec == AccountInit /\ [][AccountNext]_accountVars

-----------------------------------------------------------------------------
\* The columns that an operation is there to change.
Means(c) ==
  CASE op[c] \in Inserts \cup {"delete"} -> Column
    [] op[c] = "activate" -> {"status", "code"}
    [] op[c] = "forgot"   -> {"reset"}
    [] op[c] = "reset"    -> {"password", "reset"}
    [] op[c] = "update"   -> changed[c]
    [] OTHER              -> {}

\* Is what c wrote in column col still there?
Stands(c, col) ==
  IF op[c] = "delete" THEN ~Exists(target[c])
  ELSE Exists(target[c]) /\ users[target[c]][col] = entity[c][col]

\* The other calls that have written the same row since c read it.
Rivals(c) == {d \in wrote \ (seen[c] \cup {c}) : target[d] = target[c]}

\* One of them had not seen what c wrote in col, or was there to change it.
Overlapped(c, col) == \E d \in Rivals(c) : c \in seen[d] => col \in Means(d)

\* What an operation changed stands until a later one is there to change it; it
\* is otherwise lost only to a call that had read the row before and saved it
\* after (or the other way round).  So a password that was reset, a status that
\* was activated, a row that was deleted or inserted has no other way to revert.
ChangesLostOnlyToOverlap ==
  \A c \in wrote : \A col \in Means(c) : Stands(c, col) \/ Overlapped(c, col)

\* Whoever is mailed a code or a reset token can find it in a row that was
\* written: the mail is queued after the save.  (Not so the password of a first
\* Google sign-in, auth.service.ts:428.)
MailAnnouncesWrite == \A m \in mails : m.kind # "password" => m.call \in wrote

\* "Password reset successfully! You can now log in with your new password."
\* (auth.json, RESET_PASSWORD.SUCCESS): until the next change of the password or
\* of the account.
NewPasswordWorks ==
  \A c \in wrote :
    op[c] = "reset" =>
      \/ users[target[c]] # NoUser /\ users[target[c]].password = entity[c].password
      \/ \E d \in wrote \ (seen[c] \cup {c}) :
           target[d] = target[c] /\ (op[d] = "delete" \/ "password" \in Means(d))

-----------------------------------------------------------------------------
(* The inductive invariant behind ChangesLostOnlyToOverlap. *)

Saving == {"select", "write", "reinsert"}

\* Where a call is tells its operation and whether it has written.
PlaceInv ==
  \A c \in Call :
    /\ c \in wrote => pc[c] \in {"enqueue", "done"} /\ op[c] \in Op
    /\ pc[c] \in Saving => op[c] \in {"activate", "forgot", "reset"} /\ entity[c] \in User
    /\ pc[c] = "insert" => op[c] \in Inserts /\ entity[c] \in User
    /\ pc[c] = "delete" => op[c] = "delete"
    /\ pc[c] = "enqueue" => /\ entity[c] \in User
                            /\ op[c] = "google" \/ (op[c] \in {"register", "forgot"} /\ c \in wrote)

\* An insertion is about its own row; every other call about one that was inserted.
TargetInv ==
  \A c \in Call :
    /\ Exists(c) => c \in wrote
    /\ op[c] \in Inserts => target[c] = c
    /\ pc[c] \in Saving \cup {"delete"} \/ c \in wrote => target[c] \in wrote
    /\ seen[c] \subseteq wrote

\* What an entity holds besides what its call changed is what those seen left.
EntityCurrent(c) ==
  \A e \in seen[c] : target[e] = target[c] =>
    \A col \in Means(e) \ Means(c) :
      \/ op[e] # "delete" /\ entity[c][col] = entity[e][col]
      \/ Overlapped(e, col)

\* What save() found equal is so still, unless somebody wrote since.
CompareCurrent(c) ==
  \/ /\ Exists(target[c])
     /\ \A col \in Column \ changed[c] : users[target[c]][col] = entity[c][col]
  \/ Rivals(c) # {}

EntityInv  == \A c \in Call : pc[c] \in Saving => EntityCurrent(c)
CompareInv == \A c \in Call : pc[c] = "write" => CompareCurrent(c)

AccountIInv ==
  /\ AccountTypeOK
  /\ PlaceInv
  /\ TargetInv
  /\ EntityInv
  /\ CompareInv
  /\ ChangesLostOnlyToOverlap
  /\ MailAnnouncesWrite
=============================================================================
