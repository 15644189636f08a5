----------------------- MODULE AccountServiceProofs ------------------------
(***************************************************************************)
(* Theorems of AccountService for every set of calls and addresses.        *)
(***************************************************************************)
EXTENDS AccountService, FiniteSetTheorems, TLAPS

-----------------------------------------------------------------------------
(* Rows. *)

\* A row is not the absence of one.
LEMMA UserExists == \A row \in User : row # NoUser
BY DEF User, NoUser

LEMMA NewUserType ==
  ASSUME NEW c \in Call, NEW o \in Inserts, NEW e \in Email, NEW s \in Status
  PROVE  NewUser(c, o, e, s) \in User
BY DEF NewUser, User, Password, Status

LEMMA MeansType == AccountTypeOK => \A c \in Call : Means(c) \subseteq Column
BY DEF AccountTypeOK, Means, Column

LEMMA MailKindType ==
  /\ MailKind["register"] = "welcome"
  /\ MailKind["google"] = "password"
  /\ MailKind["forgot"] = "reset"
BY DEF MailKind

-----------------------------------------------------------------------------
(* What the history keeps. *)

\* The fields of a call that a later step of another one leaves alone.
Kept(d) == /\ op'[d] = op[d] /\ target'[d] = target[d] /\ entity'[d] = entity[d]
           /\ changed'[d] = changed[d] /\ seen'[d] = seen[d]

LEMMA MeansKept ==
  ASSUME NEW d, Kept(d)
  PROVE  Means(d)' = Means(d)
BY DEF Kept, Means

\* An overlap is never forgotten.
LEMMA OverlappedKept ==
  ASSUME NEW e \in wrote, NEW col, wrote \subseteq wrote', \A d \in wrote : Kept(d),
         Overlapped(e, col)
  PROVE  Overlapped(e, col)'
<1>1. PICK d \in Rivals(e) : e \in seen[d] => col \in Means(d)
  BY DEF Overlapped
<1>2. d \in wrote /\ d \in Rivals(e)'
  BY <1>1 DEF Rivals, Kept
<1>3. e \in seen'[d] => col \in Means(d)'
  BY <1>1, <1>2, MeansKept DEF Kept
<1> QED BY <1>2, <1>3 DEF Overlapped

\* A step that writes no row, of call c.
LEMMA QuietCall ==
  ASSUME AccountIInv, UNCHANGED <<users, wrote>>, NEW c \in Call,
         \A d \in Call \ {c} : Kept(d) /\ pc'[d] = pc[d],
         c \in wrote => Kept(c),
         pc'[c] \in Saving => EntityCurrent(c)',
         pc'[c] = "write" => CompareCurrent(c)'
  PROVE  EntityInv' /\ CompareInv' /\ ChangesLostOnlyToOverlap'
<1>1. \A d \in wrote : Kept(d)
  BY DEF AccountIInv, AccountTypeOK
<1>2. ASSUME NEW e \in wrote, NEW col, Overlapped(e, col) PROVE Overlapped(e, col)'
  BY <1>1, <1>2, OverlappedKept
<1>3. ASSUME NEW e \in wrote, NEW col, Stands(e, col) PROVE Stands(e, col)'
  BY <1>1, <1>3 DEF Stands, Exists, Kept
<1>4. ChangesLostOnlyToOverlap'
  BY <1>1, <1>2, <1>3, MeansKept DEF AccountIInv, ChangesLostOnlyToOverlap
<1>5. ASSUME NEW d \in Call \ {c}, pc[d] \in Saving PROVE EntityCurrent(d)'
  <2>1. EntityCurrent(d) /\ seen[d] \subseteq wrote /\ Kept(d) /\ Means(d)' = Means(d)
    BY <1>5, MeansKept DEF AccountIInv, EntityInv, TargetInv
  <2>2. \A e \in seen[d] : Kept(e) /\ Means(e)' = Means(e)
    BY <1>1, <2>1, MeansKept
  <2> QED BY <1>2, <2>1, <2>2 DEF EntityCurrent, Kept
<1>6. ASSUME NEW d \in Call \ {c}, pc[d] = "write" PROVE CompareCurrent(d)'
  <2>1. CompareCurrent(d) /\ Kept(d)
    BY <1>6 DEF AccountIInv, CompareInv
  <2>2. Rivals(d) \subseteq Rivals(d)'
    BY <1>1, <2>1 DEF Rivals, Kept
  <2> QED BY <2>1, <2>2 DEF CompareCurrent, Exists, Kept
<1> QED BY <1>4, <1>5, <1>6 DEF EntityInv, CompareInv

\* A step in which call c writes its row.  It undoes the change of no call that
\* it had seen, and what it writes itself stands or has been overlapped.
LEMMA WritingCall ==
  ASSUME AccountIInv, NEW c \in Call, c \notin wrote, wrote' = wrote \cup {c},
         \A d \in Call \ {c} : Kept(d) /\ pc'[d] = pc[d],
         pc'[c] \notin Saving,
         \A u \in Call : u # target'[c] => users'[u] = users[u],
         \A e \in wrote \cap seen'[c] : target[e] = target'[c] =>
           \A col \in Means(e) \ Means(c)' : Stands(e, col)' \/ Overlapped(e, col),
         \A col \in Means(c)' : Stands(c, col)' \/ Overlapped(c, col)'
  PROVE  EntityInv' /\ CompareInv' /\ ChangesLostOnlyToOverlap'
<1>1. /\ \A d \in wrote : Kept(d) /\ d \in Call /\ d # c
      /\ \A d \in Call : c \notin seen[d] /\ seen[d] \subseteq wrote
      /\ \A d \in wrote : target[d] \in Call
  BY DEF AccountIInv, AccountTypeOK, TargetInv
<1>2. ASSUME NEW e \in wrote, NEW col, Overlapped(e, col) PROVE Overlapped(e, col)'
  BY <1>1, <1>2, OverlappedKept
<1>3. ASSUME NEW d \in Call \ {c}, target[d] = target'[c] PROVE c \in Rivals(d)'
  BY <1>1, <1>3 DEF Rivals, Kept
<1>4. ASSUME NEW e \in wrote, NEW col \in Means(e) PROVE Stands(e, col)' \/ Overlapped(e, col)'
  <2>1. CASE target[e] # target'[c]
    <3>1. Stands(e, col) => Stands(e, col)'
      BY <1>1, <2>1 DEF Stands, Exists, Kept
    <3> QED BY <1>2, <3>1 DEF AccountIInv, ChangesLostOnlyToOverlap
  <2>2. CASE target[e] = target'[c] /\ (e \in seen'[c] => col \in Means(c)')
    BY <1>1, <1>3, <2>2 DEF Overlapped
  <2>3. CASE target[e] = target'[c] /\ e \in seen'[c] /\ col \notin Means(c)'
    BY <1>2, <2>3
  <2> QED BY <2>1, <2>2, <2>3
<1>5. ChangesLostOnlyToOverlap'
  BY <1>1, <1>4, MeansKept DEF ChangesLostOnlyToOverlap
<1>6. ASSUME NEW d \in Call \ {c}, pc[d] \in Saving PROVE EntityCurrent(d)'
  <2>1. EntityCurrent(d) /\ Kept(d) /\ Means(d)' = Means(d)
    BY <1>6, MeansKept DEF AccountIInv, EntityInv
  <2>2. \A e \in seen[d] : e \in wrote /\ Kept(e) /\ Means(e)' = Means(e)
    BY <1>1, MeansKept
  <2> QED BY <1>2, <2>1, <2>2 DEF EntityCurrent, Kept
<1>7. ASSUME NEW d \in Call \ {c}, pc[d] = "write" PROVE CompareCurrent(d)'
  <2>1. CompareCurrent(d) /\ Kept(d)
    BY <1>7 DEF AccountIInv, CompareInv
  <2>2. CASE target[d] = target'[c]
    BY <1>3, <2>2 DEF CompareCurrent
  <2>3. CASE target[d] # target'[c]
    <3>1. Rivals(d) \subseteq Rivals(d)'
      BY <1>1, <2>1 DEF Rivals, Kept
    <3>2. users'[target[d]] = users[target[d]]
      BY <2>3 DEF AccountIInv, AccountTypeOK
    <3> QED BY <2>1, <3>1, <3>2 DEF CompareCurrent, Exists, Kept
  <2> QED BY <2>2, <2>3
<1> QED BY <1>5, <1>6, <1>7 DEF EntityInv, CompareInv, Saving

-----------------------------------------------------------------------------
(* The first step of a call. *)

\* What the handlers make of their lookup.
Begins(c, o, u, t, row, label) ==
  /\ o \in Op \ {"update"} /\ u \in Call /\ t \in Call \cup {NoToken}
  /\ row \in User \cup {NoUser}
  /\ o \in Inserts => u = c
  /\ \/ label \in Finished
     \/ label = "insert" /\ o \in Inserts /\ row \in User
     \/ label = "enqueue" /\ o = "google" /\ row \in User
     \/ label = "delete" /\ o = "delete" /\ Exists(u)
     \/ /\ label = "select" /\ o \in {"activate", "forgot", "reset"}
        /\ Exists(u) /\ row \in User
        /\ \A col \in Column \ Means(c)' : row[col] = users[u][col]

LEMMA BeginStep ==
  ASSUME AccountIInv, NEW c \in Call, NEW o, NEW u, NEW t, NEW row, NEW label,
         Begin(c, o, u, t, row, label), Begins(c, o, u, t, row, label)
  PROVE  AccountIInv'
<1>1. /\ c \notin wrote /\ pc[c] = "idle"
      /\ \A d \in Call \ {c} : Kept(d) /\ pc'[d] = pc[d]
      /\ UNCHANGED <<users, expired, mails, changed, wrote>>
  BY DEF Begin, Goto, Kept, AccountIInv, AccountTypeOK, PlaceInv
<1>2. /\ op'[c] = o /\ target'[c] = u /\ token'[c] = t /\ entity'[c] = row
      /\ seen'[c] = wrote /\ pc'[c] = label
  BY DEF Begin, Goto, AccountIInv, AccountTypeOK
<1>3. AccountTypeOK'
  BY DEF Begin, Begins, Goto, AccountIInv, AccountTypeOK, Working, Finished, Inserts
<1>4. PlaceInv'
  BY <1>1, <1>2 DEF Begins, AccountIInv, PlaceInv, Kept, Finished, Saving, Inserts
<1>5. TargetInv'
  <2>1. pc'[c] \in Saving \cup {"delete"} => u \in wrote
    BY <1>2 DEF Begins, AccountIInv, TargetInv, Saving, Finished
  <2> QED BY <1>1, <1>2, <2>1 DEF Begins, AccountIInv, TargetInv, Kept, Exists
<1>6. pc'[c] \in Saving => EntityCurrent(c)'
  <2> SUFFICES ASSUME pc'[c] \in Saving, NEW e \in wrote, target'[e] = u,
                      NEW col \in Means(e)' \ Means(c)'
               PROVE  \/ op'[e] # "delete" /\ row[col] = entity'[e][col]
                      \/ Overlapped(e, col)'
    BY <1>1, <1>2 DEF EntityCurrent
  <2>1. Kept(e) /\ e \in Call /\ Means(e)' = Means(e) /\ col \in Column
    BY <1>1, MeansKept, MeansType DEF AccountIInv, AccountTypeOK
  <2>2. Exists(u) /\ row[col] = users[u][col]
    BY <1>2, <2>1 DEF Begins, Saving, Finished
  <2>3. CASE Stands(e, col)
    BY <2>1, <2>2, <2>3 DEF Stands, Kept
  <2>4. CASE Overlapped(e, col)
    <3>1. wrote \subseteq wrote' /\ \A d \in wrote : Kept(d)
      BY <1>1 DEF AccountIInv, AccountTypeOK
    <3> QED BY <2>4, <3>1, OverlappedKept
  <2> QED BY <2>1, <2>3, <2>4 DEF AccountIInv, ChangesLostOnlyToOverlap
<1>7. pc'[c] # "write"
  BY <1>2 DEF Begins, Finished, Inserts
<1>8. EntityInv' /\ CompareInv' /\ ChangesLostOnlyToOverlap'
  BY <1>1, <1>6, <1>7, QuietCall
<1>9. MailAnnouncesWrite'
  BY <1>1 DEF AccountIInv, MailAnnouncesWrite
<1> QED BY <1>3, <1>4, <1>5, <1>8, <1>9 DEF AccountIInv

\* Every handler begins so.
LEMMA FirstSteps ==
  ASSUME AccountIInv, NEW c \in Call,
         \/ \E o \in Inserts, e \in Email, s \in Status : FindAddress(c, o, e, s)
         \/ \E e \in Email : FindForgetful(c, e)
         \/ \E t \in Call : FindCode(c, t) \/ FindResetToken(c, t)
         \/ \E u \in Call : FindDeleted(c, u)
  PROVE  AccountIInv'
<1> USE DEF AccountIInv
<1>1. \A u \in Call : Exists(u) => users[u] \in User
  BY DEF AccountTypeOK, Exists
<1>2. ASSUME NEW o, NEW u, NEW t, NEW row, NEW label, Begin(c, o, u, t, row, label)
      PROVE  op'[c] = o
  BY <1>2 DEF Begin, AccountTypeOK
<1>3. ASSUME NEW o \in Inserts, NEW e \in Email, NEW s \in Status, FindAddress(c, o, e, s)
      PROVE  AccountIInv'
  <2> DEFINE label == IF WithEmail(e) # {} THEN (IF o = "google" THEN "done" ELSE "rejected")
                      ELSE IF o = "google" THEN "enqueue" ELSE "insert"
  <2>1. Begins(c, o, c, NoToken, NewUser(c, o, e, s), label)
    BY NewUserType DEF Begins, Inserts, Op, Finished
  <2>2. Begin(c, o, c, NoToken, NewUser(c, o, e, s), label)
    BY <1>3 DEF FindAddress
  <2> QED BY <2>1, <2>2, BeginStep
<1>4. ASSUME NEW e \in Email, FindForgetful(c, e) PROVE AccountIInv'
  <2>1. ASSUME NEW u \in WithEmail(e),
               Begin(c, "forgot", u, NoToken, [users[u] EXCEPT !.reset = c], "select")
        PROVE  AccountIInv'
    <3>1. u \in Call /\ Exists(u) /\ users[u] \in User
      BY <1>1 DEF WithEmail
    <3>2. /\ [users[u] EXCEPT !.reset = c] \in User
          /\ \A col \in Column \ {"reset"} : [users[u] EXCEPT !.reset = c][col] = users[u][col]
      BY <3>1 DEF User, Column
    <3>3. Means(c)' = {"reset"}
      BY <1>2, <2>1 DEF Means, Inserts
    <3>4. Begins(c, "forgot", u, NoToken, [users[u] EXCEPT !.reset = c], "select")
      BY <3>1, <3>2, <3>3 DEF Begins, Op, Inserts
    <3> QED BY <2>1, <3>4, BeginStep
  <2>2. CASE Begin(c, "forgot", c, NoToken, NoUser, "rejected")
    <3>1. Begins(c, "forgot", c, NoToken, NoUser, "rejected")
      BY DEF Begins, Op, Finished
    <3> QED BY <2>2, <3>1, BeginStep
  <2> QED BY <1>4, <2>1, <2>2 DEF FindForgetful
<1>5. ASSUME NEW t \in Call, FindCode(c, t) PROVE AccountIInv'
  <2>1. ASSUME NEW u \in Call, Exists(u),
               Begin(c, "activate", u, t, [users[u] EXCEPT !.status = "ACTIVE", !.code = NoToken],
                     IF users[u].status = "ACTIVE" THEN "done" ELSE "select")
        PROVE  AccountIInv'
    <3> DEFINE row == [users[u] EXCEPT !.status = "ACTIVE", !.code = NoToken]
    <3>1. row \in User /\ \A col \in Column \ {"status", "code"} : row[col] = users[u][col]
      BY <1>1, <2>1 DEF User, Column, Status
    <3>2. Means(c)' = {"status", "code"}
      BY <1>2, <2>1 DEF Means, Inserts
    <3> HIDE DEF row
    <3>3. Begins(c, "activate", u, t, row,
                 IF users[u].status = "ACTIVE" THEN "done" ELSE "select")
      BY <2>1, <3>1, <3>2 DEF Begins, Op, Inserts, Finished
    <3> QED BY <2>1, <3>3, BeginStep DEF row
  <2>2. CASE Begin(c, "activate", c, t, NoUser, "rejected")
    <3>1. Begins(c, "activate", c, t, NoUser, "rejected")
      BY DEF Begins, Op, Finished
    <3> QED BY <2>2, <3>1, BeginStep
  <2> QED BY <1>5, <2>1, <2>2 DEF FindCode
<1>6. ASSUME NEW t \in Call, FindResetToken(c, t) PROVE AccountIInv'
  <2>1. ASSUME NEW u \in Call, Exists(u),
               Begin(c, "reset", u, t,
                     [users[u] EXCEPT !.password = [secret |-> c, hashed |-> TRUE], !.reset = NoToken],
                     "select")
        PROVE  AccountIInv'
    <3> DEFINE row == [users[u] EXCEPT !.password = [secret |-> c, hashed |-> TRUE], !.reset = NoToken]
    <3>1. row \in User /\ \A col \in Column \ {"password", "reset"} : row[col] = users[u][col]
      BY <1>1, <2>1 DEF User, Column, Password
    <3>2. Means(c)' = {"password", "reset"}
      BY <1>2, <2>1 DEF Means, Inserts
    <3> HIDE DEF row
    <3>3. Begins(c, "reset", u, t, row, "select")
      BY <2>1, <3>1, <3>2 DEF Begins, Op, Inserts
    <3> QED BY <2>1, <3>3, BeginStep DEF row
  <2>2. CASE Begin(c, "reset", c, t, NoUser, "rejected")
    <3>1. Begins(c, "reset", c, t, NoUser, "rejected")
      BY DEF Begins, Op, Finished
    <3> QED BY <2>2, <3>1, BeginStep
  <2> QED BY <1>6, <2>1, <2>2 DEF FindResetToken
<1>7. ASSUME NEW u \in Call, FindDeleted(c, u) PROVE AccountIInv'
  <2>1. Begins(c, "delete", u, NoToken, users[u], "delete")
    BY <1>1, <1>7 DEF FindDeleted, Begins, Op, Inserts
  <2> QED BY <1>7, <2>1, BeginStep DEF FindDeleted
<1> QED BY <1>3, <1>4, <1>5, <1>6, <1>7

-----------------------------------------------------------------------------
(* The steps after the lookup. *)

\* What a later step of a call leaves alone.
LEMMA SameCall ==
  ASSUME UNCHANGED callVars, NEW c \in Call, AccountTypeOK, NEW label, Goto(c, label),
         \A d \in Call \ {c} : changed'[d] = changed[d]
  PROVE  /\ pc'[c] = label
         /\ \A d \in Call \ {c} : Kept(d) /\ pc'[d] = pc[d]
         /\ changed'[c] = changed[c] => Kept(c)
BY DEF callVars, Goto, Kept, AccountTypeOK

\* An attempt that a key or MySQL refuses changes nothing.
LEMMA FailStep ==
  ASSUME AccountIInv, NEW c \in Call, UNCHANGED <<callVars, users, expired, mails, changed, wrote>>,
         Goto(c, "failed"), pc[c] \in {"insert", "write", "reinsert", "delete"}
  PROVE  AccountIInv'
<1> USE DEF AccountIInv
<1>1. /\ pc'[c] = "failed" /\ c \notin wrote /\ Kept(c)
      /\ \A d \in Call \ {c} : Kept(d) /\ pc'[d] = pc[d]
  BY SameCall DEF PlaceInv
<1>2. AccountTypeOK'
  BY DEF AccountTypeOK, Goto, callVars, Finished
<1>3. PlaceInv'
  BY <1>1 DEF PlaceInv, Kept, Saving
<1>4. TargetInv'
  BY <1>1 DEF TargetInv, Kept, Saving, Exists
<1>5. EntityInv' /\ CompareInv' /\ ChangesLostOnlyToOverlap'
  BY <1>1, QuietCall DEF Saving
<1> QED BY <1>2, <1>3, <1>4, <1>5 DEF MailAnnouncesWrite

LEMMA EnqueueStep ==
  ASSUME AccountIInv, NEW c \in Call, Enqueue(c)
  PROVE  AccountIInv'
<1> USE DEF AccountIInv
<1> DEFINE label == IF c \in wrote THEN "done" ELSE "insert"
<1>1. /\ pc[c] = "enqueue" /\ pc'[c] = label /\ Kept(c)
      /\ \A d \in Call \ {c} : Kept(d) /\ pc'[d] = pc[d]
  BY SameCall DEF Enqueue
<1>2. UNCHANGED <<users, wrote, expired>>
  BY DEF Enqueue
<1>3. /\ entity[c] \in User
      /\ op[c] = "google" \/ (op[c] \in {"register", "forgot"} /\ c \in wrote)
  BY <1>1 DEF PlaceInv
<1>4. mails' \subseteq mails \cup
        {[kind |-> MailKind[op[c]], call |-> c, email |-> entity[c].email]}
  BY DEF Enqueue
<1>5. AccountTypeOK'
  <2>1. mails' \subseteq Mail
    <3>1. [kind |-> MailKind[op[c]], call |-> c, email |-> entity[c].email] \in Mail
      BY <1>3, MailKindType DEF Mail, User
    <3> QED BY <1>4, <3>1 DEF AccountTypeOK
  <2>2. pc' \in [Call -> {"idle"} \cup Working \cup Finished]
    BY DEF Enqueue, Goto, AccountTypeOK, Working, Finished
  <2> QED BY <1>2, <2>1, <2>2 DEF Enqueue, callVars, AccountTypeOK
<1>6. PlaceInv'
  BY <1>1, <1>2, <1>3 DEF PlaceInv, Kept, Saving, Inserts
<1>7. TargetInv'
  BY <1>1, <1>2 DEF TargetInv, Kept, Saving, Exists
<1>8. EntityInv' /\ CompareInv' /\ ChangesLostOnlyToOverlap'
  BY <1>1, <1>2, QuietCall DEF Saving
<1>9. MailAnnouncesWrite'
  BY <1>2, <1>3, <1>4, MailKindType DEF MailAnnouncesWrite
<1> QED BY <1>5, <1>6, <1>7, <1>8, <1>9

\* The comparison of save(): the differing columns are noted.
LEMMA SelectStep ==
  ASSUME AccountIInv, NEW c \in Call, SelectForSave(c)
  PROVE  AccountIInv'
<1> USE DEF AccountIInv
<1>1. /\ pc[c] = "select" /\ c \notin wrote /\ op[c] \in {"activate", "forgot", "reset"}
      /\ UNCHANGED <<users, expired, mails, callVars, wrote>>
  BY DEF SelectForSave, PlaceInv, Saving
<1>2. /\ pc'[c] \in {"write", "reinsert"}
      /\ pc'[c] = "write" => /\ Exists(target[c])
                             /\ changed'[c] = {col \in Column : entity[c][col] # users[target[c]][col]}
      /\ changed'[c] \subseteq Column
  BY DEF SelectForSave, Goto, AccountTypeOK
<1>3. \A d \in Call \ {c} : Kept(d) /\ pc'[d] = pc[d]
  BY <1>1 DEF SelectForSave, Goto, Kept, callVars, AccountTypeOK
<1>4. /\ op'[c] = op[c] /\ target'[c] = target[c] /\ entity'[c] = entity[c] /\ seen'[c] = seen[c]
  BY <1>1 DEF callVars
<1>5. AccountTypeOK'
  BY <1>1 DEF SelectForSave, Goto, callVars, AccountTypeOK, Working
<1>6. PlaceInv'
  BY <1>1, <1>2, <1>3, <1>4 DEF PlaceInv, Kept, Saving
<1>7. TargetInv'
  BY <1>1, <1>2, <1>3, <1>4 DEF TargetInv, Kept, Saving, Exists
<1>8. EntityCurrent(c)'
  <2>1. EntityCurrent(c) /\ Means(c)' = Means(c)
    BY <1>1, <1>4 DEF EntityInv, Saving, Means, Inserts
  <2>2. \A e \in seen[c] : e \in wrote /\ Kept(e) /\ Means(e)' = Means(e)
    BY <1>1, <1>3, MeansKept DEF TargetInv, AccountTypeOK
  <2>3. \A d \in wrote : Kept(d)
    BY <1>1, <1>3 DEF AccountTypeOK
  <2>4. ASSUME NEW e \in wrote, NEW col, Overlapped(e, col) PROVE Overlapped(e, col)'
    BY <1>1, <2>3, <2>4, OverlappedKept
  <2> QED BY <1>4, <2>1, <2>2, <2>4 DEF EntityCurrent, Kept
<1>9. pc'[c] = "write" => CompareCurrent(c)'
  BY <1>1, <1>2, <1>4 DEF CompareCurrent, Exists
<1>10. EntityInv' /\ CompareInv' /\ ChangesLostOnlyToOverlap'
  BY <1>1, <1>3, <1>8, <1>9, QuietCall
<1>11. MailAnnouncesWrite'
  BY <1>1 DEF MailAnnouncesWrite
<1> QED BY <1>5, <1>6, <1>7, <1>10, <1>11

-----------------------------------------------------------------------------
(* The steps that write a row. *)

\* A call that writes: where it goes, and what it leaves of others.
LEMMA WriteFrame ==
  ASSUME AccountIInv, NEW c \in Call, NEW label \in {"enqueue", "done"}, Goto(c, label),
         UNCHANGED <<callVars, expired, mails, changed>>, wrote' = wrote \cup {c},
         pc[c] \in {"insert", "write", "reinsert", "delete"},
         label = "enqueue" => op[c] \in {"register", "forgot"},
         \A u \in Call : u # target[c] => users'[u] = users[u],
         users' \in [Call -> User \cup {NoUser}]
  PROVE  /\ AccountTypeOK' /\ PlaceInv' /\ TargetInv' /\ MailAnnouncesWrite'
         /\ c \notin wrote /\ Kept(c) /\ pc'[c] \notin Saving
         /\ \A d \in Call \ {c} : Kept(d) /\ pc'[d] = pc[d]
<1> USE DEF AccountIInv
<1>1. /\ pc'[c] = label /\ c \notin wrote /\ Kept(c)
      /\ \A d \in Call \ {c} : Kept(d) /\ pc'[d] = pc[d]
  BY SameCall DEF PlaceInv
<1>2. op[c] \in Op \ {"update"} /\ (label = "enqueue" => entity[c] \in User)
  BY DEF PlaceInv, Saving, Op, Inserts
<1>3. AccountTypeOK'
  BY DEF AccountTypeOK, Goto, callVars, Working, Finished
<1>4. PlaceInv'
  BY <1>1, <1>2 DEF PlaceInv, Kept, Saving
<1>5. target[c] \in wrote \cup {c}
  BY DEF TargetInv, PlaceInv, Saving
<1>6. TargetInv'
  BY <1>1, <1>5 DEF TargetInv, Kept, Saving, Exists, PlaceInv
<1>7. MailAnnouncesWrite'
  BY DEF MailAnnouncesWrite
<1> QED BY <1>1, <1>3, <1>4, <1>6, <1>7 DEF Saving

LEMMA InsertStep ==
  ASSUME AccountIInv, NEW c \in Call, Insert(c)
  PROVE  AccountIInv'
<1> USE DEF AccountIInv
<1>1. CASE UNCHANGED <<users, wrote>> /\ Goto(c, "failed")
  BY <1>1, FailStep DEF Insert
<1>2. CASE /\ users' = [users EXCEPT ![c] = entity[c]] /\ wrote' = wrote \cup {c}
           /\ Goto(c, IF op[c] = "register" THEN "enqueue" ELSE "done")
  <2>1. target[c] = c /\ entity[c] \in User /\ op[c] \in Inserts
    BY DEF Insert, PlaceInv, TargetInv
  <2>2. users' \in [Call -> User \cup {NoUser}]
        /\ \A u \in Call \ {c} : users'[u] = users[u]
    BY <1>2, <2>1 DEF AccountTypeOK
  <2>3. /\ AccountTypeOK' /\ PlaceInv' /\ TargetInv' /\ MailAnnouncesWrite'
        /\ c \notin wrote /\ Kept(c) /\ pc'[c] \notin Saving
        /\ \A d \in Call \ {c} : Kept(d) /\ pc'[d] = pc[d]
    BY <1>2, <2>1, <2>2, WriteFrame DEF Insert
  <2>4. \A e \in wrote : target[e] # c
    BY <2>3 DEF TargetInv, AccountTypeOK
  <2>5. users'[c] = entity[c]
    BY <1>2 DEF AccountTypeOK
  <2>6. \A col : Stands(c, col)'
    BY <2>1, <2>3, <2>5, UserExists DEF Stands, Exists, Kept, Inserts
  <2>7. EntityInv' /\ CompareInv' /\ ChangesLostOnlyToOverlap'
    BY <1>2, <2>1, <2>2, <2>3, <2>4, <2>6, WritingCall DEF Kept
  <2> QED BY <2>3, <2>7
<1> QED BY <1>1, <1>2 DEF Insert

\* The UPDATE of save(): a column that it leaves out was equal, or has a rival.
LEMMA UpdateStep ==
  ASSUME AccountIInv, NEW c \in Call, UpdateChanged(c)
  PROVE  AccountIInv'
<1> USE DEF AccountIInv
<1> DEFINE u == target[c]
<1>1. CASE UNCHANGED <<users, wrote>> /\ Goto(c, "failed")
  BY <1>1, FailStep DEF UpdateChanged
<1>2. CASE /\ users' = IF Exists(u)
                       THEN [users EXCEPT ![u] = [col \in Column |->
                               IF col \in changed[c] THEN entity[c][col] ELSE @[col]]]
                       ELSE users
           /\ wrote' = wrote \cup {c}
           /\ Goto(c, AfterSave(c))
  <2>1. /\ u \in Call /\ entity[c] \in User /\ op[c] \in {"activate", "forgot", "reset"}
        /\ pc[c] = "write" /\ UNCHANGED <<callVars, expired, mails, changed>>
    BY DEF UpdateChanged, PlaceInv, Saving, AccountTypeOK
  <2>2. Exists(u) =>
          /\ users'[u] \in User
          /\ \A col \in Column :
               users'[u][col] = IF col \in changed[c] THEN entity[c][col] ELSE users[u][col]
    <3>1. Exists(u) => users[u] \in User
      BY <2>1 DEF Exists, AccountTypeOK
    <3>2. Exists(u) => users'[u] = [col \in Column |->
                               IF col \in changed[c] THEN entity[c][col] ELSE users[u][col]]
      BY <1>2, <2>1 DEF AccountTypeOK
    <3>3. Exists(u) => users'[u] \in User
      BY <2>1, <3>1, <3>2 DEF User, Column, Status, Password
    <3>4. Exists(u) => \A col \in Column :
            users'[u][col] = IF col \in changed[c] THEN entity[c][col] ELSE users[u][col]
      BY <3>2
    <3> QED BY <3>3, <3>4
  <2>3. /\ users' \in [Call -> User \cup {NoUser}]
        /\ \A v \in Call : v # u => users'[v] = users[v]
        /\ ~Exists(u) => users' = users
    <3>1. ~Exists(u) => users' = users
      BY <1>2
    <3>2. Exists(u) => \E row : users' = [users EXCEPT ![u] = row]
      BY <1>2
    <3> QED BY <2>1, <2>2, <3>1, <3>2 DEF AccountTypeOK
  <2>4. /\ AccountTypeOK' /\ PlaceInv' /\ TargetInv' /\ MailAnnouncesWrite'
        /\ c \notin wrote /\ Kept(c) /\ pc'[c] \notin Saving
        /\ \A d \in Call \ {c} : Kept(d) /\ pc'[d] = pc[d]
    <3>1. AfterSave(c) \in {"enqueue", "done"} /\ (AfterSave(c) = "enqueue" => op[c] = "forgot")
      BY DEF AfterSave
    <3> QED BY <1>2, <2>1, <2>3, <3>1, WriteFrame
  <2>5. Means(c)' = Means(c) /\ Means(c) \subseteq Column /\ op[c] # "delete"
    BY <2>1, <2>4, MeansKept, MeansType
  <2>6. ASSUME NEW e \in wrote, e \in seen[c], target[e] = u, NEW col \in Means(e) \ Means(c)
        PROVE  Stands(e, col)' \/ Overlapped(e, col)
    <3>1. e \in Call /\ col \in Column /\ Kept(e)
      BY <2>4, MeansType DEF AccountTypeOK
    <3>2. \/ op[e] # "delete" /\ entity[c][col] = entity[e][col]
          \/ Overlapped(e, col)
      BY <2>1, <2>6 DEF EntityInv, EntityCurrent, Saving
    <3>3. Stands(e, col) \/ Overlapped(e, col)
      BY DEF ChangesLostOnlyToOverlap
    <3>4. CASE ~Exists(u)
      BY <2>3, <2>6, <3>1, <3>3, <3>4 DEF Stands, Exists, Kept
    <3>5. CASE Exists(u)
      BY <2>2, <2>6, <3>1, <3>2, <3>3, <3>5, UserExists DEF Stands, Exists, Kept
    <3> QED BY <3>4, <3>5
  <2>7. ASSUME NEW col \in Means(c)' PROVE Stands(c, col)' \/ Overlapped(c, col)'
    <3>1. CASE Exists(u) /\ \A k \in Column \ changed[c] : users[u][k] = entity[c][k]
      <4>1. users'[u] # NoUser /\ users'[u][col] = entity[c][col]
        BY <2>2, <2>5, <3>1, UserExists DEF Exists
      <4> QED BY <2>4, <2>5, <4>1 DEF Stands, Exists, Kept
    <3>2. CASE Rivals(c) # {}
      <4>1. PICK d \in Rivals(c) : TRUE
        BY <3>2
      <4>2. d \in Rivals(c)' /\ c \notin seen'[d]
        BY <1>2, <2>4, <4>1 DEF Rivals, Kept, TargetInv, AccountTypeOK
      <4> QED BY <4>2 DEF Overlapped
    <3> QED BY <2>1, <3>1, <3>2 DEF CompareInv, CompareCurrent
  <2>8. EntityInv' /\ CompareInv' /\ ChangesLostOnlyToOverlap'
    BY <1>2, <2>3, <2>4, <2>5, <2>6, <2>7, WritingCall DEF Kept
  <2> QED BY <2>4, <2>8
<1> QED BY <1>1, <1>2 DEF UpdateChanged

\* The INSERT that save() makes of an entity whose row is gone.
LEMMA ReinsertStep ==
  ASSUME AccountIInv, NEW c \in Call, Reinsert(c)
  PROVE  AccountIInv'
<1> USE DEF AccountIInv
<1> DEFINE u == target[c]
<1>1. CASE UNCHANGED <<users, wrote>> /\ Goto(c, "failed")
  BY <1>1, FailStep DEF Reinsert
<1>2. CASE /\ users' = [users EXCEPT ![u] = entity[c]] /\ wrote' = wrote \cup {c}
           /\ Goto(c, AfterSave(c))
  <2>1. /\ u \in Call /\ entity[c] \in User /\ op[c] \in {"activate", "forgot", "reset"}
        /\ pc[c] = "reinsert" /\ UNCHANGED <<callVars, expired, mails, changed>>
    BY DEF Reinsert, PlaceInv, Saving, AccountTypeOK
  <2>2. /\ users' \in [Call -> User \cup {NoUser}] /\ users'[u] = entity[c]
        /\ \A v \in Call : v # u => users'[v] = users[v]
    BY <1>2, <2>1 DEF AccountTypeOK
  <2>3. /\ AccountTypeOK' /\ PlaceInv' /\ TargetInv' /\ MailAnnouncesWrite'
        /\ c \notin wrote /\ Kept(c) /\ pc'[c] \notin Saving
        /\ \A d \in Call \ {c} : Kept(d) /\ pc'[d] = pc[d]
    <3>1. AfterSave(c) \in {"enqueue", "done"} /\ (AfterSave(c) = "enqueue" => op[c] = "forgot")
      BY DEF AfterSave
    <3> QED BY <1>2, <2>1, <2>2, <3>1, WriteFrame
  <2>4. users'[u] # NoUser
    BY <2>1, <2>2, UserExists
  <2>5. Means(c)' = Means(c)
    BY <2>3, MeansKept
  <2>6. ASSUME NEW e \in wrote, e \in seen[c], target[e] = u, NEW col \in Means(e) \ Means(c)
        PROVE  Stands(e, col)' \/ Overlapped(e, col)
    <3>1. Kept(e)
      BY <2>3 DEF AccountTypeOK
    <3>2. \/ op[e] # "delete" /\ entity[c][col] = entity[e][col]
          \/ Overlapped(e, col)
      BY <2>1, <2>6 DEF EntityInv, EntityCurrent, Saving
    <3> QED BY <2>2, <2>4, <2>6, <3>1, <3>2 DEF Stands, Exists, Kept
  <2>7. \A col : Stands(c, col)'
    BY <2>1, <2>2, <2>3, <2>4 DEF Stands, Exists, Kept
  <2>8. EntityInv' /\ CompareInv' /\ ChangesLostOnlyToOverlap'
    BY <1>2, <2>2, <2>3, <2>5, <2>6, <2>7, WritingCall DEF Kept
  <2> QED BY <2>3, <2>8
<1> QED BY <1>1, <1>2 DEF Reinsert

\* A deletion is there to change every column.
LEMMA DeleteStep ==
  ASSUME AccountIInv, NEW c \in Call, Delete(c)
  PROVE  AccountIInv'
<1> USE DEF AccountIInv
<1>1. CASE UNCHANGED <<users, wrote>> /\ Goto(c, "failed")
  BY <1>1, FailStep DEF Delete
<1>2. CASE /\ users' = [users EXCEPT ![target[c]] = NoUser] /\ wrote' = wrote \cup {c}
           /\ Goto(c, "done")
  <2>1. /\ target[c] \in Call /\ op[c] = "delete" /\ pc[c] = "delete"
        /\ UNCHANGED <<callVars, expired, mails, changed>>
    BY DEF Delete, PlaceInv, AccountTypeOK
  <2>2. /\ users' \in [Call -> User \cup {NoUser}] /\ users'[target[c]] = NoUser
        /\ \A v \in Call : v # target[c] => users'[v] = users[v]
    BY <1>2, <2>1 DEF AccountTypeOK
  <2>3. /\ AccountTypeOK' /\ PlaceInv' /\ TargetInv' /\ MailAnnouncesWrite'
        /\ c \notin wrote /\ Kept(c) /\ pc'[c] \notin Saving
        /\ \A d \in Call \ {c} : Kept(d) /\ pc'[d] = pc[d]
    BY <1>2, <2>1, <2>2, WriteFrame
  <2>4. Means(c)' = Column
    BY <2>1 DEF Means, callVars
  <2>5. \A e \in wrote : Means(e) \subseteq Column
    BY MeansType DEF AccountTypeOK
  <2>6. \A col : Stands(c, col)'
    BY <2>1, <2>2, <2>3 DEF Stands, Exists, Kept
  <2>7. EntityInv' /\ CompareInv' /\ ChangesLostOnlyToOverlap'
    BY <1>2, <2>2, <2>3, <2>4, <2>5, <2>6, WritingCall DEF Kept
  <2> QED BY <2>3, <2>7
<1> QED BY <1>1, <1>2 DEF Delete

\* An administrator's update reads and writes in one statement.
LEMMA UserInfoStep ==
  ASSUME AccountIInv, NEW c \in Call, NEW u \in Call, UpdateUserInfo(c, u)
  PROVE  AccountIInv'
<1> USE DEF AccountIInv
<1>1. PICK e \in Email, s \in Status, p \in {users[u].password, [secret |-> c, hashed |-> FALSE]} :
        /\ users' = [users EXCEPT ![u] = Patch(u, e, s, p)]
        /\ entity' = [entity EXCEPT ![c] = Patch(u, e, s, p)]
        /\ changed' = [changed EXCEPT ![c] =
                         {col \in Column : Patch(u, e, s, p)[col] # users[u][col]}]
  BY DEF UpdateUserInfo
<1> DEFINE row == Patch(u, e, s, p)
<1>2. Exists(u) /\ users[u] \in User /\ c \notin wrote /\ pc[c] = "idle" /\ u \in wrote
  BY DEF UpdateUserInfo, Exists, AccountTypeOK, PlaceInv, TargetInv
<1>3. row \in User /\ row # NoUser
  <2>1. row \in User
    <3>1. p \in Password
      <4>1. users[u].password \in Password
        BY <1>2 DEF User
      <4>2. [secret |-> c, hashed |-> FALSE] \in Password
        BY DEF Password
      <4> QED BY <4>1, <4>2
    <3> QED BY <1>2, <3>1 DEF Patch, User
  <2> QED BY <2>1, UserExists
<1> HIDE DEF row
<1>4. /\ op'[c] = "update" /\ target'[c] = u /\ entity'[c] = row /\ seen'[c] = wrote
      /\ changed'[c] = {col \in Column : row[col] # users[u][col]}
      /\ pc'[c] = "done" /\ wrote' = wrote \cup {c} /\ UNCHANGED <<expired, mails, token>>
  BY <1>1 DEF row, UpdateUserInfo, Goto, AccountTypeOK
<1>5. \A d \in Call \ {c} : Kept(d) /\ pc'[d] = pc[d]
  BY <1>1 DEF UpdateUserInfo, Goto, Kept, AccountTypeOK
<1>6. users'[u] = row /\ \A v \in Call : v # u => users'[v] = users[v]
  BY <1>1 DEF row, AccountTypeOK
<1>7. AccountTypeOK'
  <2>1. users' \in [Call -> User \cup {NoUser}] /\ entity' \in [Call -> User \cup {NoUser}]
        /\ changed' \in [Call -> SUBSET Column]
    BY <1>1, <1>3 DEF row, AccountTypeOK
  <2> QED BY <1>4, <2>1 DEF UpdateUserInfo, Goto, AccountTypeOK, Op, Finished
<1>8. PlaceInv'
  BY <1>4, <1>5 DEF PlaceInv, Kept, Saving, Op
<1>9. TargetInv'
  BY <1>2, <1>4, <1>5, <1>6 DEF TargetInv, Kept, Saving, Exists, Inserts
<1>10. Means(c)' = changed'[c]
  BY <1>4 DEF Means, Inserts
<1>11. ASSUME NEW d \in wrote, target[d] = u, NEW col \in Means(d) \ Means(c)'
       PROVE  Stands(d, col)' \/ Overlapped(d, col)
  <2>1. d \in Call /\ d # c /\ Kept(d) /\ col \in Column
    BY <1>2, <1>5, MeansType DEF AccountTypeOK
  <2>2. row[col] = users[u][col]
    BY <1>4, <1>10, <1>11, <2>1
  <2>3. Stands(d, col) => Stands(d, col)'
    BY <1>2, <1>3, <1>6, <1>11, <2>1, <2>2 DEF Stands, Exists, Kept
  <2> QED BY <2>3 DEF ChangesLostOnlyToOverlap
<1>12. \A col : Stands(c, col)'
  BY <1>3, <1>4, <1>6 DEF Stands, Exists
<1>13. EntityInv' /\ CompareInv' /\ ChangesLostOnlyToOverlap'
  BY <1>2, <1>4, <1>5, <1>6, <1>11, <1>12, WritingCall DEF Saving
<1>14. MailAnnouncesWrite'
  BY <1>4 DEF MailAnnouncesWrite
<1> QED BY <1>7, <1>8, <1>9, <1>13, <1>14

-----------------------------------------------------------------------------
\* Steps that touch neither rows nor calls.
LEMMA ExpiryStep ==
  ASSUME AccountIInv, UNCHANGED <<users, mails, pc, callVars, changed, wrote>>,
         expired' = expired \/ \E t \in Call : Expire(t)
  PROVE  AccountIInv'
BY DEF callVars, Expire, AccountIInv, AccountTypeOK, PlaceInv, TargetInv, EntityInv, EntityCurrent,
   CompareInv, CompareCurrent, ChangesLostOnlyToOverlap, MailAnnouncesWrite, Stands, Overlapped,
   Rivals, Means, Exists

LEMMA AccountInvInit == AccountInit => AccountIInv
BY DEF AccountInit, AccountIInv, AccountTypeOK, PlaceInv, TargetInv, EntityInv, CompareInv,
   ChangesLostOnlyToOverlap, MailAnnouncesWrite, Exists, Saving, Inserts

LEMMA AccountInvStep == AccountIInv /\ [AccountNext]_accountVars => AccountIInv'
<1> SUFFICES ASSUME AccountIInv, [AccountNext]_accountVars PROVE AccountIInv'
  OBVIOUS
<1>1. ASSUME NEW c \in Call, AccountBegins(c) PROVE AccountIInv'
  BY <1>1, FirstSteps, UserInfoStep DEF AccountBegins
<1>2. ASSUME NEW c \in Call, AccountStep(c) PROVE AccountIInv'
  BY <1>2, InsertStep, EnqueueStep, SelectStep, UpdateStep, ReinsertStep, DeleteStep
     DEF AccountStep
<1>3. ASSUME NEW t \in Call, Expire(t) PROVE AccountIInv'
  BY <1>3, ExpiryStep DEF Expire
<1>4. CASE UNCHANGED accountVars
  BY <1>4, ExpiryStep DEF accountVars, callVars
<1> QED BY <1>1, <1>2, <1>3, <1>4 DEF AccountNext

\* The inductive invariant of the handlers of the table users.
THEOREM AccountInvariant == AccountSpec => []AccountIInv
BY AccountInvInit, AccountInvStep, PTL DEF AccountSpec

\* Every variable keeps its type.
THEOREM AccountTypeCorrect == AccountSpec => []AccountTypeOK
<1>1. AccountIInv => AccountTypeOK
  BY DEF AccountIInv
<1> QED BY <1>1, AccountInvariant, PTL

\* However many handlers save whole rows of one account, a change is undone only
\* by a later change of the same column or by a call whose read and save lie on
\* either side of it: there is no lost update between calls that do not overlap.
THEOREM LossNeedsOverlap == AccountSpec => []ChangesLostOnlyToOverlap
<1>1. AccountIInv => ChangesLostOnlyToOverlap
  BY DEF AccountIInv
<1> QED BY <1>1, AccountInvariant, PTL

\* No code and no reset token is mailed before it is stored.
THEOREM MailFollowsWrite == AccountSpec => []MailAnnouncesWrite
<1>1. AccountIInv => MailAnnouncesWrite
  BY DEF AccountIInv
<1> QED BY <1>1, AccountInvariant, PTL

-----------------------------------------------------------------------------
(* One call at a time.  An administrator's update is one statement, and may   *)
(* still come between the two queries of a save.                              *)

OneCall == \A c, d \in InFlight : c = d

\* A later call was there to change the password that c set, or to delete the account.
Superseded(c) ==
  \E d \in wrote \ (seen[c] \cup {c}) :
    target[d] = target[c] /\ (op[d] = "delete" \/ "password" \in Means(d))

PasswordStands(c) == Exists(target[c]) /\ users[target[c]].password = entity[c].password

\* Whose password a row holds has written; who is to insert a row brings its own.
SecretInv ==
  /\ \A u \in Call : Exists(u) => users[u].password.secret \in wrote
  /\ \A c \in Call : pc[c] \in {"insert", "enqueue"} /\ op[c] \in Inserts =>
       entity[c].password.secret = c

\* A save that no other handler crosses finds its row, brings a password only when it
\* resets one, and has otherwise the one that the last reset left.
LoneSave(d) ==
  /\ pc[d] # "reinsert" /\ Exists(target[d])
  /\ op[d] = "reset" => /\ entity[d].password.secret = d
                        /\ pc[d] = "write" => "password" \in changed[d]
  /\ op[d] # "reset" => /\ entity[d].password.secret \in wrote
                        /\ \A c \in wrote : op[c] = "reset" /\ target[c] = target[d] =>
                             entity[d].password = entity[c].password \/ Superseded(c)

LoneInv == \A d \in Call : pc[d] \in Saving => LoneSave(d)

AloneInv == AccountIInv /\ OneCall /\ SecretInv /\ LoneInv /\ NewPasswordWorks

LEMMA NewPasswordMeans ==
  NewPasswordWorks <=> \A c \in wrote : op[c] = "reset" => PasswordStands(c) \/ Superseded(c)
BY DEF NewPasswordWorks, PasswordStands, Superseded, Exists

LEMMA SupersededKept ==
  ASSUME NEW c \in wrote, wrote \subseteq wrote', \A d \in wrote : Kept(d), Superseded(c)
  PROVE  Superseded(c)'
<1>1. PICK d \in wrote \ (seen[c] \cup {c}) :
        target[d] = target[c] /\ (op[d] = "delete" \/ "password" \in Means(d))
  BY DEF Superseded
<1>2. Means(d)' = Means(d)
  BY <1>1, MeansKept
<1> QED BY <1>1, <1>2 DEF Superseded, Kept

\* A save that another call leaves alone.
LEMMA LoneSaveKept ==
  ASSUME NEW d \in Call, LoneSave(d), Kept(d), pc'[d] = pc[d], Exists(target[d])',
         wrote \subseteq wrote', \A e \in wrote : Kept(e),
         \A e \in wrote' \ wrote : op'[e] # "reset"
  PROVE  LoneSave(d)'
<1>1. ASSUME NEW e \in wrote, Superseded(e) PROVE Superseded(e)'
  BY <1>1, SupersededKept
<1> QED BY <1>1 DEF LoneSave, Kept, Exists

\* A step that writes no row, of call c.
LEMMA QuietPassword ==
  ASSUME AloneInv, UNCHANGED <<users, wrote>>, NEW c \in Call,
         \A d \in Call \ {c} : Kept(d) /\ pc'[d] = pc[d],
         c \in wrote => Kept(c),
         pc'[c] \in Saving => LoneSave(c)',
         pc'[c] \in {"insert", "enqueue"} /\ op'[c] \in Inserts => entity'[c].password.secret = c
  PROVE  SecretInv' /\ LoneInv' /\ NewPasswordWorks'
<1>1. wrote \subseteq Call /\ \A d \in wrote : Kept(d)
  BY DEF AloneInv, AccountIInv, AccountTypeOK
<1>2. SecretInv'
  BY DEF AloneInv, SecretInv, Exists, Kept
<1>3. LoneInv'
  <2> SUFFICES ASSUME NEW d \in Call, d # c, pc'[d] \in Saving PROVE LoneSave(d)'
    BY DEF LoneInv
  <2>1. LoneSave(d) /\ Kept(d) /\ pc'[d] = pc[d]
    BY DEF AloneInv, LoneInv
  <2>2. Exists(target[d])'
    BY <2>1 DEF LoneSave, Exists, Kept
  <2> QED BY <1>1, <2>1, <2>2, LoneSaveKept
<1>4. ASSUME NEW e \in wrote, op'[e] = "reset" PROVE PasswordStands(e)' \/ Superseded(e)'
  <2>1. Kept(e) /\ (PasswordStands(e) \/ Superseded(e))
    BY <1>1, <1>4, NewPasswordMeans DEF AloneInv, Kept
  <2>2. PasswordStands(e) => PasswordStands(e)'
    BY <2>1 DEF PasswordStands, Exists, Kept
  <2>3. Superseded(e) => Superseded(e)'
    BY <1>1, SupersededKept
  <2> QED BY <2>1, <2>2, <2>3
<1>5. NewPasswordWorks'
  BY <1>4 DEF NewPasswordWorks, PasswordStands, Superseded, Exists
<1> QED BY <1>2, <1>3, <1>5

\* A step that writes the row of call c.
LEMMA WritingPassword ==
  ASSUME AloneInv, NEW c \in Call, c \notin wrote, wrote' = wrote \cup {c},
         \A d \in Call : d # c => Kept(d) /\ pc'[d] = pc[d],
         pc'[c] \notin Saving \cup {"insert"},
         pc'[c] = "enqueue" /\ op'[c] \in Inserts => entity'[c].password.secret = c,
         \A u \in Call : u # target'[c] => users'[u] = users[u],
         users'[target'[c]] # NoUser => users'[target'[c]].password.secret \in wrote',
         \A d \in Call : pc[d] \in Saving /\ d # c =>
            op'[c] # "reset" /\ users'[target'[c]] # NoUser,
         \A e \in wrote : op[e] = "reset" /\ target[e] = target'[c] =>
            PasswordStands(e)' \/ Superseded(e) \/ op'[c] = "delete" \/ "password" \in Means(c)',
         op'[c] = "reset" => PasswordStands(c)'
  PROVE  SecretInv' /\ LoneInv' /\ NewPasswordWorks'
<1>1. wrote \subseteq Call /\ \A d \in wrote : Kept(d) /\ d # c
  BY DEF AloneInv, AccountIInv, AccountTypeOK
<1>2. SecretInv'
  BY DEF AloneInv, SecretInv, Exists, Kept
<1>3. LoneInv'
  <2> SUFFICES ASSUME NEW d \in Call, d # c, pc'[d] \in Saving PROVE LoneSave(d)'
    BY DEF LoneInv
  <2>1. LoneSave(d) /\ Kept(d) /\ pc'[d] = pc[d]
    BY DEF AloneInv, LoneInv
  <2>2. target[d] \in Call
    BY DEF AloneInv, AccountIInv, AccountTypeOK
  <2>3. Exists(target[d])'
    BY <2>1, <2>2 DEF LoneSave, Exists, Kept
  <2>4. op'[c] # "reset"
    BY <2>1
  <2> QED BY <1>1, <2>1, <2>3, <2>4, LoneSaveKept
<1>4. ASSUME NEW e \in wrote, op'[e] = "reset" PROVE PasswordStands(e)' \/ Superseded(e)'
  <2>1. Kept(e) /\ op[e] = "reset" /\ (PasswordStands(e) \/ Superseded(e))
    BY <1>1, <1>4, NewPasswordMeans DEF AloneInv, Kept
  <2>2. Superseded(e) => Superseded(e)'
    BY <1>1, SupersededKept
  <2>3. CASE target[e] # target'[c]
    <3>1. target[e] \in Call
      BY <1>1 DEF AloneInv, AccountIInv, AccountTypeOK
    <3>2. PasswordStands(e) => PasswordStands(e)'
      BY <2>1, <2>3, <3>1 DEF PasswordStands, Exists, Kept
    <3> QED BY <2>1, <2>2, <3>2
  <2>4. CASE target[e] = target'[c]
    <3>1. ASSUME op'[c] = "delete" \/ "password" \in Means(c)' PROVE Superseded(e)'
      <4>1. c \notin seen[e] /\ c # e /\ target'[c] = target'[e]
        BY <1>1, <2>1, <2>4 DEF AloneInv, AccountIInv, TargetInv, Kept
      <4>2. c \in wrote' \ (seen'[e] \cup {e})
        BY <2>1, <4>1 DEF Kept
      <4> QED BY <3>1, <4>1, <4>2 DEF Superseded
    <3> QED BY <2>1, <2>2, <2>4, <3>1
  <2> QED BY <2>3, <2>4
<1>5. NewPasswordWorks'
  BY <1>4 DEF NewPasswordWorks, PasswordStands, Superseded, Exists
<1> QED BY <1>2, <1>3, <1>5

\* Only the first query lets a call in, when no other is in progress.
LEMMA OneCallStep ==
  ASSUME IsFiniteSet(Call), MaxInFlight <= 1, AccountTypeOK, OneCall, [AccountNext]_accountVars
  PROVE  OneCall'
<1> USE DEF AccountTypeOK
<1>1. ASSUME InFlight' \subseteq InFlight PROVE OneCall'
  BY <1>1 DEF OneCall
<1>2. ASSUME NEW c \in Call, NEW o, NEW u, NEW t, NEW row, NEW label, Begin(c, o, u, t, row, label)
      PROVE  OneCall'
  <2>1. InFlight = {}
    <3>1. IsFiniteSet(InFlight)
      BY FS_Subset DEF InFlight
    <3>2. Cardinality(InFlight) \in Nat
      BY <3>1, FS_CardinalityType
    <3>3. Cardinality(InFlight) = 0
      BY <1>2, <3>2, MaxInFlightAssumption DEF Begin
    <3> QED BY <3>1, <3>3, FS_EmptySet
  <2>2. InFlight' \subseteq {c}
    BY <1>2, <2>1 DEF Begin, Goto, InFlight
  <2> QED BY <2>2 DEF OneCall
<1>3. ASSUME NEW c \in Call, AccountBegins(c) PROVE OneCall'
  <2>1. ASSUME NEW u \in Call, UpdateUserInfo(c, u) PROVE OneCall'
    <3>1. InFlight' \subseteq InFlight
      BY <2>1 DEF UpdateUserInfo, Goto, InFlight, Working
    <3> QED BY <1>1, <3>1
  <2> QED BY <1>2, <1>3, <2>1 DEF AccountBegins, FindAddress, FindForgetful, FindCode, FindResetToken,
         FindDeleted
<1>4. ASSUME NEW c \in Call, AccountStep(c) PROVE OneCall'
  <2>1. pc[c] \in Working /\ \A d \in Call \ {c} : pc'[d] = pc[d]
    BY <1>4 DEF AccountStep, Insert, Enqueue, SelectForSave, UpdateChanged, Reinsert, Delete, Goto,
       Working
  <2> QED BY <1>1, <2>1 DEF InFlight
<1>5. CASE (\E t \in Call : Expire(t)) \/ UNCHANGED accountVars
  BY <1>1, <1>5 DEF Expire, accountVars, InFlight
<1> QED BY <1>3, <1>4, <1>5 DEF AccountNext

\* A lookup takes the password that the last reset left, or brings one of its own.
LEMMA BeginPassword ==
  ASSUME AloneInv, NEW c \in Call, NEW o, NEW u \in Call, NEW t, NEW row, NEW label,
         Begin(c, o, u, t, row, label),
         o \in Inserts => row.password.secret = c,
         label \notin Saving \/ label = "select",
         label = "select" => /\ o \notin Inserts /\ Exists(u)
                             /\ o = "reset" => row.password.secret = c
                             /\ o # "reset" => row.password = users[u].password
  PROVE  SecretInv' /\ LoneInv' /\ NewPasswordWorks'
<1>1. /\ c \notin wrote /\ \A d \in Call \ {c} : Kept(d) /\ pc'[d] = pc[d]
      /\ UNCHANGED <<users, wrote, changed>>
  BY DEF Begin, Goto, Kept, AloneInv, AccountIInv, AccountTypeOK, PlaceInv
<1>2. /\ op'[c] = o /\ target'[c] = u /\ entity'[c] = row /\ pc'[c] = label
  BY DEF Begin, Goto, AloneInv, AccountIInv, AccountTypeOK
<1>3. ASSUME label = "select" PROVE LoneSave(c)'
  <2>1. Exists(target[c])'
    BY <1>1, <1>2, <1>3 DEF Exists
  <2>2. ASSUME NEW e \in wrote', op'[e] = "reset", target'[e] = u, o # "reset"
        PROVE  row.password = entity'[e].password \/ Superseded(e)'
    <3>1. e \in wrote /\ Kept(e) /\ e \in Call /\ \A d \in wrote : Kept(d)
      BY <1>1, <2>2 DEF AloneInv, AccountIInv, AccountTypeOK
    <3>2. PasswordStands(e) \/ Superseded(e)
      BY <2>2, <3>1, NewPasswordMeans DEF AloneInv, Kept
    <3>3. Superseded(e) => Superseded(e)'
      BY <1>1, <3>1, SupersededKept
    <3>4. PasswordStands(e) => row.password = entity'[e].password
      BY <1>3, <2>2, <3>1 DEF PasswordStands, Kept
    <3> QED BY <3>2, <3>3, <3>4
  <2>3. o # "reset" => row.password.secret \in wrote
    BY <1>3 DEF AloneInv, SecretInv
  <2> QED BY <1>1, <1>2, <1>3, <2>1, <2>2, <2>3 DEF LoneSave
<1> QED BY <1>1, <1>2, <1>3, QuietPassword

LEMMA FirstPassword ==
  ASSUME AloneInv, NEW c \in Call,
         \/ \E o \in Inserts, e \in Email, s \in Status : FindAddress(c, o, e, s)
         \/ \E e \in Email : FindForgetful(c, e)
         \/ \E t \in Call : FindCode(c, t) \/ FindResetToken(c, t)
         \/ \E u \in Call : FindDeleted(c, u)
  PROVE  SecretInv' /\ LoneInv' /\ NewPasswordWorks'
<1> DEFINE Q == SecretInv' /\ LoneInv' /\ NewPasswordWorks'
<1> HIDE DEF Q
<1>1. \A u \in Call : Exists(u) => users[u] \in User
  BY DEF AloneInv, AccountIInv, AccountTypeOK, Exists
<1>2. ASSUME NEW o \in Inserts, NEW e \in Email, NEW s \in Status, FindAddress(c, o, e, s)
      PROVE  Q
  <2> DEFINE label == IF WithEmail(e) # {} THEN (IF o = "google" THEN "done" ELSE "rejected")
                      ELSE IF o = "google" THEN "enqueue" ELSE "insert"
  <2>1. NewUser(c, o, e, s).password.secret = c
    BY DEF NewUser
  <2>2. label \notin Saving
    BY DEF Saving
  <2>3. Begin(c, o, c, NoToken, NewUser(c, o, e, s), label)
    BY <1>2 DEF FindAddress
  <2> HIDE DEF label
  <2> QED BY <2>1, <2>2, <2>3, BeginPassword DEF Q, Saving
<1>3. ASSUME NEW e \in Email, FindForgetful(c, e) PROVE Q
  <2>1. ASSUME NEW u \in WithEmail(e),
               Begin(c, "forgot", u, NoToken, [users[u] EXCEPT !.reset = c], "select")
        PROVE  Q
    <3>1. u \in Call /\ Exists(u)
      BY DEF WithEmail
    <3>2. [users[u] EXCEPT !.reset = c].password = users[u].password
      BY <1>1, <3>1 DEF User
    <3> QED BY <2>1, <3>1, <3>2, BeginPassword DEF Q, Inserts, Saving
  <2>2. CASE Begin(c, "forgot", c, NoToken, NoUser, "rejected")
    BY <2>2, BeginPassword DEF Q, Inserts, Saving
  <2> QED BY <1>3, <2>1, <2>2 DEF FindForgetful
<1>4. ASSUME NEW t \in Call, FindCode(c, t) PROVE Q
  <2>1. ASSUME NEW u \in Call, Exists(u),
               Begin(c, "activate", u, t, [users[u] EXCEPT !.status = "ACTIVE", !.code = NoToken],
                     IF users[u].status = "ACTIVE" THEN "done" ELSE "select")
        PROVE  Q
    <3> DEFINE row == [users[u] EXCEPT !.status = "ACTIVE", !.code = NoToken]
               label == IF users[u].status = "ACTIVE" THEN "done" ELSE "select"
    <3>1. row.password = users[u].password
      BY <1>1, <2>1 DEF User
    <3>2. label \in {"done", "select"}
      OBVIOUS
    <3>3. Begin(c, "activate", u, t, row, label)
      BY <2>1
    <3> HIDE DEF row, label
    <3> QED BY <2>1, <3>1, <3>2, <3>3, BeginPassword DEF Q, Inserts, Saving
  <2>2. CASE Begin(c, "activate", c, t, NoUser, "rejected")
    BY <2>2, BeginPassword DEF Q, Inserts, Saving
  <2> QED BY <1>4, <2>1, <2>2 DEF FindCode
<1>5. ASSUME NEW t \in Call, FindResetToken(c, t) PROVE Q
  <2>1. ASSUME NEW u \in Call, Exists(u),
               Begin(c, "reset", u, t,
                     [users[u] EXCEPT !.password = [secret |-> c, hashed |-> TRUE], !.reset = NoToken],
                     "select")
        PROVE  Q
    <3> DEFINE row == [users[u] EXCEPT !.password = [secret |-> c, hashed |-> TRUE], !.reset = NoToken]
    <3>1. row.password.secret = c
      BY <1>1, <2>1 DEF User
    <3>2. Begin(c, "reset", u, t, row, "select")
      BY <2>1
    <3> HIDE DEF row
    <3> QED BY <2>1, <3>1, <3>2, BeginPassword DEF Q, Inserts
  <2>2. CASE Begin(c, "reset", c, t, NoUser, "rejected")
    BY <2>2, BeginPassword DEF Q, Inserts, Saving
  <2> QED BY <1>5, <2>1, <2>2 DEF FindResetToken
<1>6. ASSUME NEW u \in Call, FindDeleted(c, u) PROVE Q
  BY <1>6, BeginPassword DEF FindDeleted, Q, Inserts, Saving
<1> QED BY <1>2, <1>3, <1>4, <1>5, <1>6 DEF Q

\* The steps of a call in progress, which is then the only one.
LEMMA LaterPassword ==
  ASSUME AloneInv, NEW c \in Call, AccountStep(c)
  PROVE  SecretInv' /\ LoneInv' /\ NewPasswordWorks'
<1> USE DEF AloneInv, AccountIInv
<1> DEFINE Q == SecretInv' /\ LoneInv' /\ NewPasswordWorks'
           u == target[c]
<1> HIDE DEF Q
<1>1. pc[c] \in Working /\ UNCHANGED callVars /\ u \in Call
  BY DEF AccountStep, Insert, Enqueue, SelectForSave, UpdateChanged, Reinsert, Delete, Working,
     AccountTypeOK
<1>2. \A d \in Call : pc[d] \in Saving => d = c
  BY <1>1 DEF OneCall, InFlight, Saving, Working
<1>3. ASSUME UNCHANGED <<users, wrote, changed>>, NEW label, Goto(c, label),
             label \in Finished \/ (label = "insert" /\ pc[c] = "enqueue")
      PROVE  Q
  <2>1. pc'[c] = label /\ Kept(c) /\ \A d \in Call \ {c} : Kept(d) /\ pc'[d] = pc[d]
    BY <1>1, <1>3, SameCall
  <2>2. pc'[c] \notin Saving
    BY <1>3, <2>1 DEF Finished, Saving
  <2>3. pc'[c] \in {"insert", "enqueue"} /\ op'[c] \in Inserts => entity'[c].password.secret = c
    BY <1>3, <2>1 DEF SecretInv, Kept, Finished
  <2> QED BY <1>3, <2>1, <2>2, <2>3, QuietPassword DEF Q
<1>4. ASSUME NEW label, Goto(c, label), label \in {"done", "enqueue"},
             label = "enqueue" /\ op[c] \in Inserts => pc[c] = "insert",
             pc[c] \in Saving \cup {"insert", "delete"},
             wrote' = wrote \cup {c}, UNCHANGED changed,
             \A v \in Call : v # u => users'[v] = users[v],
             users'[u] # NoUser => users'[u].password.secret \in wrote',
             \A e \in wrote : op[e] = "reset" /\ target[e] = u =>
               \/ users'[u] # NoUser /\ users'[u].password = entity[e].password
               \/ Superseded(e) \/ op[c] = "delete" \/ op[c] = "reset",
             op[c] = "reset" => users'[u] # NoUser /\ users'[u].password = entity[c].password
      PROVE  Q
  <2>1. pc'[c] = label /\ Kept(c) /\ \A d \in Call \ {c} : Kept(d) /\ pc'[d] = pc[d]
    BY <1>1, <1>4, SameCall
  <2>2. c \notin wrote
    BY <1>4 DEF PlaceInv, Saving
  <2>3. op'[c] = "reset" => "password" \in Means(c)' /\ PasswordStands(c)'
    BY <1>4, <2>1 DEF Means, Inserts, PasswordStands, Exists, Kept
  <2>4. pc'[c] = "enqueue" /\ op'[c] \in Inserts => entity'[c].password.secret = c
    BY <1>4, <2>1 DEF SecretInv, Kept
  <2>5. \A e \in wrote : op[e] = "reset" /\ target[e] = u =>
          PasswordStands(e)' \/ Superseded(e) \/ op'[c] = "delete" \/ "password" \in Means(c)'
    <3>1. \A e \in wrote : Kept(e)
      BY <2>1 DEF AccountTypeOK
    <3> QED BY <1>4, <2>1, <2>3, <3>1 DEF PasswordStands, Exists, Kept
  <2>6. pc'[c] \notin Saving \cup {"insert"}
    BY <1>4, <2>1 DEF Saving
  <2>7. target'[c] = u
    BY <2>1 DEF Kept
  <2> QED BY <1>2, <1>4, <2>1, <2>2, <2>3, <2>4, <2>5, <2>6, <2>7, WritingPassword DEF Q
<1>5. CASE Insert(c)
  <2>1. u = c /\ entity[c].password.secret = c /\ op[c] \in Inserts
    BY <1>5 DEF Insert, PlaceInv, TargetInv, SecretInv, Inserts
  <2>2. \A e \in wrote : target[e] # c
    BY <1>5 DEF Insert, PlaceInv, TargetInv, AccountTypeOK
  <2>3. CASE UNCHANGED <<users, wrote>> /\ Goto(c, "failed")
    BY <1>3, <1>5, <2>3 DEF Insert, Finished, Q
  <2>4. CASE /\ users' = [users EXCEPT ![c] = entity[c]] /\ wrote' = wrote \cup {c}
             /\ Goto(c, IF op[c] = "register" THEN "enqueue" ELSE "done")
    <3>1. users'[c] = entity[c] /\ \A v \in Call : v # c => users'[v] = users[v]
      BY <2>4 DEF AccountTypeOK
    <3>2. pc[c] = "insert" /\ UNCHANGED changed
      BY <1>5 DEF Insert
    <3>3. op[c] # "reset"
      BY <2>1 DEF Inserts
    <3> QED BY <1>4, <2>1, <2>2, <2>4, <3>1, <3>2, <3>3 DEF Q
  <2> QED BY <1>5, <2>3, <2>4 DEF Insert
<1>6. CASE Enqueue(c)
  BY <1>3, <1>6 DEF Enqueue, Finished, Q
<1>7. CASE SelectForSave(c)
  <2>1. /\ UNCHANGED <<users, wrote>> /\ pc[c] = "select"
        /\ \A d \in Call \ {c} : Kept(d) /\ pc'[d] = pc[d]
        /\ op'[c] = op[c] /\ target'[c] = u /\ entity'[c] = entity[c] /\ seen'[c] = seen[c]
    BY <1>7 DEF SelectForSave, Goto, Kept, callVars, AccountTypeOK
  <2>2. LoneSave(c) /\ c \notin wrote /\ op[c] \in {"activate", "forgot", "reset"}
    BY <2>1 DEF LoneInv, Saving, PlaceInv
  <2>3. /\ Exists(u) /\ pc'[c] = "write"
        /\ changed'[c] = {col \in Column : entity[c][col] # users[u][col]}
    BY <1>7, <2>2 DEF SelectForSave, LoneSave, Goto, AccountTypeOK
  <2>4. op[c] = "reset" => "password" \in changed'[c]
    <3>1. users[u].password.secret \in wrote
      BY <1>1, <2>3 DEF SecretInv
    <3>2. op[c] = "reset" => entity[c].password # users[u].password
      BY <2>2, <3>1 DEF LoneSave
    <3> QED BY <2>3, <3>2 DEF Column
  <2>5. \A e \in wrote : Kept(e)
    BY <2>1, <2>2 DEF AccountTypeOK
  <2>6. ASSUME NEW e \in wrote, Superseded(e) PROVE Superseded(e)'
    BY <2>1, <2>5, <2>6, SupersededKept
  <2>7. LoneSave(c)'
    BY <2>1, <2>2, <2>3, <2>4, <2>5, <2>6 DEF LoneSave, Exists, Kept
  <2> QED BY <2>1, <2>2, <2>3, <2>7, QuietPassword DEF Q
<1>8. CASE UpdateChanged(c)
  <2>1. /\ LoneSave(c) /\ c \notin wrote /\ pc[c] = "write" /\ UNCHANGED changed
        /\ op[c] \in {"activate", "forgot", "reset"} /\ entity[c] \in User
    BY <1>8 DEF UpdateChanged, LoneInv, Saving, PlaceInv
  <2>2. CASE UNCHANGED <<users, wrote>> /\ Goto(c, "failed")
    BY <1>3, <2>1, <2>2 DEF Finished, Q
  <2>3. CASE /\ users' = IF Exists(u)
                         THEN [users EXCEPT ![u] = [col \in Column |->
                                 IF col \in changed[c] THEN entity[c][col] ELSE @[col]]]
                         ELSE users
             /\ wrote' = wrote \cup {c}
             /\ Goto(c, AfterSave(c))
    <3>1. Exists(u) /\ users[u] \in User
      BY <1>1, <2>1 DEF LoneSave, Exists, AccountTypeOK
    <3>2. /\ users'[u] = [col \in Column |-> IF col \in changed[c] THEN entity[c][col] ELSE users[u][col]]
          /\ \A v \in Call : v # u => users'[v] = users[v]
      BY <1>1, <2>3, <3>1 DEF AccountTypeOK
    <3>3. users'[u].password = IF "password" \in changed[c] THEN entity[c].password ELSE users[u].password
      BY <3>2 DEF Column
    <3>4. users'[u] # NoUser
      <4>1. DOMAIN users'[u] = Column /\ DOMAIN NoUser = {"email"}
        BY <3>2 DEF NoUser
      <4> QED BY <4>1 DEF Column
    <3>5. users'[u].password.secret \in wrote'
      BY <1>1, <2>1, <2>3, <3>1, <3>3 DEF LoneSave, SecretInv
    <3>6. ASSUME NEW e \in wrote, op[e] = "reset", target[e] = u, op[c] # "reset"
          PROVE  users'[u].password = entity[e].password \/ Superseded(e)
      <4>1. entity[c].password = entity[e].password \/ Superseded(e)
        BY <2>1, <3>6 DEF LoneSave
      <4>2. users[u].password = entity[e].password \/ Superseded(e)
        BY <3>6, NewPasswordMeans DEF PasswordStands
      <4> QED BY <3>3, <4>1, <4>2
    <3>7. op[c] = "reset" => users'[u].password = entity[c].password
      BY <2>1, <3>3 DEF LoneSave
    <3>8. AfterSave(c) \in {"done", "enqueue"} /\ op[c] \notin Inserts /\ pc[c] \in Saving
      BY <2>1 DEF AfterSave, Inserts, Saving
    <3> QED BY <1>4, <2>1, <2>3, <3>2, <3>4, <3>5, <3>6, <3>7, <3>8 DEF Q
  <2> QED BY <1>8, <2>2, <2>3 DEF UpdateChanged
<1>9. ~Reinsert(c)
  BY DEF Reinsert, LoneInv, LoneSave, Saving
<1>10. CASE Delete(c)
  <2>1. op[c] = "delete" /\ pc[c] = "delete" /\ UNCHANGED changed
    BY <1>10 DEF Delete, PlaceInv
  <2>2. CASE UNCHANGED <<users, wrote>> /\ Goto(c, "failed")
    BY <1>3, <2>1, <2>2 DEF Finished, Q
  <2>3. CASE /\ users' = [users EXCEPT ![u] = NoUser] /\ wrote' = wrote \cup {c} /\ Goto(c, "done")
    <3>1. users'[u] = NoUser /\ \A v \in Call : v # u => users'[v] = users[v]
      BY <1>1, <2>3 DEF AccountTypeOK
    <3> QED BY <1>4, <2>1, <2>3, <3>1 DEF Q
  <2> QED BY <1>10, <2>2, <2>3 DEF Delete
<1> QED BY <1>5, <1>6, <1>7, <1>8, <1>9, <1>10 DEF AccountStep, Q

\* An administrator's update keeps the password, or is there to change it.
LEMMA UserInfoPassword ==
  ASSUME AloneInv, NEW c \in Call, NEW u \in Call, UpdateUserInfo(c, u)
  PROVE  SecretInv' /\ LoneInv' /\ NewPasswordWorks'
<1> USE DEF AloneInv, AccountIInv
<1>1. PICK e \in Email, s \in Status, p \in {users[u].password, [secret |-> c, hashed |-> FALSE]} :
        /\ users' = [users EXCEPT ![u] = Patch(u, e, s, p)]
        /\ changed' = [changed EXCEPT ![c] =
                         {col \in Column : Patch(u, e, s, p)[col] # users[u][col]}]
  BY DEF UpdateUserInfo
<1> DEFINE row == Patch(u, e, s, p)
<1>2. Exists(u) /\ users[u] \in User /\ c \notin wrote /\ pc[c] = "idle"
  BY DEF UpdateUserInfo, Exists, AccountTypeOK, PlaceInv
<1>3. row.password = p /\ row # NoUser
  <2>1. row.password = p /\ DOMAIN row = DOMAIN users[u]
    BY <1>2 DEF Patch, User
  <2>2. DOMAIN users[u] # {"email"} /\ DOMAIN NoUser = {"email"}
    BY <1>2 DEF User, NoUser
  <2> QED BY <2>1, <2>2
<1>4. /\ users'[u] = row /\ \A v \in Call : v # u => users'[v] = users[v]
      /\ changed'[c] = {col \in Column : row[col] # users[u][col]}
  BY <1>1 DEF AccountTypeOK
<1> HIDE DEF row
<1>5. /\ op'[c] = "update" /\ target'[c] = u /\ pc'[c] = "done" /\ wrote' = wrote \cup {c}
      /\ \A d \in Call : d # c => Kept(d) /\ pc'[d] = pc[d]
  BY DEF UpdateUserInfo, Goto, Kept, AccountTypeOK
<1>6. p.secret \in wrote'
  BY <1>2, <1>5 DEF SecretInv
<1>7. ASSUME NEW d \in wrote, op[d] = "reset", target[d] = u
      PROVE  PasswordStands(d)' \/ Superseded(d) \/ "password" \in Means(c)'
  <2>1. PasswordStands(d) \/ Superseded(d)
    BY <1>7, NewPasswordMeans
  <2>2. Kept(d)
    BY <1>2, <1>5 DEF AccountTypeOK
  <2>3. row.password = users[u].password \/ "password" \in Means(c)'
    BY <1>4, <1>5 DEF Means, Inserts, Column
  <2>4. PasswordStands(d) /\ row.password = users[u].password => PasswordStands(d)'
    BY <1>3, <1>4, <1>7, <2>2 DEF PasswordStands, Exists, Kept
  <2> QED BY <2>1, <2>3, <2>4
<1> QED BY <1>2, <1>3, <1>4, <1>5, <1>6, <1>7, WritingPassword DEF Saving

LEMMA AloneInit == AccountInit => AloneInv
<1>1. AccountInit => OneCall /\ SecretInv /\ LoneInv /\ NewPasswordWorks
  BY DEF AccountInit, OneCall, InFlight, Working, SecretInv, Exists, LoneInv, Saving,
     NewPasswordWorks
<1> QED BY <1>1, AccountInvInit DEF AloneInv

LEMMA AloneStep ==
  ASSUME IsFiniteSet(Call), MaxInFlight <= 1, AloneInv, [AccountNext]_accountVars
  PROVE  AloneInv'
<1>1. AccountIInv' /\ OneCall'
  BY AccountInvStep, OneCallStep DEF AloneInv, AccountIInv
<1>2. ASSUME NEW c \in Call, AccountBegins(c) PROVE SecretInv' /\ LoneInv' /\ NewPasswordWorks'
  BY <1>2, FirstPassword, UserInfoPassword DEF AccountBegins
<1>3. ASSUME NEW c \in Call, AccountStep(c) PROVE SecretInv' /\ LoneInv' /\ NewPasswordWorks'
  BY <1>3, LaterPassword
<1>4. ASSUME UNCHANGED <<users, pc, callVars, changed, wrote>>
      PROVE  SecretInv' /\ LoneInv' /\ NewPasswordWorks'
  BY <1>4 DEF callVars, AloneInv, SecretInv, LoneInv, LoneSave, NewPasswordWorks, Superseded, Means,
     Exists
<1>5. ASSUME (\E t \in Call : Expire(t)) \/ UNCHANGED accountVars
      PROVE  SecretInv' /\ LoneInv' /\ NewPasswordWorks'
  BY <1>4, <1>5 DEF Expire, accountVars, callVars
<1> QED BY <1>1, <1>2, <1>3, <1>5 DEF AloneInv, AccountNext

\* With one call of the handlers of an account at a time, the password of a reset
\* works until a later call changes it or deletes the account, however the updates
\* of administrators, which are not held back, come between its queries.  The run
\* `lost_password` shows what a second call in progress does to it.
THEOREM OneCallKeepsNewPassword ==
  ASSUME IsFiniteSet(Call), MaxInFlight <= 1
  PROVE  AccountSpec => []NewPasswordWorks
<1>1. AloneInv /\ [AccountNext]_accountVars => AloneInv'
  BY AloneStep
<1>2. AloneInv => NewPasswordWorks
  BY DEF AloneInv
<1> QED BY <1>1, <1>2, AloneInit, PTL DEF AccountSpec

\* The account that a call deleted is not there.
DeletedIsGone == \A c \in wrote : op[c] = "delete" => ~Exists(target[c])

LEMMA DeletedStep ==
  ASSUME AloneInv, AccountIInv', DeletedIsGone, [AccountNext]_accountVars
  PROVE  DeletedIsGone'
<1> USE DEF AloneInv, AccountIInv, AccountTypeOK
<1>1. ASSUME NEW c \in Call, \A d \in Call : d # c => Kept(d),
             c \in wrote => Kept(c), wrote' \subseteq wrote \cup {c},
             \A e \in wrote : Exists(target[e])' => Exists(target[e]),
             c \in wrote' \ wrote /\ op'[c] = "delete" => ~Exists(target[c])'
      PROVE  DeletedIsGone'
  <2> SUFFICES ASSUME NEW e \in wrote', op'[e] = "delete" PROVE ~Exists(target[e])'
    BY DEF DeletedIsGone
  <2>1. CASE e \in wrote
    <3>1. e \in Call /\ Kept(e)
      BY <1>1, <2>1
    <3>2. ~Exists(target[e])
      BY <2>1, <3>1 DEF DeletedIsGone, Kept
    <3> QED BY <1>1, <2>1, <3>2
  <2>2. CASE e \notin wrote
    BY <1>1, <2>2
  <2> QED BY <2>1, <2>2
<1>2. ASSUME UNCHANGED <<users, wrote>>, NEW c \in Call, \A d \in Call : d # c => Kept(d),
             c \in wrote => Kept(c)
      PROVE  DeletedIsGone'
  BY <1>1, <1>2 DEF Exists, Kept
<1>3. ASSUME NEW c \in Call, NEW o, NEW u, NEW t, NEW row, NEW label, Begin(c, o, u, t, row, label)
      PROVE  DeletedIsGone'
  <2>1. c \notin wrote /\ UNCHANGED <<users, wrote>> /\ \A d \in Call : d # c => Kept(d)
    BY <1>3 DEF Begin, PlaceInv, Kept
  <2> QED BY <1>2, <2>1
<1>4. ASSUME NEW c \in Call, NEW u \in Call, UpdateUserInfo(c, u) PROVE DeletedIsGone'
  <2>1. /\ c \notin wrote /\ wrote' = wrote \cup {c} /\ op'[c] = "update"
        /\ \A d \in Call : d # c => Kept(d)
    BY <1>4 DEF UpdateUserInfo, PlaceInv, Kept
  <2>2. Exists(u) /\ \A v \in Call : v # u => users'[v] = users[v]
    BY <1>4 DEF UpdateUserInfo
  <2>3. \A e \in wrote : Exists(target[e])' => Exists(target[e])
    BY <2>1, <2>2 DEF Exists, Kept
  <2> QED BY <1>1, <2>1, <2>3
<1>5. ASSUME NEW c \in Call, AccountStep(c) PROVE DeletedIsGone'
  <2>1. /\ UNCHANGED callVars /\ \A d \in Call : d # c => Kept(d)
        /\ wrote' \subseteq wrote \cup {c}
    BY <1>5 DEF AccountStep, Insert, Enqueue, SelectForSave, UpdateChanged, Reinsert, Delete, callVars,
       Kept
  <2>2. CASE UNCHANGED <<users, wrote>>
    <3>1. c \in wrote => Kept(c)
      BY <1>5, <2>1 DEF AccountStep, Insert, Enqueue, SelectForSave, UpdateChanged, Reinsert, Delete,
         callVars, Kept, PlaceInv
    <3> QED BY <1>2, <2>1, <2>2, <3>1
  <2>3. CASE ~UNCHANGED <<users, wrote>>
    <3>1. c \notin wrote /\ (Insert(c) \/ UpdateChanged(c) \/ Delete(c))
      BY <1>5, <2>3 DEF AccountStep, Insert, Enqueue, SelectForSave, UpdateChanged, Reinsert, Delete,
         PlaceInv, LoneInv, LoneSave, Saving
    <3>2. ASSUME NEW e \in wrote, Exists(target[e])' PROVE Exists(target[e])
      <4>1. e \in Call /\ target[e] \in wrote /\ target[e] \in Call /\ target'[e] = target[e]
        BY <2>1 DEF TargetInv, callVars
      <4>2. CASE Insert(c)
        BY <3>1, <3>2, <4>1, <4>2 DEF Insert, Exists
      <4>3. CASE UpdateChanged(c)
        <5>1. Exists(target[c])
          BY <4>3 DEF UpdateChanged, LoneInv, LoneSave, Saving
        <5> QED BY <3>2, <4>1, <4>3, <5>1 DEF UpdateChanged, Exists
      <4>4. CASE Delete(c)
        BY <3>2, <4>1, <4>4 DEF Delete, Exists
      <4> QED BY <3>1, <4>2, <4>3, <4>4
    <3>3. op'[c] = "delete" => ~Exists(target[c])'
      <4>1. op'[c] = op[c] /\ target'[c] = target[c] /\ target[c] \in Call
        BY <2>1 DEF callVars
      <4>2. op[c] = "delete" => Delete(c)
        BY <3>1 DEF Insert, UpdateChanged, PlaceInv, Saving, Inserts
      <4> QED BY <2>3, <4>1, <4>2 DEF Delete, Exists
    <3> QED BY <1>1, <2>1, <3>1, <3>2, <3>3
  <2> QED BY <2>2, <2>3
<1>6. CASE (\E t \in Call : Expire(t)) \/ UNCHANGED accountVars
  BY <1>6 DEF Expire, accountVars, callVars, DeletedIsGone, Exists
<1>7. ASSUME NEW c \in Call, AccountBegins(c) PROVE DeletedIsGone'
  BY <1>3, <1>4, <1>7 DEF AccountBegins, FindAddress, FindForgetful, FindCode, FindResetToken,
     FindDeleted
<1> QED BY <1>5, <1>6, <1>7 DEF AccountNext

\* With one call at a time no save brings a deleted account back: its row is there
\* when the save looks for it.
THEOREM OneCallDeletesForGood ==
  ASSUME IsFiniteSet(Call), MaxInFlight <= 1
  PROVE  AccountSpec => []DeletedIsGone
<1>1. AloneInv /\ [AccountNext]_accountVars => AloneInv'
  BY AloneStep
<1>2. AloneInv /\ AloneInv' /\ DeletedIsGone /\ [AccountNext]_accountVars => DeletedIsGone'
  BY DeletedStep DEF AloneInv
<1>3. AccountInit => DeletedIsGone
  BY DEF AccountInit, DeletedIsGone
<1> QED BY <1>1, <1>2, <1>3, AloneInit, PTL DEF AccountSpec
=============================================================================
