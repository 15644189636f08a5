--------------------------- MODULE SessionProofs ---------------------------
(***************************************************************************)
(* Theorems of Session for every set of logins and requests, every         *)
(* lifetime of tokens and every clock.                                     *)
(***************************************************************************)
EXTENDS Session, TLAPS

-----------------------------------------------------------------------------
(* Whole seconds. *)

\* A quotient is the number of whole divisors in a.
LEMMA DivBounds ==
  ASSUME NEW a \in Nat, NEW b \in Nat \ {0}
  PROVE  /\ a \div b \in Nat
         /\ (a \div b) * b <= a
         /\ a < (a \div b) * b + b
  OBVIOUS

\* Multiplication by a natural number keeps the order.
LEMMA TimesMonotone ==
  ASSUME NEW a \in Nat, NEW b \in Nat, NEW c \in Nat, a <= b
  PROVE  a * c <= b * c
  OBVIOUS

\* A clock that has reached c seconds counts at least c.
LEMMA DivReaches ==
  ASSUME NEW a \in Nat, NEW b \in Nat \ {0}, NEW c \in Nat, c * b <= a
  PROVE  c <= a \div b
<1> DEFINE d == a \div b
<1>1. d \in Nat /\ a < d * b + b
  BY DivBounds
<1>2. d < c => (d + 1) * b <= c * b
  <2> HAVE d < c
  <2> QED BY <1>1, TimesMonotone
<1>3. (d + 1) * b = d * b + b
  BY <1>1
<1>4. c * b \in Nat /\ d * b \in Nat
  BY <1>1
<1> HIDE DEF d
<1>5. ~(d < c)
  BY <1>1, <1>2, <1>3, <1>4
<1> QED BY <1>1, <1>5 DEF d

\* The clock and its whole seconds are natural numbers.
LEMMA SecondsType == SessionTypeOK => now \in Nat /\ Seconds \in Nat
<1> SUFFICES ASSUME SessionTypeOK PROVE now \in Nat /\ Seconds \in Nat
  OBVIOUS
<1>1. now \in Nat
  BY TimeAssumption DEF SessionTypeOK
<1> QED BY <1>1, TimeAssumption, DivBounds DEF Seconds

\* A tick never turns the seconds back.
LEMMA SecondsGrow ==
  ASSUME NEW a \in Nat, NEW b \in Nat \ {0}
  PROVE  a \div b <= (a + 1) \div b
<1> DEFINE c == a \div b
<1>1. c \in Nat /\ c * b <= a
  BY DivBounds
<1>2. c * b <= a + 1 /\ a + 1 \in Nat
  <2>1. c * b \in Nat
    BY <1>1
  <2> QED BY <1>1, <2>1
<1> HIDE DEF c
<1>3. c <= (a + 1) \div b
  BY <1>1, <1>2, DivReaches
<1> QED BY <1>3 DEF c

-----------------------------------------------------------------------------
(* Types. *)

\* jwtService.sign changes the token of its login only, and signs the role.
LEMMA SignType ==
  ASSUME SessionTypeOK, NEW l \in Login, NEW row \in Account, Sign(l, row)
  PROVE  /\ token' = [token EXCEPT ![l] = token'[l]]
         /\ token'[l] \in Token /\ token'[l] # NoToken
         /\ token'[l].role = row.role
<1>1. Seconds + Lifetime \in Nat
  BY SecondsType, TimeAssumption
<1>2. token'[l] = [role |-> row.role, exp |-> Seconds + Lifetime]
  BY DEF Sign, SessionTypeOK
<1>3. row.role \in Role /\ "none" \notin Role
  BY DEF Account, Role
<1> QED BY <1>1, <1>2, <1>3 DEF Sign, Token, NoToken, SessionTypeOK

\* A request whose token a guard looks at bears the token of a login.
LEMMA BearerType ==
  ASSUME SessionTypeOK, NEW q \in Http, bears[q] # Nobody, bears[q].route \in Guarded
  PROVE  bears[q].login \in Login
<1>1. bears[q] \notin [route : Open]
  BY DEF Guarded
<1> QED BY <1>1 DEF SessionTypeOK

\* What is known of a request under way.
LEMMA Bearer ==
  ASSUME SessionTypeOK, RequestInv, NEW q \in Http, reqPc[q] \notin {"idle", "admitted"}
  PROVE  /\ bears[q] # Nobody /\ bears[q].route \in Guarded
         /\ bears[q].login \in Login /\ Signed(bears[q].login)
<1>1. bears[q] # Nobody /\ bears[q].route \in Guarded /\ Signed(bears[q].login)
  BY DEF RequestInv, RequestOk
<1> QED BY <1>1, BearerType

\* The seconds left may be negative.
LEMMA TtlType ==
  ASSUME SessionTypeOK, NEW l \in Login
  PROVE  TimeToExpire(l) \in Int
<1>1. token[l].exp \in Nat
  BY DEF SessionTypeOK, Token, NoToken
<1> QED BY <1>1, SecondsType DEF TimeToExpire

\* Every variable keeps its type.
LEMMA TypeInit == Init => SessionTypeOK
<1> SUFFICES ASSUME Init PROVE SessionTypeOK
  OBVIOUS
<1>1. now \in 0 .. MaxTime /\ changes \in 0 .. MaxChanges
  BY TimeAssumption DEF Init
<1>2. token \in [Login -> Token \cup {NoToken}]
  BY DEF Init
<1> QED BY <1>1, <1>2 DEF Init, SessionTypeOK, GuardPc, Answered

\* A step keeps the types: what logout hands to the cache is positive.
LEMMA TypeStep == SessionIInv /\ [Next]_vars => SessionTypeOK'
<1> SUFFICES ASSUME SessionTypeOK, LoginInv, RequestInv, [Next]_vars
             PROVE  SessionTypeOK'
  BY DEF SessionIInv
<1>1. ASSUME NEW l \in Login, NEW k \in Kind, FindUser(l, k) PROVE SessionTypeOK'
  <2>1. CASE MayEnter(k, account) /\ k.entry = "google"
    <3>1. account \in Account
      BY <2>1 DEF MayEnter, SessionTypeOK
    <3>2. token' \in [Login -> Token \cup {NoToken}]
      BY <1>1, <2>1, <3>1, SignType DEF FindUser, SessionTypeOK
    <3> QED BY <1>1, <2>1, <3>2 DEF FindUser, Goto, SessionTypeOK, requestVars
  <2>2. CASE ~(MayEnter(k, account) /\ k.entry = "google")
    BY <1>1, <2>2 DEF FindUser, Goto, SessionTypeOK, requestVars
  <2> QED BY <2>1, <2>2
<1>2. ASSUME NEW l \in Login, ComparePassword(l) PROVE SessionTypeOK'
  <2>1. CASE kind[l].password = read[l].password
    <3>1. read[l] \in Account
      BY <1>2 DEF ComparePassword, LoginInv, MayEnter, SessionTypeOK
    <3>2. token' \in [Login -> Token \cup {NoToken}]
      BY <1>2, <2>1, <3>1, SignType DEF ComparePassword, SessionTypeOK
    <3> QED BY <1>2, <2>1, <3>2 DEF ComparePassword, Goto, SessionTypeOK, requestVars
  <2>2. CASE kind[l].password # read[l].password
    BY <1>2, <2>2 DEF ComparePassword, Goto, SessionTypeOK, requestVars
  <2> QED BY <2>1, <2>2
<1>3. ASSUME NEW q \in Http, Arrive(q) PROVE SessionTypeOK'
  <2>1. ASSUME NEW l \in Login, NEW route \in Guarded, GuardVerify(q, l, route)
        PROVE  SessionTypeOK'
    BY <2>1 DEF GuardVerify, ReqGoto, GuardPc, Answered, SessionTypeOK, loginVars
  <2>2. ASSUME NEW route \in Open, NoGuard(q, route) PROVE SessionTypeOK'
    BY <2>2 DEF NoGuard, ReqGoto, GuardPc, Answered, SessionTypeOK, loginVars
  <2> QED BY <1>3, <2>1, <2>2 DEF Arrive
<1>4. ASSUME NEW q \in Http, GuardLookup(q) PROVE SessionTypeOK'
  BY <1>4 DEF GuardLookup, ReqGoto, GuardPc, Answered, SessionTypeOK, loginVars
<1>5. ASSUME NEW q \in Http, Logout(q) PROVE SessionTypeOK'
  <2>1. bears[q].login \in Login
    BY <1>5, Bearer DEF Logout
  <2>2. CASE NeedsNoEntry(bears[q].login)
    BY <1>5, <2>1, <2>2 DEF Logout, ReqGoto, GuardPc, Answered, SessionTypeOK, loginVars
  <2>3. CASE ~NeedsNoEntry(bears[q].login)
    <3>1. TimeToExpire(bears[q].login) \in Nat
      BY <2>1, <2>3, TtlType DEF NeedsNoEntry
    <3> QED BY <1>5, <2>3, <3>1
        DEF Logout, ReqGoto, GuardPc, Answered, SessionTypeOK, loginVars
  <2> QED BY <2>2, <2>3
<1>6. ASSUME NEW q \in Http, SetDenied(q) PROVE SessionTypeOK'
  <2>1. bears[q].login \in Login
    BY <1>6, Bearer DEF SetDenied
  <2>2. ttl[q] \in Nat
    BY DEF SessionTypeOK
  <2>3. Until(q) \in Nat
    BY <2>2, SecondsType DEF Until
  <2>4. denied' \in [Process -> [Login -> Nat \cup {NoEntry}]] /\ revoked' \subseteq Login
    <3>1. CASE denied' = [denied EXCEPT !["auth"][bears[q].login] = Until(q)]
      BY <1>6, <2>1, <2>3, <3>1 DEF SetDenied, SessionTypeOK
    <3>2. CASE denied' = denied
      BY <1>6, <2>1, <3>2 DEF SetDenied, SessionTypeOK
    <3> QED BY <1>6, <3>1, <3>2 DEF SetDenied
  <2> QED BY <1>6, <2>4 DEF SetDenied, ReqGoto, GuardPc, Answered, SessionTypeOK, loginVars
<1>7. CASE ChangeAccount
  BY <1>7, TimeAssumption DEF ChangeAccount, SessionTypeOK, loginVars, requestVars
<1>8. CASE Tick
  BY <1>8, TimeAssumption DEF Tick, SessionTypeOK, loginVars, requestVars
<1>9. CASE UNCHANGED vars
  BY <1>9 DEF vars, SessionTypeOK
<1> QED BY <1>1, <1>2, <1>3, <1>4, <1>5, <1>6, <1>7, <1>8, <1>9
    DEF Next, LoginStep, RequestStep

-----------------------------------------------------------------------------
(* Logins. *)

\* A login signs for a row that may enter, with the password of that row.
LEMMA LoginStepKeeps ==
  ASSUME SessionIInv, NEW l \in Login, LoginStep(l)
  PROVE  LoginInv' /\ ~Signed(l) /\ \A m \in Login \ {l} : token'[m] = token[m]
<1>0. SessionTypeOK /\ LoginInv
  BY DEF SessionIInv
<1>1. /\ ~Signed(l)
      /\ \A m \in Login \ {l} : /\ token'[m] = token[m] /\ pc'[m] = pc[m]
                               /\ kind'[m] = kind[m] /\ read'[m] = read[m]
  BY <1>0 DEF LoginStep, FindUser, ComparePassword, Goto, Sign, LoginInv, SessionTypeOK
<1>2. ASSUME NEW m \in Login \ {l}
      PROVE  /\ pc'[m] = "compare" => MayEnter(kind[m], read[m])'
             /\ Signed(m)' => pc'[m] = "done" /\ Entitled(m)'
  BY <1>0, <1>1 DEF LoginInv, Signed, Entitled, MayEnter
<1> DEFINE Kept == /\ pc'[l] = "compare" => MayEnter(kind[l], read[l])'
                   /\ Signed(l)' => pc'[l] = "done" /\ Entitled(l)'
<1>3. Kept
  <2>1. ASSUME NEW k \in Kind, FindUser(l, k), MayEnter(k, account), k.entry = "google"
        PROVE  Kept
    <3>1. account \in Account
      BY <1>0, <2>1 DEF MayEnter, SessionTypeOK
    <3>2. kind'[l] = k /\ read'[l] = account /\ pc'[l] = "done" /\ "google" \notin Role
      BY <1>0, <2>1 DEF FindUser, Goto, SessionTypeOK, Role
    <3>3. token'[l].role = account.role
      BY <1>0, <2>1, <3>1, SignType DEF FindUser
    <3> QED BY <2>1, <3>2, <3>3 DEF Entitled, MayEnter
  <2>2. ASSUME NEW k \in Kind, FindUser(l, k), ~(MayEnter(k, account) /\ k.entry = "google")
        PROVE  Kept
    <3>1. kind'[l] = k /\ read'[l] = account /\ token'[l] = token[l]
      BY <1>0, <2>2 DEF FindUser, SessionTypeOK
    <3>2. pc'[l] = "compare" => MayEnter(k, account)
      BY <1>0, <2>2 DEF FindUser, Goto, SessionTypeOK
    <3> QED BY <1>1, <3>1, <3>2 DEF MayEnter, Signed
  <2>3. ASSUME ComparePassword(l), kind[l].password = read[l].password PROVE Kept
    <3>1. MayEnter(kind[l], read[l]) /\ read[l] \in Account
      BY <1>0, <2>3 DEF ComparePassword, LoginInv, MayEnter, SessionTypeOK
    <3>2. kind'[l] = kind[l] /\ read'[l] = read[l] /\ pc'[l] = "done"
      BY <1>0, <2>3 DEF ComparePassword, Goto, SessionTypeOK
    <3>3. token'[l].role = read[l].role
      BY <1>0, <2>3, <3>1, SignType DEF ComparePassword
    <3> QED BY <2>3, <3>1, <3>2, <3>3 DEF Entitled, MayEnter
  <2>4. ASSUME ComparePassword(l), kind[l].password # read[l].password PROVE Kept
    BY <1>0, <1>1, <2>4 DEF ComparePassword, Goto, Signed, SessionTypeOK
  <2> QED BY <2>1, <2>2, <2>3, <2>4 DEF LoginStep
<1> QED BY <1>1, <1>2, <1>3 DEF LoginInv

\* A step of anybody keeps what is known of logins.
LEMMA LoginInvStep == SessionIInv /\ [Next]_vars => LoginInv'
<1> SUFFICES ASSUME SessionIInv, [Next]_vars PROVE LoginInv'
  OBVIOUS
<1>1. ASSUME UNCHANGED loginVars PROVE LoginInv'
  BY <1>1 DEF SessionIInv, LoginInv, loginVars, Signed, Entitled, MayEnter
<1>2. \/ \E l \in Login : LoginStep(l)
      \/ UNCHANGED loginVars
  BY DEF Next, Arrive, RequestStep, NoGuard, GuardVerify, GuardLookup, Logout, SetDenied,
         ChangeAccount, Tick, vars, loginVars
<1> QED BY <1>1, <1>2, LoginStepKeeps

\* Nobody takes a token back or signs it anew.
LEMMA TokensStay ==
  ASSUME SessionIInv, [Next]_vars, NEW l \in Login, Signed(l)
  PROVE  Signed(l)' /\ token'[l] = token[l]
<1>1. \/ \E m \in Login : LoginStep(m)
      \/ token' = token
  BY DEF Next, Arrive, RequestStep, NoGuard, GuardVerify, GuardLookup, Logout, SetDenied,
         ChangeAccount, Tick, vars, loginVars
<1>2. token'[l] = token[l]
  BY <1>1, LoginStepKeeps
<1> QED BY <1>2 DEF Signed

\* Time passes.
LEMMA TimePasses ==
  ASSUME SessionIInv, [Next]_vars
  PROVE  /\ now \in Nat /\ now' \in Nat /\ now <= now' /\ now' <= now + 1
         /\ Seconds \in Nat /\ Seconds' \in Nat /\ Seconds <= Seconds'
<1>1. now \in Nat /\ Seconds \in Nat
  BY SecondsType DEF SessionIInv
<1>2. now' = now \/ now' = now + 1
  BY DEF Next, LoginStep, FindUser, ComparePassword, Arrive, RequestStep, NoGuard, GuardVerify,
         GuardLookup, Logout, SetDenied, ChangeAccount, Tick, vars
<1>3. Seconds' \in Nat /\ Seconds <= Seconds'
  <2>1. CASE now' = now
    BY <1>1, <2>1 DEF Seconds
  <2>2. CASE now' = now + 1
    <3>1. now + 1 \in Nat /\ TicksPerSecond \in Nat \ {0}
      BY <1>1, TimeAssumption
    <3> QED BY <1>1, <2>2, <3>1, SecondsGrow, DivBounds DEF Seconds
  <2> QED BY <1>2, <2>1, <2>2
<1> QED BY <1>1, <1>2, <1>3

-----------------------------------------------------------------------------
(* Requests. *)

\* The token that a guard has looked at stays.
LEMMA BearerStays ==
  ASSUME SessionIInv, [Next]_vars, NEW q \in Http, reqPc[q] # "idle",
         bears[q].route \in Guarded, NEW l, l = bears[q].login
  PROVE  /\ l \in Login /\ Signed(l) /\ Signed(l)' /\ token'[l] = token[l]
<1>1. l \in Login /\ Signed(l)
  BY BearerType DEF SessionIInv, RequestInv, RequestOk
<1> QED BY <1>1, TokensStay

\* A step of another actor keeps what is known of a request.
LEMMA RequestStays ==
  ASSUME SessionIInv, [Next]_vars, NEW q \in Http, revoked \subseteq revoked',
         UNCHANGED <<reqPc[q], bears[q], before[q]>>
  PROVE  RequestOk(q)'
<1>1. RequestOk(q)
  BY DEF SessionIInv, RequestInv
<1>2. CASE reqPc[q] # "idle" /\ bears[q].route \in Guarded
  <2>1. PICK l : l = bears[q].login
    OBVIOUS
  <2>2. Signed(l)' /\ token'[l] = token[l]
    BY <1>2, <2>1, BearerStays
  <2> QED BY <1>1, <2>1, <2>2 DEF RequestOk, Allowed
<1>3. CASE ~(reqPc[q] # "idle" /\ bears[q].route \in Guarded)
  BY <1>1, <1>3 DEF RequestOk
<1> QED BY <1>2, <1>3

\* A step of anybody keeps what is known of requests.
LEMMA RequestInvStep == SessionIInv /\ [Next]_vars => RequestInv'
<1> SUFFICES ASSUME SessionIInv, [Next]_vars, NEW p \in Http PROVE RequestOk(p)'
  BY DEF RequestInv
<1>0. SessionTypeOK /\ RequestInv /\ RequestOk(p) /\ revoked \subseteq revoked'
  BY DEF SessionIInv, RequestInv, Next, LoginStep, FindUser, ComparePassword, Arrive,
         RequestStep, NoGuard, GuardVerify, GuardLookup, Logout, SetDenied, ChangeAccount,
         Tick, vars, requestVars
<1>1. CASE UNCHANGED <<reqPc[p], bears[p], before[p]>>
  BY <1>0, <1>1, RequestStays
<1>2. ASSUME NEW l \in Login, NEW route \in Guarded, GuardVerify(p, l, route)
      PROVE  RequestOk(p)'
  <2>1. /\ bears'[p] = [login |-> l, route |-> route] /\ before'[p] = revoked
        /\ reqPc'[p] \in {"refused", "guard"} /\ revoked' = revoked /\ Signed(l)
    BY <1>0, <1>2 DEF GuardVerify, ReqGoto, SessionTypeOK
  <2>2. [login |-> l, route |-> route] # Nobody
    BY DEF Nobody
  <2>3. Signed(l)'
    BY <2>1, TokensStay
  <2> QED BY <2>1, <2>2, <2>3 DEF RequestOk, Signed
<1>3. ASSUME NEW route \in Open, NoGuard(p, route) PROVE RequestOk(p)'
  <2>1. /\ bears'[p] = [route |-> route] /\ before'[p] = revoked
        /\ reqPc'[p] = "admitted" /\ revoked' = revoked
    BY <1>0, <1>3 DEF NoGuard, ReqGoto, SessionTypeOK
  <2>2. [route |-> route] # Nobody
    BY DEF Nobody
  <2>3. route \notin Guarded
    BY DEF Guarded
  <2> QED BY <2>1, <2>2, <2>3 DEF RequestOk
<1>4. ASSUME RequestStep(p) PROVE RequestOk(p)'
  <2>1. PICK l : l = bears[p].login
    OBVIOUS
  <2>2. /\ bears[p] # Nobody /\ bears[p].route \in Guarded
        /\ Signed(l)' /\ token'[l] = token[l]
    <3>1. reqPc[p] \notin {"idle", "admitted"}
      BY <1>4 DEF RequestStep, GuardLookup, Logout, SetDenied
    <3> QED BY <1>0, <2>1, <3>1, Bearer, BearerStays
  <2>3. bears'[p] = bears[p] /\ before'[p] \subseteq revoked'
    BY <1>0, <1>4 DEF RequestStep, GuardLookup, Logout, SetDenied, RequestOk
  <2>4. reqPc'[p] = "admitted" => Allowed(l, bears[p].route)'
    BY <1>0, <1>4, <2>1 DEF RequestStep, GuardLookup, Logout, SetDenied, ReqGoto, Allowed,
       loginVars, SessionTypeOK
  <2> QED BY <2>1, <2>2, <2>3, <2>4 DEF RequestOk, Allowed
<1>5. \/ \E l \in Login, route \in Guarded : GuardVerify(p, l, route)
      \/ \E route \in Open : NoGuard(p, route)
      \/ RequestStep(p)
      \/ UNCHANGED <<reqPc[p], bears[p], before[p]>>
  BY <1>0 DEF Next, LoginStep, FindUser, ComparePassword, Arrive, RequestStep, NoGuard,
     GuardVerify, GuardLookup, Logout, SetDenied, ReqGoto, ChangeAccount, Tick, vars,
     requestVars, SessionTypeOK
<1> QED BY <1>1, <1>2, <1>3, <1>4, <1>5

-----------------------------------------------------------------------------
(* The deny lists. *)

\* A step of a logout, or nothing happens to the lists.
LEMMA ListsChange ==
  ASSUME [Next]_vars
  PROVE  \/ \E q \in Http : Logout(q) \/ SetDenied(q)
         \/ UNCHANGED <<denied, revoked>>
BY DEF Next, LoginStep, FindUser, ComparePassword, Arrive, RequestStep, NoGuard,
   GuardVerify, GuardLookup, ChangeAccount, Tick, vars, requestVars

\* Nobody writes to the gateway's list, and nobody deletes an entry of the other.
LEMMA EntriesStay ==
  ASSUME SessionIInv, [Next]_vars, NEW l \in Login
  PROVE  /\ denied'["gateway"][l] = denied["gateway"][l]
         /\ denied["auth"][l] # NoEntry => denied'["auth"][l] # NoEntry
<1>0. denied \in [Process -> [Login -> Nat \cup {NoEntry}]] /\ "auth" \in Process
  BY DEF SessionIInv, SessionTypeOK, Process
<1>1. CASE denied' = denied
  BY <1>1
<1>2. ASSUME NEW q \in Http, denied' = [denied EXCEPT !["auth"][bears[q].login] = Until(q)],
             SetDenied(q)
      PROVE  /\ denied'["gateway"][l] = denied["gateway"][l]
             /\ denied["auth"][l] # NoEntry => denied'["auth"][l] # NoEntry
  <2>1. Until(q) # NoEntry
    BY SecondsType DEF SessionIInv, SessionTypeOK, Until, NoEntry
  <2> QED BY <1>0, <1>2, <2>1 DEF Process
<1> QED BY <1>1, <1>2, ListsChange DEF Logout, SetDenied

\* An expired token stays expired.
LEMMA ExpiryStep ==
  ASSUME SessionIInv, [Next]_vars, NEW l \in Login, Signed(l), Expired(l)
  PROVE  Expired(l)'
<1>1. token'[l] = token[l] /\ token[l].exp \in Nat
  BY TokensStay DEF SessionIInv, SessionTypeOK, Token, NoToken
<1> QED BY <1>1, TimePasses DEF Expired

\* A step of anybody keeps what is known of the deny lists.
LEMMA DenyInvStep == SessionIInv /\ [Next]_vars => DenyInv'
<1> SUFFICES ASSUME SessionIInv, [Next]_vars, NEW l \in Login PROVE DenyOk(l)'
  BY DEF DenyInv
<1>0. SessionTypeOK /\ RequestInv /\ DenyOk(l)
  BY DEF SessionIInv, DenyInv
<1>1. denied'["gateway"][l] = NoEntry
  BY <1>0, EntriesStay DEF DenyOk
<1>2. l \in revoked => Signed(l)' /\ (denied'["auth"][l] # NoEntry \/ Expired(l)')
  BY <1>0, TokensStay, EntriesStay, ExpiryStep DEF DenyOk
<1>3. ASSUME l \in revoked', l \notin revoked
      PROVE  Signed(l)' /\ (denied'["auth"][l] # NoEntry \/ Expired(l)')
  <2>1. PICK q \in Http : (Logout(q) \/ SetDenied(q)) /\ l = bears[q].login
    BY <1>3, ListsChange DEF Logout, SetDenied
  <2>2. Signed(l)
    BY <1>0, <2>1, Bearer DEF Logout, SetDenied
  <2>3. CASE Logout(q)
    <3>1. TimeToExpire(l) <= 0 /\ token[l].exp \in Nat
      BY <1>0, <1>3, <2>1, <2>3 DEF Logout, NeedsNoEntry, SessionTypeOK, Token, NoToken
    <3>2. Expired(l)
      BY <3>1, TimePasses DEF TimeToExpire, Expired
    <3> QED BY <2>2, <3>2, TokensStay, ExpiryStep
  <2>4. CASE SetDenied(q)
    <3>1. denied'["auth"][l] = Until(q)
      BY <1>0, <1>3, <2>1, <2>4 DEF SetDenied, SessionTypeOK, Process
    <3>2. Until(q) # NoEntry
      BY <1>0, SecondsType DEF SessionTypeOK, Until, NoEntry
    <3> QED BY <2>2, <3>1, <3>2, TokensStay
  <2> QED BY <2>1, <2>3, <2>4
<1> QED BY <1>1, <1>2, <1>3 DEF DenyOk

-----------------------------------------------------------------------------
(* The theorems. *)

\* At first nobody has a token.
LEMMA SessionInit == Init => SessionIInv
<1> SUFFICES ASSUME Init PROVE SessionIInv
  OBVIOUS
<1>1. \A l \in Login : ~Signed(l) /\ pc[l] = "idle" /\ denied["gateway"][l] = NoEntry
  BY DEF Init, Signed, Process
<1>2. LoginInv /\ DenyInv
  BY <1>1 DEF Init, LoginInv, DenyInv, DenyOk
<1>3. RequestInv
  BY DEF Init, RequestInv, RequestOk
<1> QED BY <1>2, <1>3, TypeInit DEF SessionIInv

\* Whatever logs in, calls and logs out at once: a signed token names an account
\* that was entitled to it, a revoked token is expired or has had an entry in the
\* auth service's cache, and the list in which the guard looks stays empty.
THEOREM SessionInvariant == Spec => []SessionIInv
<1>1. SessionIInv /\ [Next]_vars => SessionIInv'
  BY TypeStep, LoginInvStep, RequestInvStep, DenyInvStep DEF SessionIInv
<1> QED BY <1>1, SessionInit, PTL DEF Spec

\* Every variable of logins, guards and logout keeps its type; a time to live
\* given to the cache is never negative.
THEOREM SessionTypeCorrect == Spec => []SessionTypeOK
<1>1. SessionIInv => SessionTypeOK
  BY DEF SessionIInv
<1> QED BY <1>1, SessionInvariant, PTL

\* The guards of the gateway, on the routes that have them, let nobody pass whom the
\* logins of the auth service did not let in with the role the route is marked for.
THEOREM GuardsAdmitEntitled == Spec => []AdmittedWasEntitled
<1>1. ASSUME SessionIInv, NEW q \in Http, reqPc[q] = "admitted",
             bears[q].route \in Guarded, NEW l, l = bears[q].login
      PROVE  /\ read[l].status = "ACTIVE"
             /\ read[l].role \in Required[bears[q].route]
             /\ kind[l].entry \in Role => /\ read[l].role = kind[l].entry
                                          /\ read[l].password = kind[l].password
  <2>1. l \in Login /\ Signed(l) /\ Allowed(l, bears[q].route)
    BY <1>1, BearerType DEF SessionIInv, RequestInv, RequestOk
  <2>2. Entitled(l)
    BY <1>1, <2>1 DEF SessionIInv, LoginInv
  <2> QED BY <2>1, <2>2 DEF Entitled, MayEnter, Allowed
<1>2. SessionIInv => AdmittedWasEntitled
  BY <1>1 DEF AdmittedWasEntitled
<1> QED BY <1>2, SessionInvariant, PTL

\* No logout is answered with success for nothing: the token had expired, or the
\* auth service's list has had an entry for it.
THEOREM LogoutsLeaveEntries == Spec => []RevokedWasDenied
<1>1. SessionIInv => RevokedWasDenied
  BY DEF SessionIInv, SessionTypeOK, DenyInv, DenyOk, RevokedWasDenied
<1> QED BY <1>1, SessionInvariant, PTL

\* What the code does in place of revoking: no deny list keeps a request out.  A
\* guard that looks up a token admits it or lets it log out when the role may, unless
\* the lookup fails, whoever logged out with it before.
THEOREM GuardSeesNoLogout ==
  Spec => [][\A q \in Http : GuardLookup(q) => ~Denied("gateway", bears[q].login)]_vars
<1>1. ASSUME SessionIInv, NEW q \in Http, GuardLookup(q)
      PROVE  ~Denied("gateway", bears[q].login)
  <2>1. bears[q].login \in Login
    BY <1>1, Bearer DEF SessionIInv, GuardLookup
  <2>2. denied["gateway"][bears[q].login] = NoEntry /\ now \in Nat
    BY <1>1, <2>1, SecondsType DEF SessionIInv, DenyInv, DenyOk
  <2> QED BY <2>2 DEF Denied, NoEntry
<1>2. SessionIInv => \A q \in Http : GuardLookup(q) => ~Denied("gateway", bears[q].login)
  BY <1>1
<1> QED BY <1>2, SessionInvariant, PTL DEF Spec
=============================================================================
