------------------------------ MODULE Session ------------------------------
(***************************************************************************)
(* Logins, the JWT guard of the gateway and logout.  AuthService signs a   *)
(* token that nobody stores; logout puts it on a deny list in the cache,   *)
(* where the guard of every later request is to find it.  The logins and   *)
(* logout run in the auth service, the guards in the gateway, each with a  *)
(* cache of its own.                                                       *)
(***************************************************************************)
EXTENDS Integers, FiniteSets

CONSTANTS
  Login,           \* calls of adminLogin, userLogin and googleLogin; each names its token
  Http,            \* HTTP requests for routes that take a token or are marked for a role
  Secret,          \* passwords
  Lifetime,        \* JWT_EXPIRES_IN, in seconds
  TicksPerSecond,  \* Date.now() and the cache count ticks (milliseconds), a JWT seconds
  MaxTime,         \* bound on the clock, in ticks
  MaxChanges       \* bound on the changes of the account

ASSUME TimeAssumption ==
  /\ Lifetime \in Nat /\ TicksPerSecond \in Nat \ {0}
  /\ MaxTime \in Nat /\ MaxChanges \in Nat

VARIABLES
  now,      \* Date.now()
  account,  \* the row of one account, which other handlers edit
  changes,  \* how often they did
  pc,       \* where each login is
  kind,     \* which login it is, with which password
  read,     \* the row that it read
  token,    \* the token that it signed
  reqPc,    \* where each request is
  bears,    \* the route it is for and, where a guard looks, whose token it bears
  ttl,      \* a logout's timeToExpire
  denied,   \* the deny lists: until when the entry of each token stays
  revoked,  \* history: the tokens whose logout was answered with success
  before    \* history: those revoked when the guard of a request began

vars == <<now, account, changes, pc, kind, read, token, reqPc, bears, ttl, denied, revoked, before>>
loginVars   == <<pc, kind, read, token>>
requestVars == <<reqPc, bears, ttl, denied, revoked, before>>

Role    == {"admin", "staff", "customer"}
Account == [role : Role, status : {"ACTIVE", "INACTIVE"}, password : Secret]
Nobody  == [role |-> "none"]

Kind    == [entry : {"admin", "customer", "google"}, password : Secret]
\* What @Roles says of a route.  Most say nothing (any, logout); rooms are those of
\* AdminRoomController, bookings is listAllBookings.
Required == [admin    |-> {"admin"},          staff |-> {"admin", "staff"},
             rooms    |-> {"admin", "staff"}, any   |-> Role,
             bookings |-> {"admin", "staff"}, logout |-> Role]
Route   == DOMAIN Required
\* The marked routes for which no controller and no module names a guard.
Open    == {"rooms", "bookings"}
Guarded == Route \ Open
Token   == [role : Role, exp : Nat]
NoToken == [role |-> "none", exp |-> 0]

Seconds    == now \div TicksPerSecond
Signed(l)  == token[l] # NoToken
Expired(l) == Seconds >= token[l].exp

\* The cache takes no `store`, so that each process keeps a deny list in its own memory.
Process      == {"gateway", "auth"}
NoEntry      == -1
Denied(p, l) == now <= denied[p][l]

GuardPc  == {"idle", "guard", "logout", "set"}
Answered == {"admitted", "refused", "loggedOut", "failed"}

SessionTypeOK ==
  /\ now \in 0 .. MaxTime
  /\ account \in Account \cup {Nobody}
  /\ changes \in 0 .. MaxChanges
  /\ pc \in [Login -> {"idle", "compare", "done", "rejected"}]
  /\ kind \in [Login -> Kind \cup {Nobody}]
  /\ read \in [Login -> Account \cup {Nobody}]
  /\ token \in [Login -> Token \cup {NoToken}]
  /\ reqPc \in [Http -> GuardPc \cup Answered]
  /\ bears \in [Http -> [login : Login, route : Guarded] \cup [route : Open] \cup {Nobody}]
  /\ ttl \in [Http -> Nat]
  /\ denied \in [Process -> [Login -> Nat \cup {NoEntry}]]
  /\ revoked \subseteq Login
  /\ before \in [Http -> SUBSET Login]

Init ==
  /\ now = 0
  /\ account \in Account
  /\ changes = 0
  /\ pc = [l \in Login |-> "idle"]
  /\ kind = [l \in Login |-> Nobody]
  /\ read = [l \in Login |-> Nobody]
  /\ token = [l \in Login |-> NoToken]
  /\ reqPc = [q \in Http |-> "idle"]
  /\ bears = [q \in Http |-> Nobody]
  /\ ttl = [q \in Http |-> 0]
  /\ denied = [p \in Process |-> [l \in Login |-> NoEntry]]
  /\ revoked = {}
  /\ before = [q \in Http |-> {}]

Goto(l, label)    == pc' = [pc EXCEPT ![l] = label]
ReqGoto(q, label) == reqPc' = [reqPc EXCEPT ![q] = label]

-----------------------------------------------------------------------------
\* Logins.

\* A mutant: no login looks at the role.
MayEnterAnyRole(k, row) == row # Nobody /\ row.status = "ACTIVE"
MayEnter(k, row) ==
  /\ row # Nobody
  /\ k.entry \in Role => row.role = k.entry
  /\ row.status = "ACTIVE"

\* jwtService.sign: iat is the second of now.
Sign(l, row) ==
  token' = [token EXCEPT ![l] = [role |-> row.role, exp |-> Seconds + Lifetime]]

\* The query of the row, and the checks up to bcrypt.compare; googleLogin
\* compares no password and signs at once.
FindUser(l, k) ==
  /\ pc[l] = "idle"
  /\ kind' = [kind EXCEPT ![l] = k]
  /\ read' = [read EXCEPT ![l] = account]
  /\ IF MayEnter(k, account) /\ k.entry = "google"
     THEN Goto(l, "done") /\ Sign(l, account)
     ELSE Goto(l, IF MayEnter(k, account) THEN "compare" ELSE "rejected") /\ UNCHANGED token
  /\ UNCHANGED <<now, account, changes, requestVars>>

\* A mutant: the promise of bcrypt.compare is not awaited, and is truthy.
ComparePasswordNotAwaited(l) ==
  /\ pc[l] = "compare"
  /\ Goto(l, "done") /\ Sign(l, read[l])
  /\ UNCHANGED <<now, account, changes, kind, read, requestVars>>

\* After bcrypt.compare, of the row that was read.
ComparePassword(l) ==
  /\ pc[l] = "compare"
  /\ IF kind[l].password = read[l].password
     THEN Goto(l, "done") /\ Sign(l, read[l])
     ELSE Goto(l, "rejected") /\ UNCHANGED token
  /\ UNCHANGED <<now, account, changes, kind, read, requestVars>>

-----------------------------------------------------------------------------
\* Requests.

\* A request for a marked route without guards: nobody looks for a token.
NoGuard(q, route) ==
  /\ reqPc[q] = "idle"
  /\ bears' = [bears EXCEPT ![q] = [route |-> route]]
  /\ before' = [before EXCEPT ![q] = revoked]
  /\ ReqGoto(q, "admitted")
  /\ UNCHANGED <<now, account, changes, loginVars, ttl, denied, revoked>>

\* JwtAuthGuard, first half: verifyAsync.
GuardVerify(q, l, route) ==
  /\ reqPc[q] = "idle" /\ Signed(l)
  /\ bears' = [bears EXCEPT ![q] = [login |-> l, route |-> route]]
  /\ before' = [before EXCEPT ![q] = revoked]
  /\ ReqGoto(q, IF Expired(l) THEN "refused" ELSE "guard")
  /\ UNCHANGED <<now, account, changes, loginVars, ttl, denied, revoked>>

\* RolesGuard.
Allowed(l, route) == token[l].role \in Required[route]

\* Second half: the gateway's own deny list, and the route's role.  An error of the
\* cache is caught and refused like a bad token.
GuardLookup(q) ==
  LET l == bears[q].login
  IN  /\ reqPc[q] = "guard"
      /\ \/ ReqGoto(q, IF Denied("gateway", l) \/ ~Allowed(l, bears[q].route) THEN "refused"
                       ELSE IF bears[q].route = "logout" THEN "logout" ELSE "admitted")
         \/ ReqGoto(q, "refused")
      /\ UNCHANGED <<now, account, changes, loginVars, bears, ttl, denied, revoked, before>>

TimeToExpire(l) == token[l].exp - Seconds

\* A mutant: logout forgets that the token may have expired since the guard.
NeedsNoEntryNever(l)      == FALSE
\* A mutant: a token in its last second counts as expired.
NeedsNoEntryLastSecond(l) == TimeToExpire(l) <= 1
\* An expired token needs no entry.
NeedsNoEntry(l)           == TimeToExpire(l) <= 0

\* logout in the auth service.
Logout(q) ==
  LET l == bears[q].login
  IN  /\ reqPc[q] = "logout"
      /\ IF NeedsNoEntry(l)
         THEN /\ ReqGoto(q, "loggedOut")
              /\ revoked' = revoked \cup {l}
              /\ UNCHANGED ttl
         ELSE /\ ReqGoto(q, "set")
              /\ ttl' = [ttl EXCEPT ![q] = TimeToExpire(l)]
              /\ UNCHANGED revoked
      /\ UNCHANGED <<now, account, changes, loginVars, bears, denied, before>>

\* Until when the cache keeps an entry set now: logout counts seconds, and set takes
\* its third argument for milliseconds.
Until(q) == now + ttl[q]

\* cacheManager.set in the auth service's cache, whose failure is answered as one.
SetDenied(q) ==
  LET l == bears[q].login
  IN  /\ reqPc[q] = "set"
      /\ \/ /\ denied' = [denied EXCEPT !["auth"][l] = Until(q)]
            /\ revoked' = revoked \cup {l}
            /\ ReqGoto(q, "loggedOut")
         \/ ReqGoto(q, "failed") /\ UNCHANGED <<denied, revoked>>
      /\ UNCHANGED <<now, account, changes, loginVars, bears, ttl, before>>

-----------------------------------------------------------------------------
\* The environment.

ChangeAccount ==
  /\ changes < MaxChanges
  /\ changes' = changes + 1
  /\ account' \in (Account \cup {Nobody}) \ {account}
  /\ UNCHANGED <<now, loginVars, requestVars>>

Tick == /\ now < MaxTime
        /\ now' = now + 1
        /\ UNCHANGED <<account, changes, loginVars, requestVars>>

LoginStep(l)   == (\E k \in Kind : FindUser(l, k)) \/ ComparePassword(l)
RequestStep(q) == GuardLookup(q) \/ Logout(q) \/ SetDenied(q)
Arrive(q)      == \/ \E l \in Login, route \in Guarded : GuardVerify(q, l, route)
                  \/ \E route \in Open : NoGuard(q, route)

Next ==
  \/ \E l \in Login : LoginStep(l)
  \/ \E q \in Http : Arrive(q) \/ RequestStep(q)
  \/ ChangeAccount
  \/ Tick

Spec == Init /\ [][Next]_vars

-----------------------------------------------------------------------------
\* What the answer of logout promises: its token opens nothing any more to a request
\* that comes later, but for one verified before the token expired and looked up
\* after it.  The code does not keep it: the entry is in the auth service's cache,
\* the guard looks in the gateway's.
RevokedIsRefused ==
  [][\A q \in Http :
       reqPc[q] = "guard" /\ bears[q].login \in before[q] /\ reqPc'[q] # "guard"
         => reqPc'[q] = "refused" \/ Expired(bears[q].login)]_vars

\* Logout answers with success only when the token has expired or the auth service's
\* deny list has had an entry for it: neither a failure of the cache nor the clock,
\* which runs on between guard and logout, makes it answer for nothing.
RevokedWasDenied ==
  \A l \in revoked : Expired(l) \/ denied["auth"][l] # NoEntry

\* Whoever passes a guarded route had logged in when the account had the role that
\* the route is marked for and was active, with its password or by Google: each kind
\* of login, the token and the two guards keep the role together.  The marked routes
\* without guards admit anyone.
AdmittedWasEntitled ==
  \A q \in Http : reqPc[q] = "admitted" /\ bears[q].route \in Guarded =>
    LET l == bears[q].login
    IN  /\ read[l].status = "ACTIVE"
        /\ read[l].role \in Required[bears[q].route]
        /\ kind[l].entry \in Role => /\ read[l].role = kind[l].entry
                                     /\ read[l].password = kind[l].password

-----------------------------------------------------------------------------
\* The inductive invariant.

Entitled(l) ==
  /\ MayEnter(kind[l], read[l])
  /\ token[l].role = read[l].role
  /\ kind[l].entry \in Role => read[l].password = kind[l].password

LoginInv == \A l \in Login :
  /\ pc[l] = "compare" => MayEnter(kind[l], read[l])
  /\ Signed(l) => pc[l] = "done" /\ Entitled(l)

RequestOk(q) ==
  /\ before[q] \subseteq revoked
  /\ reqPc[q] # "idle" => bears[q] # Nobody
  /\ reqPc[q] \notin {"idle", "admitted"} => bears[q].route \in Guarded
  /\ reqPc[q] # "idle" /\ bears[q].route \in Guarded => Signed(bears[q].login)
  /\ reqPc[q] = "admitted" /\ bears[q].route \in Guarded
       => Allowed(bears[q].login, bears[q].route)

DenyOk(l) ==
  /\ denied["gateway"][l] = NoEntry
  /\ l \in revoked => Signed(l) /\ (denied["auth"][l] # NoEntry \/ Expired(l))

RequestInv == \A q \in Http : RequestOk(q)
DenyInv    == \A l \in Login : DenyOk(l)

\* A signed token names an account that was entitled to it; a revoked token has had
\* an entry in the auth service or is expired; the gateway's list is empty.
SessionIInv == SessionTypeOK /\ LoginInv /\ RequestInv /\ DenyInv
=============================================================================
