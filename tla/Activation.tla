----------------------------- MODULE Activation -----------------------------
(***************************************************************************)
(* AuthService.userActive: the codes of the table users, and the limiter   *)
(* that counts wrong codes in the cache.  It reads a counter in one await  *)
(* and writes it in the next, so calls with the same code may count once.  *)
(* The entity that is saved is AccountService's matter; here a save is one *)
(* step.                                                                   *)
(***************************************************************************)
EXTENDS Integers, FiniteSets

CONSTANTS
  Signup,   \* calls of userRegister; each names its row and its code
  Guess,    \* codes that nobody was given
  Attempt,  \* calls of userActive
  Limit     \* the wrong codes that block a code; 5 in the code

ASSUME CodesAssumption   == Signup \cap Guess = {}
ASSUME LimitAssumption   == Limit \in Nat \ {0}
ASSUME AttemptAssumption == IsFiniteSet(Attempt)

VARIABLES
  status,    \* the status of each row, "none" without one
  stored,    \* the rows that hold a verification_token
  attempts,  \* active_attempt_<code> in the cache; 0 when there is none
  blocked,   \* the codes with an entry active_block_<code>
  pc,        \* where each call is
  code,      \* the code that it brings
  count,     \* its currentAttempts
  answer,    \* what it answered
  spent,     \* history: codes that were saved as used, or whose row was deleted
  counted,   \* history: the calls that have written a counter
  round,     \* history: the calls of each code that wrote it since it was wiped
  disturbed  \* history: codes of which calls overlapped, or the counter was lost

activationVars == <<status, stored, attempts, blocked, pc, code, count, answer,
                    spent, counted, round, disturbed>>
tableVars   == <<status, stored, spent>>
limiterVars == <<attempts, blocked, counted, round, disturbed>>

Code     == Signup \cup Guess
Counting == {"count", "store", "block", "clear"}
InFlight == {"find", "save", "forgive", "unblock"} \cup Counting
Answer   == {"limited", "invalid", "already", "success", "error"}

ActivationTypeOK ==
  /\ status \in [Signup -> {"none", "INACTIVE", "ACTIVE"}]
  /\ stored \subseteq Signup
  /\ attempts \in [Code -> Nat]
  /\ blocked \subseteq Code
  /\ pc \in [Attempt -> {"idle", "done"} \cup InFlight]
  /\ code \in [Attempt -> Code]
  /\ count \in [Attempt -> Nat]
  /\ answer \in [Attempt -> Answer \cup {"none"}]
  /\ spent \subseteq Signup
  /\ counted \subseteq Attempt
  /\ round \in [Code -> SUBSET Attempt]
  /\ disturbed \subseteq Code

ActivationInit ==
  /\ status = [s \in Signup |-> "none"]
  /\ stored = {} /\ blocked = {} /\ spent = {} /\ counted = {} /\ disturbed = {}
  /\ attempts = [t \in Code |-> 0]
  /\ round = [t \in Code |-> {}]
  /\ pc = [a \in Attempt |-> "idle"]
  /\ code \in [Attempt -> Code]
  /\ count = [a \in Attempt |-> 0]
  /\ answer = [a \in Attempt |-> "none"]

Goto(a, label) == pc' = [pc EXCEPT ![a] = label] /\ UNCHANGED answer
Reply(a, r)    == pc' = [pc EXCEPT ![a] = "done"] /\ answer' = [answer EXCEPT ![a] = r]

\* Another call with the code of a is between its miss and its answer.
Overlaps(a) == \E b \in Attempt \ {a} : pc[b] \in Counting /\ code[b] = code[a]

-----------------------------------------------------------------------------
\* STEP 1: get(blockKey).
Receive(a) ==
  /\ pc[a] = "idle"
  /\ IF code[a] \in blocked THEN Reply(a, "limited") ELSE Goto(a, "find")
  /\ UNCHANGED <<tableVars, limiterVars, code, count>>

\* A mutant: the call is counted before its code is looked up.
FindCountsFirst(a) ==
  /\ pc[a] = "find"
  /\ Goto(a, "count")
  /\ disturbed' = IF Overlaps(a) THEN disturbed \cup {code[a]} ELSE disturbed
  /\ UNCHANGED <<tableVars, attempts, blocked, counted, round, code, count>>

\* STEP 2: findOneBy({ verification_token }).
Find(a) ==
  LET t == code[a]
  IN  /\ pc[a] = "find"
      /\ IF t \in stored
         THEN /\ IF status[t] = "ACTIVE" THEN Reply(a, "already") ELSE Goto(a, "save")
              /\ UNCHANGED disturbed
         ELSE /\ Goto(a, "count")
              /\ disturbed' = IF Overlaps(a) THEN disturbed \cup {t} ELSE disturbed
      /\ UNCHANGED <<tableVars, attempts, blocked, counted, round, code, count>>

\* get(attemptKey).
Count(a) ==
  /\ pc[a] = "count"
  /\ count' = [count EXCEPT ![a] = attempts[code[a]]]
  /\ Goto(a, "store")
  /\ UNCHANGED <<tableVars, limiterVars, code>>

\* Mutants: one more is let through, or one less.
ExceedsLate(a)  == count[a] + 1 > Limit
ExceedsEarly(a) == count[a] + 1 >= Limit - 1
Exceeds(a)      == count[a] + 1 >= Limit

\* set(attemptKey, newAttempts, 900); count is forgotten.
Store(a) ==
  LET t == code[a]
  IN  /\ pc[a] = "store"
      /\ attempts' = [attempts EXCEPT ![t] = count[a] + 1]
      /\ counted' = counted \cup {a}
      /\ round' = [round EXCEPT ![t] = @ \cup {a}]
      /\ count' = [count EXCEPT ![a] = 0]
      /\ IF Exceeds(a) THEN Goto(a, "block") ELSE Reply(a, "invalid")
      /\ UNCHANGED <<tableVars, blocked, disturbed, code>>

\* set(blockKey, 'true', 900).
Block(a) ==
  /\ pc[a] = "block"
  /\ blocked' = blocked \cup {code[a]}
  /\ Goto(a, "clear")
  /\ UNCHANGED <<tableVars, attempts, counted, round, disturbed, code, count>>

\* del(attemptKey).
Wipe(t) ==
  /\ attempts' = [attempts EXCEPT ![t] = 0]
  /\ round' = [round EXCEPT ![t] = {}]
  /\ UNCHANGED <<blocked, counted, disturbed>>

Clear(a) ==
  /\ pc[a] = "clear"
  /\ Wipe(code[a]) /\ Reply(a, "limited")
  /\ UNCHANGED <<tableVars, code, count>>

\* STEP 3: save of the active user without its code.  A row that was deleted
\* meanwhile is inserted again.
Save(a) ==
  LET t == code[a]
  IN  /\ pc[a] = "save"
      /\ status' = [status EXCEPT ![t] = "ACTIVE"]
      /\ stored' = stored \ {t}
      /\ spent' = spent \cup {t}
      /\ Goto(a, "forgive")
      /\ UNCHANGED <<limiterVars, code, count>>

\* del(attemptKey), then del(blockKey).
Forgive(a) ==
  /\ pc[a] = "forgive"
  /\ Wipe(code[a]) /\ Goto(a, "unblock")
  /\ UNCHANGED <<tableVars, code, count>>

Unblock(a) ==
  /\ pc[a] = "unblock"
  /\ blocked' = blocked \ {code[a]}
  /\ Reply(a, "success")
  /\ UNCHANGED <<tableVars, attempts, counted, round, disturbed, code, count>>

\* MySQL or the cache fails in any await, or the auth service dies.
Break(a) ==
  /\ pc[a] \in InFlight
  /\ Reply(a, "error")
  /\ count' = [count EXCEPT ![a] = 0]
  /\ disturbed' = IF pc[a] \in Counting THEN disturbed \cup {code[a]} ELSE disturbed
  /\ UNCHANGED <<tableVars, attempts, blocked, counted, round, code>>

Activate(a) == Find(a) \/ Count(a) \/ Store(a) \/ Block(a) \/ Clear(a) \/ Save(a)
                 \/ Forgive(a) \/ Unblock(a)

-----------------------------------------------------------------------------
\* The quarter of an hour of an entry passes.
Expire(t) ==
  /\ \/ /\ attempts[t] > 0
        /\ attempts' = [attempts EXCEPT ![t] = 0]
        /\ disturbed' = disturbed \cup {t}
        /\ UNCHANGED blocked
     \/ /\ t \in blocked
        /\ blocked' = blocked \ {t}
        /\ UNCHANGED <<attempts, disturbed>>
  /\ UNCHANGED <<tableVars, pc, code, count, answer, counted, round>>

-----------------------------------------------------------------------------
Tried(t) == {a \in counted : code[a] = t}

\* Whoever is told to wait has reason: the code was wrong Limit times, however the
\* calls with it and with other codes interleave.
NeverBlockedEarly == \A t \in blocked : Cardinality(Tried(t)) >= Limit

\* While the calls with a code come one after another and the cache keeps its
\* counter, fewer than Limit of them learn that it is invalid before it is blocked.
LimitHolds ==
  \A t \in Code \ disturbed :
    Cardinality({a \in round[t] : answer[a] = "invalid"}) < Limit

-----------------------------------------------------------------------------
\* The cache counts no call twice.
CountOk(a) ==
  LET t == code[a]
  IN  /\ pc[a] \in {"idle", "find", "count", "store"} => a \notin counted
      /\ pc[a] = "store" => count[a] <= Cardinality(Tried(t))
      /\ pc[a] \in {"block", "clear"} => Cardinality(Tried(t)) >= Limit
      /\ pc[a] = "save" => t \in Signup
      /\ answer[a] = "none" <=> pc[a] # "done"

\* An undisturbed counter counts all of its round: at most one call is at it, and
\* only that one has seen the limit.
Undisturbed(t) ==
  /\ Cardinality(round[t]) <= attempts[t] /\ attempts[t] <= Limit
  /\ \A a, b \in Attempt :
       pc[a] \in Counting /\ pc[b] \in Counting /\ code[a] = t /\ code[b] = t => a = b
  /\ \A a \in Attempt : pc[a] = "store" /\ code[a] = t =>
       Cardinality(round[t]) <= count[a] /\ count[a] < Limit
  /\ attempts[t] = Limit =>
       \E a \in round[t] : pc[a] \in {"block", "clear"} /\ code[a] = t

RoundOk(t) ==
  /\ \A a \in round[t] : a \in counted /\ code[a] = t
  /\ attempts[t] <= Cardinality(Tried(t))
  /\ t \in blocked => Cardinality(Tried(t)) >= Limit
  /\ t \notin disturbed => Undisturbed(t)

LimiterIInv ==
  /\ ActivationTypeOK
  /\ \A a \in Attempt : CountOk(a)
  /\ \A t \in Code : RoundOk(t)
=============================================================================
