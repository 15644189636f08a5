----------------------------- MODULE Onboarding -----------------------------
(***************************************************************************)
(* From userRegister to userActive: the row is inserted, the welcome job   *)
(* is queued, the processor mails the code, and the client brings it back. *)
(* Administrators edit and delete rows meanwhile.                          *)
(***************************************************************************)
EXTENDS EmailQueue, Activation

ASSUME WelcomeAssumption == Signup \subseteq Job

VARIABLE
  regPc  \* where each call of userRegister is

vars == <<queueVars, activationVars, regPc>>

Registering == {"insert", "enqueue"}

OnboardingTypeOK ==
  /\ QueueTypeOK /\ ActivationTypeOK
  /\ regPc \in [Signup -> {"idle", "registered", "failed"} \cup Registering]

Init == QueueInit /\ ActivationInit /\ regPc = [s \in Signup |-> "idle"]

-----------------------------------------------------------------------------
\* Mutants: the code is mailed before it is stored, or not at all.
AfterMailFirst == [idle |-> "enqueue", enqueue |-> "insert", insert |-> "registered"]
AfterNoMail == [idle |-> "insert", insert |-> "registered", enqueue |-> "registered"]
\* userRegister inserts the row, then queues the mail, then answers.
After == [idle |-> "insert", insert |-> "enqueue", enqueue |-> "registered"]

At(s, label) == regPc[s] = label /\ regPc' = [regPc EXCEPT ![s] = After[label]]

\* Conflicts of addresses are in AccountService, and here among the failures.
FindAddress(s) == At(s, "idle") /\ UNCHANGED <<queueVars, activationVars>>

\* A mutant: a status that the column does not have.
NewStatusPending == "PENDING"
NewStatus        == "INACTIVE"

InsertUser(s) ==
  /\ At(s, "insert")
  /\ status' = [status EXCEPT ![s] = NewStatus]
  /\ stored' = stored \cup {s}
  /\ UNCHANGED <<queueVars, limiterVars, pc, code, count, answer, spent>>

EnqueueWelcome(s) == At(s, "enqueue") /\ Add(s) /\ UNCHANGED activationVars

\* The address is taken, MySQL fails, or the auth service dies: after the insert,
\* the row is there and its code nowhere.
RegisterFails(s) ==
  /\ regPc[s] \in Registering
  /\ regPc' = [regPc EXCEPT ![s] = "failed"]
  /\ UNCHANGED <<queueVars, activationVars>>

Register(s) == InsertUser(s) \/ EnqueueWelcome(s)

\* The other producers: reset tokens, passwords, bookings.
AddOther(j) ==
  /\ j \notin Signup /\ job[j] = "none"
  /\ Add(j) /\ UNCHANGED <<activationVars, regPc>>

\* A client has the code from a mail, or makes one up.
Submit(a) ==
  /\ code[a] \in Signup => copies[code[a]] > 0
  /\ Receive(a) /\ UNCHANGED <<queueVars, regPc>>

\* updateUserInfo and deleteUser: the code of a row is not in the dto.
SetStatus(s) ==
  /\ status[s] # "none"
  /\ \E st \in {"INACTIVE", "ACTIVE"} : status' = [status EXCEPT ![s] = st]
  /\ UNCHANGED <<queueVars, limiterVars, pc, code, count, answer, stored, spent, regPc>>

DeleteUser(s) ==
  /\ status[s] # "none"
  /\ status' = [status EXCEPT ![s] = "none"]
  /\ stored' = stored \ {s}
  /\ spent' = spent \cup {s}
  /\ UNCHANGED <<queueVars, limiterVars, pc, code, count, answer, regPc>>

Next ==
  \/ \E s \in Signup : FindAddress(s) \/ Register(s) \/ RegisterFails(s)
                         \/ SetStatus(s) \/ DeleteUser(s)
  \/ \E a \in Attempt : Submit(a)
  \/ \E a \in Attempt : (Activate(a) \/ Break(a)) /\ UNCHANGED <<queueVars, regPc>>
  \/ \E t \in Code : Expire(t) /\ UNCHANGED <<queueVars, regPc>>
  \/ (QueueStep \/ Crash) /\ UNCHANGED <<activationVars, regPc>>
  \/ \E j \in Job : AddOther(j)

Spec == Init /\ [][Next]_vars

FairSpec == Spec /\ QueueFairness

-----------------------------------------------------------------------------
\* A code that reached a client is refused, as wrong or as tried too often, only
\* after it was used or its account deleted: userRegister stores it before it is
\* mailed, and wrong codes count against themselves alone.
CodeRefusedOnlyIfUsed ==
  \A a \in Attempt :
    answer[a] \in {"invalid", "limited"} /\ code[a] \in Signup => code[a] \in spent

\* Whoever was told that the registration succeeded is mailed the code, or the job
\* was refused or has failed, which nobody is told: it never hangs in the queue,
\* though the processor dies over it.
WelcomeSettles ==
  \A s \in Signup :
    regPc[s] = "registered" ~> copies[s] > 0 \/ job[s] \in {"refused", "failed"}

-----------------------------------------------------------------------------
\* A call that got as far as a miss brought a code that is not to be found.
CodeOk(a) ==
  code[a] \in Signup =>
    /\ pc[a] # "idle" => copies[code[a]] > 0
    /\ pc[a] \in Counting \/ answer[a] \in {"invalid", "limited"} => code[a] \in spent

\* A code that was mailed, or is about to be, is in the table or spent.
WelcomeOk(s) ==
  /\ regPc[s] # "registered" => job[s] = "none"
  /\ regPc[s] \in {"enqueue", "registered"} => s \in stored \cup spent
  /\ s \in blocked => s \in spent

OnboardingIInv ==
  /\ OnboardingTypeOK /\ QueueIInv /\ LimiterIInv
  /\ \A a \in Attempt : CodeOk(a)
  /\ \A s \in Signup : WelcomeOk(s)
=============================================================================
