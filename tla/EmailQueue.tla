----------------------------- MODULE EmailQueue -----------------------------
(***************************************************************************)
(* The Bull queue `emails` in Redis and the EmailProcessor that works it.  *)
(* Its four handlers differ in their template only: each sends one mail,   *)
(* and throws what sendMail throws.  Every producer adds its jobs without  *)
(* options, so Bull tries a job once; it starts it again only when the     *)
(* process died over it.                                                   *)
(***************************************************************************)
EXTENDS Integers, Sequences, FiniteSets

CONSTANTS
  Job,         \* the jobs of a behaviour
  Handlers,    \* how many jobs the processor works on at once: one per @Process
  MaxCrashes   \* bound on the crashes of the notification process

ASSUME HandlersAssumption == Handlers \in Nat \ {0} /\ MaxCrashes \in Nat

VARIABLES
  waiting,  \* the keys of the waiting jobs, the next one first
  job,      \* the state of each job
  stalls,   \* how often Bull found it without its worker
  copies,   \* how many mails of it the SMTP server took
  crashes   \* crashes so far

queueVars == <<waiting, job, stalls, copies, crashes>>

\* Bull's maxStalledCount.
MaxStalls == 1

InHand   == {"active", "sent", "thrown"}
Settled  == {"completed", "failed"}
JobState == {"none", "refused", "waiting", "stalled"} \cup InHand \cup Settled

QueueTypeOK ==
  /\ waiting \in Seq(Job)
  /\ job \in [Job -> JobState]
  /\ stalls \in [Job -> Nat]
  /\ copies \in [Job -> Nat]
  /\ crashes \in Nat

QueueInit ==
  /\ waiting = << >>
  /\ job = [j \in Job |-> "none"]
  /\ stalls = [j \in Job |-> 0]
  /\ copies = [j \in Job |-> 0]
  /\ crashes = 0

Move(j, s) == job' = [job EXCEPT ![j] = s]
Active     == {j \in Job : job[j] \in InHand}

\* emailQueue.add.  When Redis refuses the job, the producer only logs it.
Add(j) ==
  \/ Move(j, "waiting") /\ waiting' = Append(waiting, j) /\ UNCHANGED <<stalls, copies, crashes>>
  \/ Move(j, "refused") /\ UNCHANGED <<waiting, stalls, copies, crashes>>

\* A handler that has nothing to do takes the next job, whatever its name.
Take ==
  /\ waiting # << >> /\ Cardinality(Active) < Handlers
  /\ Move(Head(waiting), "active")
  /\ waiting' = Tail(waiting)
  /\ UNCHANGED <<stalls, copies, crashes>>

\* sendMail resolves: the server has the mail.
Send(j) ==
  /\ job[j] = "active"
  /\ Move(j, "sent")
  /\ copies' = [copies EXCEPT ![j] = @ + 1]
  /\ UNCHANGED <<waiting, stalls, crashes>>

\* sendMail rejects, perhaps after the server took the mail.
SendRejects(j) ==
  /\ job[j] = "active"
  /\ Move(j, "thrown")
  /\ copies' \in {copies, [copies EXCEPT ![j] = @ + 1]}
  /\ UNCHANGED <<waiting, stalls, crashes>>

\* A mutant: the handler logs the error and returns.
OutcomeSwallowed(j) == "completed"
\* It throws the error again, or returns.
OutcomeOf(j) == IF job[j] = "sent" THEN "completed" ELSE "failed"

\* Bull notes how the handler ended.
Settle(j) ==
  /\ job[j] \in {"sent", "thrown"}
  /\ Move(j, OutcomeOf(j))
  /\ UNCHANGED <<waiting, stalls, copies, crashes>>

\* The process dies with the jobs in its hands; what they sent is sent.
Crash ==
  /\ crashes < MaxCrashes /\ Active # {}
  /\ crashes' = crashes + 1
  /\ job' = [j \in Job |-> IF j \in Active THEN "stalled" ELSE job[j]]
  /\ UNCHANGED <<waiting, stalls, copies>>

\* Bull finds the job without a lock, and starts it again, the first time.
Restart(j) ==
  /\ job[j] = "stalled"
  /\ stalls' = [stalls EXCEPT ![j] = @ + 1]
  /\ IF stalls[j] < MaxStalls
     THEN Move(j, "waiting") /\ waiting' = <<j>> \o waiting
     ELSE Move(j, "failed") /\ UNCHANGED waiting
  /\ UNCHANGED <<copies, crashes>>

QueueStep == Take \/ \E j \in Job : Send(j) \/ SendRejects(j) \/ Settle(j) \/ Restart(j)

\* Redis and the SMTP server answer, and the process is started again.
QueueFairness ==
  /\ WF_queueVars(Take)
  /\ \A j \in Job : WF_queueVars(Send(j) \/ SendRejects(j)) /\ WF_queueVars(Settle(j))
                                                           /\ WF_queueVars(Restart(j))

-----------------------------------------------------------------------------
\* Bull says that a job is completed only if its mail went out, and a mail goes
\* out again only for a job that the process died over: twice at most.
MailedAsBullSays ==
  \A j \in Job :
    /\ job[j] = "completed" => copies[j] > 0
    /\ copies[j] <= 1 + stalls[j] /\ copies[j] <= 1 + MaxStalls

-----------------------------------------------------------------------------
\* A job is in the list of waiting ones once if it waits, and else not at all.
ListedOnce ==
  /\ \A i \in 1..Len(waiting) : job[waiting[i]] = "waiting"
  /\ \A i, k \in 1..Len(waiting) : waiting[i] = waiting[k] => i = k

\* What was sent before the job was taken again is counted in stalls.
CopiesOk(j) ==
  /\ job[j] \in {"none", "refused"} => copies[j] = 0 /\ stalls[j] = 0
  /\ job[j] \in {"waiting", "active"} => copies[j] <= stalls[j] /\ stalls[j] <= MaxStalls
  /\ job[j] \in {"sent", "completed"} => copies[j] > 0
  /\ job[j] \in {"sent", "thrown", "stalled"} => stalls[j] <= MaxStalls
  /\ copies[j] <= 1 + stalls[j] /\ copies[j] <= 1 + MaxStalls

QueueIInv == QueueTypeOK /\ ListedOnce /\ \A j \in Job : CopiesOk(j)
=============================================================================
