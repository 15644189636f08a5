-------------------------- MODULE OnboardingProofs --------------------------
(* Proofs that no mail is lost or repeated unnoticed, and that a code is refused *)
(* or blocked for a reason only, for every number of signups, codes and calls.   *)
EXTENDS Onboarding, FiniteSetTheorems, TLAPS

USE DEF JobState, InHand, Settled, MaxStalls

-----------------------------------------------------------------------------
(* The queue. *)

\* A job that moves on without leaving or entering the list of waiting ones.
LEMMA StaysUnlisted ==
  ASSUME NEW j \in Job, NEW st \in JobState, QueueTypeOK, ListedOnce,
         job[j] # "waiting", Move(j, st), UNCHANGED waiting
  PROVE  ListedOnce'
<1>1. \A i \in 1..Len(waiting) : waiting[i] \in Job /\ waiting[i] # j
  BY DEF QueueTypeOK, ListedOnce
<1>2. \A k \in Job : k # j => job'[k] = job[k]
  BY DEF Move, QueueTypeOK
<1> QED BY <1>1, <1>2 DEF ListedOnce

\* A job that enters it, at its end or at its head.
LEMMA EntersList ==
  ASSUME NEW j \in Job, QueueTypeOK, ListedOnce, job[j] # "waiting", Move(j, "waiting"),
         waiting' = Append(waiting, j) \/ waiting' = <<j>> \o waiting
  PROVE  ListedOnce' /\ waiting' \in Seq(Job)
<1>1. \A i \in 1..Len(waiting) : waiting[i] \in Job /\ waiting[i] # j
  BY DEF QueueTypeOK, ListedOnce
<1>2. \A k \in Job : job'[k] = IF k = j THEN "waiting" ELSE job[k]
  BY DEF Move, QueueTypeOK
<1>3. CASE waiting' = Append(waiting, j)
  <2>1. /\ waiting' \in Seq(Job) /\ Len(waiting') = Len(waiting) + 1 /\ Len(waiting) \in Nat
        /\ \A i \in 1..Len(waiting') :
             waiting'[i] = IF i = Len(waiting) + 1 THEN j ELSE waiting[i]
    BY <1>3 DEF QueueTypeOK
  <2> QED BY <2>1, <1>1, <1>2 DEF ListedOnce
<1>4. CASE waiting' = <<j>> \o waiting
  <2>1. /\ waiting' \in Seq(Job) /\ Len(waiting') = Len(waiting) + 1 /\ Len(waiting) \in Nat
        /\ \A i \in 1..Len(waiting') : waiting'[i] = IF i = 1 THEN j ELSE waiting[i - 1]
    BY <1>4 DEF QueueTypeOK
  <2>2. ASSUME NEW i \in 1..Len(waiting'), i # 1
        PROVE  i - 1 \in 1..Len(waiting) /\ waiting'[i] = waiting[i - 1]
    BY <2>1, <2>2
  <2>3. ASSUME NEW i \in 1..Len(waiting')
        PROVE  job'[waiting'[i]] = "waiting"
    BY <2>1, <2>2, <1>1, <1>2 DEF ListedOnce
  <2>4. ASSUME NEW i \in 1..Len(waiting'), NEW k \in 1..Len(waiting'), waiting'[i] = waiting'[k]
        PROVE  i = k
    <3>1. CASE i = 1 \/ k = 1
      BY <3>1, <2>4, <2>1, <2>2, <1>1
    <3>2. CASE i # 1 /\ k # 1
      <4>1. waiting[i - 1] = waiting[k - 1]
        BY <3>2, <2>2, <2>4
      <4>2. i - 1 = k - 1
        BY <3>2, <2>2, <4>1 DEF ListedOnce
      <4> QED BY <4>2
    <3> QED BY <3>1, <3>2
  <2> QED BY <2>1, <2>3, <2>4 DEF ListedOnce
<1> QED BY <1>3, <1>4

LEMMA AddKeeps ==
  ASSUME NEW j \in Job, QueueIInv, job[j] = "none", Add(j)
  PROVE  QueueIInv'
<1> USE DEF QueueIInv
<1>1. CASE waiting' = Append(waiting, j) /\ Move(j, "waiting")
  <2>1. ListedOnce' /\ waiting' \in Seq(Job)
    BY <1>1, EntersList
  <2> QED BY <2>1, <1>1 DEF Add, QueueTypeOK, CopiesOk, Move
<1>2. CASE UNCHANGED waiting /\ Move(j, "refused")
  <2>1. ListedOnce'
    BY <1>2, StaysUnlisted
  <2> QED BY <2>1, <1>2 DEF Add, QueueTypeOK, CopiesOk, Move
<1> QED BY <1>1, <1>2 DEF Add

LEMMA TakeKeeps ==
  ASSUME QueueIInv, Take
  PROVE  QueueIInv'
<1> USE DEF QueueIInv
<1>1. /\ Len(waiting) \in Nat \ {0} /\ Head(waiting) = waiting[1] /\ waiting[1] \in Job
      /\ waiting' \in Seq(Job) /\ Len(waiting') = Len(waiting) - 1
      /\ \A i \in 1..Len(waiting') : waiting'[i] = waiting[i + 1]
  BY DEF Take, QueueTypeOK
<1>2. job[waiting[1]] = "waiting"
  BY <1>1 DEF ListedOnce
<1>3. \A k \in Job : job'[k] = IF k = waiting[1] THEN "active" ELSE job[k]
  BY <1>1 DEF Take, Move, QueueTypeOK
<1>4. ASSUME NEW i \in 1..Len(waiting')
      PROVE  waiting'[i] \in Job /\ waiting'[i] # waiting[1] /\ job[waiting'[i]] = "waiting"
  <2>1. i + 1 \in 1..Len(waiting) /\ i + 1 # 1 /\ 1 \in 1..Len(waiting)
    BY <1>1
  <2>2. waiting[i + 1] # waiting[1] /\ job[waiting[i + 1]] = "waiting" /\ waiting[i + 1] \in Job
    BY <2>1 DEF ListedOnce, QueueTypeOK
  <2>3. waiting'[i] = waiting[i + 1]
    BY <1>1
  <2> QED BY <2>2, <2>3
<1>5. ListedOnce'
  <2>1. \A i \in 1..Len(waiting') : job'[waiting'[i]] = "waiting"
    BY <1>3, <1>4
  <2>2. ASSUME NEW i \in 1..Len(waiting'), NEW k \in 1..Len(waiting'), waiting'[i] = waiting'[k]
        PROVE  i = k
    <3>1. i + 1 \in 1..Len(waiting) /\ k + 1 \in 1..Len(waiting) /\ waiting[i + 1] = waiting[k + 1]
      BY <1>1, <2>2
    <3>2. i + 1 = k + 1
      BY <3>1 DEF ListedOnce
    <3> QED BY <3>2
  <2> QED BY <2>1, <2>2 DEF ListedOnce
<1> QED BY <1>1, <1>2, <1>3, <1>5 DEF Take, Move, QueueTypeOK, CopiesOk

LEMMA SendKeeps ==
  ASSUME NEW j \in Job, QueueIInv, Send(j) \/ SendRejects(j) \/ Settle(j)
  PROVE  QueueIInv'
<1> USE DEF QueueIInv
<1>1. PICK st \in JobState : Move(j, st) /\ job[j] # "waiting" /\ UNCHANGED waiting
  BY DEF Send, SendRejects, Settle, OutcomeOf
<1>2. ListedOnce'
  BY <1>1, StaysUnlisted
<1>3. CASE Send(j)
  BY <1>2, <1>3 DEF Send, Move, QueueTypeOK, CopiesOk
<1>4. CASE SendRejects(j)
  <2>1. /\ \A k \in Job : job'[k] = IF k = j THEN "thrown" ELSE job[k]
        /\ UNCHANGED <<waiting, stalls, crashes>> /\ job' \in [Job -> JobState]
    BY <1>4 DEF SendRejects, Move, QueueTypeOK
  <2>2. /\ copies' \in [Job -> Nat]
        /\ \A k \in Job : copies'[k] = copies[k] \/ (k = j /\ copies'[k] = copies[k] + 1)
    BY <1>4 DEF SendRejects, QueueTypeOK
  <2>3. \A k \in Job : CopiesOk(k)'
    BY <1>4, <2>1, <2>2 DEF SendRejects, QueueTypeOK, CopiesOk
  <2> QED BY <1>2, <2>1, <2>2, <2>3 DEF QueueTypeOK
<1>5. CASE Settle(j)
  BY <1>2, <1>5 DEF Settle, OutcomeOf, Move, QueueTypeOK, CopiesOk
<1> QED BY <1>3, <1>4, <1>5

LEMMA CrashKeeps ==
  ASSUME QueueIInv, Crash
  PROVE  QueueIInv'
<1> USE DEF QueueIInv
<1>1. \A j \in Job : job'[j] = IF job[j] \in InHand THEN "stalled" ELSE job[j]
  BY DEF Crash, Active
<1>2. ListedOnce'
  BY <1>1 DEF Crash, ListedOnce, QueueTypeOK
<1> QED BY <1>1, <1>2 DEF Crash, QueueTypeOK, CopiesOk

LEMMA RestartKeeps ==
  ASSUME NEW j \in Job, QueueIInv, Restart(j)
  PROVE  QueueIInv'
<1> USE DEF QueueIInv
<1>1. CASE waiting' = <<j>> \o waiting /\ Move(j, "waiting")
  <2>1. ListedOnce' /\ waiting' \in Seq(Job)
    BY <1>1, EntersList DEF Restart
  <2> QED BY <2>1, <1>1 DEF Restart, QueueTypeOK, CopiesOk, Move
<1>2. CASE UNCHANGED waiting /\ Move(j, "failed")
  <2>1. ListedOnce'
    BY <1>2, StaysUnlisted DEF Restart
  <2> QED BY <2>1, <1>2 DEF Restart, QueueTypeOK, CopiesOk, Move
<1> QED BY <1>1, <1>2 DEF Restart

\* What has been mailed stays mailed, and a producer's mark of a job too.
LEMMA QueueKeeps ==
  ASSUME QueueIInv, QueueStep \/ Crash
  PROVE  /\ QueueIInv'
         /\ \A j \in Job : copies[j] > 0 => copies'[j] > 0
         /\ \A j \in Job : job[j] = "none" => job'[j] = "none"
<1>1. QueueIInv'
  BY TakeKeeps, SendKeeps, CrashKeeps, RestartKeeps DEF QueueStep
<1>2. waiting # << >> => Head(waiting) \in Job /\ job[Head(waiting)] = "waiting"
  BY DEF QueueIInv, ListedOnce, QueueTypeOK
<1>3. \A j \in Job : job[j] = "none" => job'[j] = "none"
  <2>1. ASSUME Take PROVE \A j \in Job : job[j] = "none" => job'[j] = "none"
    BY <1>2, <2>1 DEF Take, Move, QueueIInv, QueueTypeOK
  <2>2. ASSUME NEW k \in Job, Send(k) \/ SendRejects(k) \/ Settle(k) \/ Restart(k)
        PROVE  \A j \in Job : job[j] = "none" => job'[j] = "none"
    BY <2>2 DEF Send, SendRejects, Settle, Restart, Move, QueueIInv, QueueTypeOK
  <2>3. ASSUME Crash PROVE \A j \in Job : job[j] = "none" => job'[j] = "none"
    BY <2>3 DEF Crash, Active
  <2> QED BY <2>1, <2>2, <2>3 DEF QueueStep
<1>4. \A j \in Job : copies[j] > 0 => copies'[j] > 0
  <2>1. ASSUME NEW k \in Job, Send(k) \/ SendRejects(k) \/ Settle(k) \/ Restart(k)
        PROVE  \A j \in Job : copies[j] > 0 => copies'[j] > 0
    BY <2>1 DEF Send, SendRejects, Settle, Restart, QueueIInv, QueueTypeOK
  <2> QED BY <2>1 DEF QueueStep, Take, Crash
<1> QED BY <1>1, <1>3, <1>4

-----------------------------------------------------------------------------
(* The limiter. *)

LEMMA Tallies ==
  ASSUME NEW S \in SUBSET Attempt
  PROVE  /\ IsFiniteSet(S) /\ Cardinality(S) \in Nat
         /\ \A a \in Attempt \ S : Cardinality(S \cup {a}) = Cardinality(S) + 1
         /\ \A R \in SUBSET S : Cardinality(R) <= Cardinality(S)
         /\ \A a \in S : Cardinality(S \ {a}) = Cardinality(S) - 1
<1>1. IsFiniteSet(S)
  BY AttemptAssumption, FS_Subset
<1> QED BY <1>1, FS_Subset, FS_CardinalityType, FS_AddElement, FS_RemoveElement

LEMMA TriedInAttempt ==
  ASSUME ActivationTypeOK, NEW t \in Code
  PROVE  Tried(t) \in SUBSET Attempt /\ round[t] \in SUBSET Attempt
BY DEF Tried, ActivationTypeOK

\* A step that writes no counter.
LEMMA SameTried ==
  ASSUME NEW t \in Code, UNCHANGED <<counted, code>>
  PROVE  Tried(t)' = Tried(t)
BY DEF Tried

LEMMA LimiterTypes ==
  ASSUME NEW a \in Attempt, ActivationTypeOK, CountOk(a),
         Receive(a) \/ Activate(a) \/ Break(a)
  PROVE  ActivationTypeOK'
<1> USE DEF ActivationTypeOK, InFlight, Counting, Answer, Goto, Reply, tableVars, limiterVars
<1>1. CASE Receive(a)  BY <1>1 DEF Receive
<1>2. CASE Find(a)     BY <1>2 DEF Find
<1>3. CASE Count(a)    BY <1>3 DEF Count
<1>4. CASE Store(a)
  <2>1. code[a] \in Code /\ count[a] + 1 \in Nat
    OBVIOUS
  <2>2. round' \in [Code -> SUBSET Attempt] /\ attempts' \in [Code -> Nat]
    BY <1>4, <2>1 DEF Store
  <2> QED BY <1>4, <2>2 DEF Store
<1>5. CASE Block(a)    BY <1>5 DEF Block
<1>6. CASE Clear(a)    BY <1>6 DEF Clear, Wipe
<1>7. CASE Save(a)
  <2>1. code[a] \in Signup
    BY <1>7 DEF Save, CountOk
  <2> QED BY <1>7, <2>1 DEF Save
<1>8. CASE Forgive(a)  BY <1>8 DEF Forgive, Wipe
<1>9. CASE Unblock(a)  BY <1>9 DEF Unblock
<1>10. CASE Break(a)   BY <1>10 DEF Break
<1> QED BY <1>1, <1>2, <1>3, <1>4, <1>5, <1>6, <1>7, <1>8, <1>9, <1>10 DEF Activate

\* A call moves between awaits without touching the cache.
LEMMA MoveKeeps ==
  ASSUME NEW a \in Attempt, LimiterIInv, Receive(a) \/ Find(a) \/ Save(a)
  PROVE  LimiterIInv'
<1> USE DEF LimiterIInv
<1>1. ActivationTypeOK'
  BY LimiterTypes DEF Activate
<1>2. /\ UNCHANGED <<attempts, blocked, counted, round, code, count>>
      /\ \A b \in Attempt \ {a} : pc'[b] = pc[b] /\ answer'[b] = answer[b]
      /\ pc[a] \in {"idle", "find", "save"} /\ pc'[a] \in {"done", "find", "save", "count", "forgive"}
      /\ answer'[a] = "none" <=> pc'[a] # "done"
      /\ pc'[a] = "save" => code[a] \in Signup
      /\ pc'[a] = "count" => (Overlaps(a) => code[a] \in disturbed') /\ a \notin counted
      /\ pc'[a] = "find" => a \notin counted
      /\ disturbed \subseteq disturbed'
  BY DEF Receive, Find, Save, Goto, Reply, CountOk, ActivationTypeOK, tableVars, limiterVars, Answer
<1>3. \A t \in Code : Tried(t)' = Tried(t)
  BY <1>2, SameTried
<1>4. ASSUME NEW b \in Attempt PROVE CountOk(b)'
  <2>1. CountOk(b) /\ code[b] \in Code
    BY DEF ActivationTypeOK
  <2> QED BY <2>1, <1>2, <1>3 DEF CountOk
<1>5. ASSUME NEW t \in Code PROVE RoundOk(t)'
  <2>1. RoundOk(t) /\ round[t] \subseteq Attempt
    BY DEF ActivationTypeOK
  <2>2. ASSUME t \notin disturbed' PROVE Undisturbed(t)'
    <3>1. Undisturbed(t)
      BY <2>1, <2>2, <1>2 DEF RoundOk
    <3>2. \A b, c \in Attempt :
            pc'[b] \in Counting /\ pc'[c] \in Counting /\ code[b] = t /\ code[c] = t => b = c
      BY <3>1, <2>2, <1>2 DEF Undisturbed, Overlaps, Counting
    <3>3. \A b \in Attempt : pc'[b] = "store" => pc[b] = "store"
      BY <1>2
    <3>4. \A b \in Attempt : pc[b] \in {"block", "clear"} => pc'[b] = pc[b]
      BY <1>2
    <3> QED BY <3>1, <3>2, <3>3, <3>4, <2>1, <1>2 DEF Undisturbed
  <2>3. (\A b \in round[t] : b \in counted /\ code[b] = t)'
    BY <2>1, <1>2 DEF RoundOk
  <2>4. (attempts[t] <= Cardinality(Tried(t)))' /\ (t \in blocked => Cardinality(Tried(t)) >= Limit)'
    BY <2>1, <1>2, <1>3 DEF RoundOk
  <2> QED BY <2>2, <2>3, <2>4 DEF RoundOk
<1> QED BY <1>1, <1>4, <1>5

LEMMA CountKeeps ==
  ASSUME NEW a \in Attempt, LimiterIInv, Count(a)
  PROVE  LimiterIInv'
<1> USE DEF LimiterIInv
<1>1. ActivationTypeOK'
  BY LimiterTypes DEF Activate
<1>2. /\ UNCHANGED <<attempts, blocked, counted, round, code, answer, disturbed>>
      /\ \A b \in Attempt \ {a} : pc'[b] = pc[b] /\ count'[b] = count[b]
      /\ pc[a] = "count" /\ pc'[a] = "store" /\ count'[a] = attempts[code[a]]
      /\ code[a] \in Code
  BY DEF Count, Goto, ActivationTypeOK, tableVars, limiterVars
<1>3. \A t \in Code : Tried(t)' = Tried(t)
  BY <1>2, SameTried
<1>4. ASSUME NEW b \in Attempt PROVE CountOk(b)'
  <2>1. CountOk(b) /\ code[b] \in Code /\ RoundOk(code[b])
    BY DEF ActivationTypeOK
  <2>2. attempts[code[b]] <= Cardinality(Tried(code[b]))
    BY <2>1 DEF RoundOk
  <2> QED BY <2>1, <2>2, <1>2, <1>3 DEF CountOk
<1>5. ASSUME NEW t \in Code PROVE RoundOk(t)'
  <2>1. RoundOk(t) /\ round[t] \subseteq Attempt
    BY DEF ActivationTypeOK
  <2>2. ASSUME t \notin disturbed' PROVE Undisturbed(t)'
    <3>1. Undisturbed(t)
      BY <2>1, <2>2, <1>2 DEF RoundOk
    <3>2. \A b, c \in Attempt :
            pc'[b] \in Counting /\ pc'[c] \in Counting /\ code[b] = t /\ code[c] = t => b = c
      BY <3>1, <2>2, <1>2 DEF Undisturbed, Counting
    <3>3. code[a] = t => attempts[t] # Limit
      BY <3>1, <1>2, <2>1 DEF Undisturbed, Counting
    <3>4. code[a] = t => Cardinality(round[t]) <= count'[a] /\ count'[a] < Limit
      BY <3>1, <3>3, <1>2, LimitAssumption DEF Undisturbed, ActivationTypeOK
    <3>5. \A b \in Attempt : pc[b] \in {"block", "clear"} => pc'[b] = pc[b]
      BY <1>2
    <3> QED BY <3>1, <3>2, <3>4, <3>5, <2>1, <1>2 DEF Undisturbed
  <2>3. (\A b \in round[t] : b \in counted /\ code[b] = t)'
    BY <2>1, <1>2 DEF RoundOk
  <2>4. (attempts[t] <= Cardinality(Tried(t)))' /\ (t \in blocked => Cardinality(Tried(t)) >= Limit)'
    BY <2>1, <1>2, <1>3 DEF RoundOk
  <2> QED BY <2>2, <2>3, <2>4 DEF RoundOk
<1> QED BY <1>1, <1>4, <1>5

\* The one step that writes a counter.
LEMMA StoreKeeps ==
  ASSUME NEW a \in Attempt, LimiterIInv, Store(a)
  PROVE  LimiterIInv'
<1> DEFINE u == code[a]
<1> USE DEF LimiterIInv
<1>1. ActivationTypeOK'
  BY LimiterTypes DEF Activate
<1>2. /\ UNCHANGED <<blocked, code, disturbed>>
      /\ \A b \in Attempt \ {a} : pc'[b] = pc[b] /\ count'[b] = count[b] /\ answer'[b] = answer[b]
      /\ pc[a] = "store" /\ u \in Code /\ count[a] \in Nat /\ a \notin counted
      /\ attempts'[u] = count[a] + 1 /\ round'[u] = round[u] \cup {a}
      /\ counted' = counted \cup {a}
      /\ \A t \in Code \ {u} : attempts'[t] = attempts[t] /\ round'[t] = round[t]
  BY DEF Store, Goto, Reply, CountOk, ActivationTypeOK, tableVars
<1>3. /\ count[a] + 1 >= Limit => pc'[a] = "block" /\ answer'[a] = answer[a]
      /\ count[a] + 1 < Limit => pc'[a] = "done" /\ answer'[a] = "invalid"
  BY <1>2, LimitAssumption DEF Store, Exceeds, Goto, Reply, ActivationTypeOK
<1>4. \A t \in Code :
        /\ Tried(t)' = IF t = u THEN Tried(t) \cup {a} ELSE Tried(t)
        /\ Tried(t) \in SUBSET Attempt /\ round[t] \in SUBSET Attempt
  BY <1>2 DEF Tried, ActivationTypeOK
<1>5. /\ \A t \in Code : Cardinality(Tried(t)) \in Nat /\ Cardinality(round[t]) \in Nat
      /\ \A t \in Code \ {u} : Cardinality(Tried(t))' = Cardinality(Tried(t))
      /\ Cardinality(Tried(u))' = Cardinality(Tried(u)) + 1
  <2>1. a \notin Tried(u)
    BY <1>2 DEF Tried
  <2> QED BY <2>1, <1>2, <1>4, Tallies
<1>6. Cardinality(round[u])' = Cardinality(round[u]) + 1
  <2>1. a \notin round[u]
    BY <1>2 DEF RoundOk
  <2> QED BY <2>1, <1>2, <1>4, Tallies
<1>7. count[a] <= Cardinality(Tried(u))
  BY <1>2 DEF CountOk
<1>8. ASSUME NEW b \in Attempt PROVE CountOk(b)'
  <2>1. CountOk(b) /\ code[b] \in Code /\ count[b] \in Nat
    BY DEF ActivationTypeOK
  <2>2. Cardinality(Tried(code[b])) <= Cardinality(Tried(code[b]))'
    BY <2>1, <1>5, <1>2
  <2>3. CASE b = a
    BY <2>3, <2>1, <1>2, <1>3, <1>5, <1>7, LimitAssumption DEF CountOk
  <2>4. CASE b # a
    BY <2>4, <2>1, <2>2, <1>2, <1>5, LimitAssumption DEF CountOk
  <2> QED BY <2>3, <2>4
<1>9. ASSUME NEW t \in Code PROVE RoundOk(t)'
  <2>1. RoundOk(t)
    OBVIOUS
  <2>2. CASE t # u
    <3>1. \A b \in Attempt : code[b] = t => pc'[b] = pc[b] /\ count'[b] = count[b]
      BY <2>2, <1>2
    <3>2. attempts'[t] = attempts[t] /\ round'[t] = round[t] /\ round[t] \subseteq Attempt
      BY <2>2, <1>2, <1>4
    <3>3. t \notin disturbed' => Undisturbed(t)'
      BY <2>1, <3>1, <3>2, <1>2 DEF RoundOk, Undisturbed
    <3>4. (\A b \in round[t] : b \in counted /\ code[b] = t)'
      BY <2>1, <3>2, <1>2 DEF RoundOk
    <3>5. (attempts[t] <= Cardinality(Tried(t)))' /\ (t \in blocked => Cardinality(Tried(t)) >= Limit)'
      BY <2>1, <2>2, <3>2, <1>2, <1>5 DEF RoundOk
    <3> QED BY <3>3, <3>4, <3>5 DEF RoundOk
  <2>3. CASE t = u
    <3>1. ASSUME u \notin disturbed PROVE Undisturbed(u)'
      <4>1. Undisturbed(u)
        BY <2>1, <2>3, <3>1 DEF RoundOk
      <4>2. Cardinality(round[u]) <= count[a] /\ count[a] < Limit
        BY <4>1, <1>2 DEF Undisturbed
      <4>3. (Cardinality(round[u]) <= attempts[u] /\ attempts[u] <= Limit)'
        BY <4>2, <1>2, <1>5, <1>6, LimitAssumption
      <4>4. \A b \in Attempt \ {a} : code[b] = u => pc'[b] \notin Counting
        BY <4>1, <1>2 DEF Undisturbed, Counting
      <4>5. attempts'[u] = Limit => a \in round'[u] /\ pc'[a] = "block"
        BY <1>2, <1>3, LimitAssumption
      <4>6. pc'[a] # "store"
        BY <1>2, <1>3, LimitAssumption
      <4> QED BY <4>3, <4>4, <4>5, <4>6, <1>2 DEF Undisturbed, Counting
    <3>2. (\A b \in round[u] : b \in counted /\ code[b] = u)'
      BY <2>1, <2>3, <1>2 DEF RoundOk
    <3>3. (attempts[u] <= Cardinality(Tried(u)))' /\ (u \in blocked => Cardinality(Tried(u)) >= Limit)'
      BY <2>1, <2>3, <1>2, <1>5, <1>7, LimitAssumption DEF RoundOk
    <3> QED BY <2>3, <3>1, <3>2, <3>3, <1>2 DEF RoundOk
  <2> QED BY <2>2, <2>3
<1> QED BY <1>1, <1>8, <1>9

LEMMA BlockKeeps ==
  ASSUME NEW a \in Attempt, LimiterIInv, Block(a)
  PROVE  LimiterIInv'
<1> USE DEF LimiterIInv
<1>1. ActivationTypeOK'
  BY LimiterTypes DEF Activate
<1>2. /\ UNCHANGED <<attempts, counted, round, code, count, answer, disturbed>>
      /\ \A b \in Attempt \ {a} : pc'[b] = pc[b]
      /\ pc[a] = "block" /\ pc'[a] = "clear" /\ blocked' = blocked \cup {code[a]}
      /\ code[a] \in Code
  BY DEF Block, Goto, ActivationTypeOK, tableVars
<1>3. \A t \in Code : Tried(t)' = Tried(t)
  BY <1>2, SameTried
<1>4. ASSUME NEW b \in Attempt PROVE CountOk(b)'
  <2>1. CountOk(b) /\ code[b] \in Code
    BY DEF ActivationTypeOK
  <2> QED BY <2>1, <1>2, <1>3 DEF CountOk
<1>5. ASSUME NEW t \in Code PROVE RoundOk(t)'
  <2>1. RoundOk(t) /\ CountOk(a) /\ round[t] \subseteq Attempt
    BY DEF ActivationTypeOK
  <2>2. ASSUME t \notin disturbed' PROVE Undisturbed(t)'
    <3>1. Undisturbed(t)
      BY <2>1, <2>2, <1>2 DEF RoundOk
    <3>2. \A b \in Attempt : /\ pc'[b] \in Counting <=> pc[b] \in Counting
                             /\ pc'[b] = "store" <=> pc[b] = "store"
                             /\ pc'[b] \in {"block", "clear"} <=> pc[b] \in {"block", "clear"}
      BY <1>2 DEF Counting
    <3> QED BY <3>1, <3>2, <2>1, <1>2 DEF Undisturbed
  <2>3. (\A b \in round[t] : b \in counted /\ code[b] = t)'
    BY <2>1, <1>2 DEF RoundOk
  <2>4. (attempts[t] <= Cardinality(Tried(t)))' /\ (t \in blocked => Cardinality(Tried(t)) >= Limit)'
    BY <2>1, <1>2, <1>3 DEF RoundOk, CountOk
  <2> QED BY <2>2, <2>3, <2>4 DEF RoundOk
<1> QED BY <1>1, <1>4, <1>5

\* The counter of a code is deleted, by a call that is not between Count and Store.
LEMMA WipeKeeps ==
  ASSUME NEW a \in Attempt, LimiterIInv, Clear(a) \/ Forgive(a)
  PROVE  LimiterIInv'
<1> DEFINE u == code[a]
<1> USE DEF LimiterIInv
<1>1. ActivationTypeOK'
  BY LimiterTypes DEF Activate
<1>2. /\ UNCHANGED <<blocked, counted, code, count, disturbed>>
      /\ \A b \in Attempt \ {a} : pc'[b] = pc[b] /\ answer'[b] = answer[b]
      /\ pc[a] \in {"clear", "forgive"} /\ pc'[a] \in {"done", "unblock"}
      /\ answer'[a] = "none" <=> pc'[a] # "done"
      /\ u \in Code /\ attempts'[u] = 0 /\ round'[u] = {}
      /\ \A t \in Code \ {u} : attempts'[t] = attempts[t] /\ round'[t] = round[t]
  BY DEF Clear, Forgive, Wipe, Goto, Reply, CountOk, ActivationTypeOK, tableVars
<1>3. \A t \in Code : /\ Tried(t)' = Tried(t)
                      /\ Cardinality(Tried(t)) \in Nat
  BY <1>2, SameTried, TriedInAttempt, Tallies
<1>4. Cardinality(round[u])' = 0
  BY <1>2, FS_EmptySet
<1>5. ASSUME NEW b \in Attempt PROVE CountOk(b)'
  <2>1. CountOk(b) /\ code[b] \in Code
    BY DEF ActivationTypeOK
  <2> QED BY <2>1, <1>2, <1>3 DEF CountOk
<1>6. ASSUME NEW t \in Code PROVE RoundOk(t)'
  <2>1. RoundOk(t) /\ round[t] \subseteq Attempt
    BY DEF ActivationTypeOK
  <2>2. ASSUME t \notin disturbed' PROVE Undisturbed(t)'
    <3>1. Undisturbed(t)
      BY <2>1, <2>2, <1>2 DEF RoundOk
    <3>2. \A b \in Attempt : pc'[b] \in Counting => pc'[b] = pc[b] /\ pc[b] \in Counting /\ b # a
      BY <1>2 DEF Counting
    <3>3. CASE t = u
      <4>1. \A b \in Attempt : count'[b] = count[b] /\ count[b] \in Nat
        BY <1>2 DEF ActivationTypeOK
      <4> QED BY <3>1, <3>2, <3>3, <4>1, <1>2, <1>4, LimitAssumption DEF Undisturbed, Counting
    <3>4. CASE t # u
      <4>1. \A b \in Attempt : pc[b] \in {"block", "clear"} /\ code[b] = t => pc'[b] = pc[b]
        BY <3>4, <1>2
      <4> QED BY <3>1, <3>2, <3>4, <4>1, <2>1, <1>2 DEF Undisturbed, Counting
    <3> QED BY <3>3, <3>4
  <2>3. (\A b \in round[t] : b \in counted /\ code[b] = t)'
    BY <2>1, <1>2 DEF RoundOk
  <2>4. (attempts[t] <= Cardinality(Tried(t)))' /\ (t \in blocked => Cardinality(Tried(t)) >= Limit)'
    BY <2>1, <1>2, <1>3 DEF RoundOk
  <2> QED BY <2>2, <2>3, <2>4 DEF RoundOk
<1> QED BY <1>1, <1>5, <1>6

\* A call ends without a counter, or after a failure, which disturbs it.
LEMMA EndKeeps ==
  ASSUME NEW a \in Attempt, LimiterIInv, Unblock(a) \/ Break(a)
  PROVE  LimiterIInv'
<1> USE DEF LimiterIInv
<1>1. ActivationTypeOK'
  BY LimiterTypes DEF Activate
<1>2. /\ UNCHANGED <<attempts, counted, round, code>>
      /\ \A b \in Attempt \ {a} : pc'[b] = pc[b] /\ answer'[b] = answer[b] /\ count'[b] = count[b]
      /\ pc'[a] = "done" /\ answer'[a] # "none"
      /\ pc[a] \in Counting => code[a] \in disturbed'
      /\ disturbed \subseteq disturbed' /\ blocked' \subseteq blocked
  BY DEF Unblock, Break, Reply, ActivationTypeOK, tableVars, Counting
<1>3. \A t \in Code : Tried(t)' = Tried(t)
  BY <1>2, SameTried
<1>4. ASSUME NEW b \in Attempt PROVE CountOk(b)'
  <2>1. CountOk(b) /\ code[b] \in Code
    BY DEF ActivationTypeOK
  <2> QED BY <2>1, <1>2, <1>3 DEF CountOk
<1>5. ASSUME NEW t \in Code PROVE RoundOk(t)'
  <2>1. RoundOk(t) /\ round[t] \subseteq Attempt
    BY DEF ActivationTypeOK
  <2>2. ASSUME t \notin disturbed' PROVE Undisturbed(t)'
    <3>1. Undisturbed(t)
      BY <2>1, <2>2, <1>2 DEF RoundOk
    <3>2. \A b \in Attempt : pc'[b] \in Counting => pc'[b] = pc[b] /\ b # a
      BY <1>2 DEF Counting
    <3>3. \A b \in Attempt : pc[b] \in {"block", "clear"} /\ code[b] = t => pc'[b] = pc[b]
      BY <1>2, <2>2 DEF Counting
    <3> QED BY <3>1, <3>2, <3>3, <2>1, <1>2 DEF Undisturbed, Counting
  <2>3. (\A b \in round[t] : b \in counted /\ code[b] = t)'
    BY <2>1, <1>2 DEF RoundOk
  <2>4. (attempts[t] <= Cardinality(Tried(t)))' /\ (t \in blocked => Cardinality(Tried(t)) >= Limit)'
    BY <2>1, <1>2, <1>3 DEF RoundOk
  <2> QED BY <2>2, <2>3, <2>4 DEF RoundOk
<1> QED BY <1>1, <1>4, <1>5

LEMMA ExpireKeeps ==
  ASSUME NEW u \in Code, LimiterIInv, Expire(u)
  PROVE  LimiterIInv'
<1> USE DEF LimiterIInv
<1>1. ActivationTypeOK'
  BY DEF Expire, ActivationTypeOK, tableVars
<1>2. /\ UNCHANGED <<pc, code, count, answer, counted, round>>
      /\ \A t \in Code : attempts'[t] = attempts[t] \/ (t \in disturbed' /\ attempts'[t] = 0)
      /\ disturbed \subseteq disturbed' /\ blocked' \subseteq blocked
  BY DEF Expire, ActivationTypeOK
<1>3. \A t \in Code : Tried(t)' = Tried(t) /\ Cardinality(Tried(t)) \in Nat
  BY <1>2, SameTried, TriedInAttempt, Tallies
<1>4. \A b \in Attempt : CountOk(b)'
  BY <1>2, <1>3 DEF CountOk, ActivationTypeOK
<1>5. ASSUME NEW t \in Code PROVE RoundOk(t)'
  <2>1. RoundOk(t)
    OBVIOUS
  <2>2. t \notin disturbed' => Undisturbed(t)'
    BY <2>1, <1>2 DEF RoundOk, Undisturbed
  <2>3. (attempts[t] <= Cardinality(Tried(t)))' /\ (t \in blocked => Cardinality(Tried(t)) >= Limit)'
    BY <2>1, <1>2, <1>3 DEF RoundOk
  <2> QED BY <2>1, <2>2, <2>3, <1>2 DEF RoundOk
<1> QED BY <1>1, <1>4, <1>5

\* A step of others that leaves the limiter alone.
LEMMA ElsewhereKeeps ==
  ASSUME LimiterIInv, UNCHANGED <<limiterVars, pc, code, count, answer>>,
         status' \in [Signup -> {"none", "INACTIVE", "ACTIVE"}],
         stored' \subseteq Signup, spent' \subseteq Signup
  PROVE  LimiterIInv'
<1>1. ActivationTypeOK'
  BY DEF LimiterIInv, ActivationTypeOK, limiterVars
<1>2. \A t \in Code : Tried(t)' = Tried(t)
  BY SameTried DEF limiterVars
<1>3. \A a \in Attempt : CountOk(a)'
  BY <1>2 DEF LimiterIInv, CountOk, limiterVars, ActivationTypeOK
<1>4. \A t \in Code : RoundOk(t)'
  BY <1>2 DEF LimiterIInv, RoundOk, Undisturbed, limiterVars
<1> QED BY <1>1, <1>3, <1>4 DEF LimiterIInv

LEMMA LimiterKeeps ==
  ASSUME NEW a \in Attempt, LimiterIInv, Receive(a) \/ Activate(a) \/ Break(a)
  PROVE  LimiterIInv'
BY MoveKeeps, CountKeeps, StoreKeeps, BlockKeeps, WipeKeeps, EndKeeps DEF Activate

-----------------------------------------------------------------------------
(* The composition. *)

LEMMA OnboardingInit == Init => OnboardingIInv
<1> SUFFICES ASSUME Init PROVE OnboardingIInv
  OBVIOUS
<1> USE DEF Init, QueueInit, ActivationInit
<1>1. OnboardingTypeOK
  BY DEF OnboardingTypeOK, QueueTypeOK, ActivationTypeOK
<1>2. QueueIInv
  BY DEF OnboardingTypeOK, QueueTypeOK, QueueIInv, ListedOnce, CopiesOk
<1>3. \A a \in Attempt : CountOk(a) /\ CodeOk(a)
  BY <1>1 DEF CountOk, CodeOk, Counting, OnboardingTypeOK, ActivationTypeOK
<1>4. ASSUME NEW t \in Code PROVE RoundOk(t)
  <2>1. Tried(t) = {} /\ round[t] = {} /\ Cardinality({}) = 0
    BY FS_EmptySet DEF Tried
  <2> QED BY <2>1, LimitAssumption DEF RoundOk, Undisturbed, Counting
<1>5. \A s \in Signup : WelcomeOk(s)
  BY WelcomeAssumption DEF WelcomeOk
<1> QED BY <1>1, <1>2, <1>3, <1>4, <1>5 DEF OnboardingIInv, LimiterIInv, OnboardingTypeOK

\* A step of userRegister.
LEMMA RegisterKeeps ==
  ASSUME NEW s \in Signup, OnboardingIInv,
         FindAddress(s) \/ Register(s) \/ RegisterFails(s)
  PROVE  OnboardingIInv'
<1> USE DEF OnboardingIInv, At, After, Registering
<1>1. s \in Job
  BY WelcomeAssumption
<1>2. CASE EnqueueWelcome(s)
  <2>1. job[s] = "none" /\ regPc[s] = "enqueue" /\ regPc' = [regPc EXCEPT ![s] = "registered"]
    BY <1>2 DEF EnqueueWelcome, WelcomeOk
  <2>2. QueueIInv'
    BY <1>1, <1>2, <2>1, AddKeeps DEF EnqueueWelcome
  <2>3. /\ UNCHANGED activationVars /\ copies' = copies
        /\ \A j \in Job \ {s} : job'[j] = job[j]
    BY <1>2 DEF EnqueueWelcome, Add, Move, OnboardingTypeOK, QueueTypeOK
  <2>4. LimiterIInv'
    BY <2>3, ElsewhereKeeps DEF activationVars, LimiterIInv, ActivationTypeOK, limiterVars
  <2>5. \A a \in Attempt : CodeOk(a)'
    BY <2>3 DEF CodeOk, activationVars
  <2>6. \A r \in Signup : WelcomeOk(r)'
    BY <2>1, <2>3, WelcomeAssumption DEF WelcomeOk, activationVars, OnboardingTypeOK
  <2>7. OnboardingTypeOK'
    BY <2>1, <2>2, <2>4 DEF OnboardingTypeOK, QueueIInv, LimiterIInv
  <2> QED BY <2>2, <2>4, <2>5, <2>6, <2>7
<1>3. CASE InsertUser(s)
  <2>1. /\ UNCHANGED <<queueVars, limiterVars, pc, code, count, answer, spent>>
        /\ status' = [status EXCEPT ![s] = "INACTIVE"] /\ stored' = stored \cup {s}
        /\ regPc' = [regPc EXCEPT ![s] = "enqueue"] /\ regPc[s] = "insert"
    BY <1>3 DEF InsertUser, NewStatus
  <2>2. QueueIInv'
    BY <2>1 DEF QueueIInv, QueueTypeOK, ListedOnce, CopiesOk, queueVars
  <2>3. LimiterIInv'
    BY <2>1, ElsewhereKeeps DEF LimiterIInv, ActivationTypeOK
  <2>4. \A a \in Attempt : CodeOk(a)'
    BY <2>1 DEF CodeOk, queueVars
  <2>5. \A r \in Signup : WelcomeOk(r)'
    BY <2>1 DEF WelcomeOk, queueVars, limiterVars, OnboardingTypeOK
  <2>6. OnboardingTypeOK'
    BY <2>1, <2>2, <2>3 DEF OnboardingTypeOK, QueueIInv, LimiterIInv
  <2> QED BY <2>2, <2>3, <2>4, <2>5, <2>6
<1>4. CASE FindAddress(s) \/ RegisterFails(s)
  <2>1. /\ UNCHANGED <<queueVars, activationVars>>
        /\ \E l \in {"insert", "failed"} : regPc' = [regPc EXCEPT ![s] = l]
        /\ regPc[s] # "registered"
    BY <1>4 DEF FindAddress, RegisterFails
  <2>2. QueueIInv'
    BY <2>1 DEF QueueIInv, QueueTypeOK, ListedOnce, CopiesOk, queueVars
  <2>3. LimiterIInv'
    BY <2>1, ElsewhereKeeps DEF LimiterIInv, ActivationTypeOK, activationVars, limiterVars
  <2>4. \A a \in Attempt : CodeOk(a)'
    BY <2>1 DEF CodeOk, queueVars, activationVars
  <2>5. \A r \in Signup : WelcomeOk(r)'
    BY <2>1 DEF WelcomeOk, queueVars, activationVars, OnboardingTypeOK
  <2>6. OnboardingTypeOK'
    BY <2>1, <2>2, <2>3 DEF OnboardingTypeOK, QueueIInv, LimiterIInv
  <2> QED BY <2>2, <2>3, <2>4, <2>5, <2>6
<1> QED BY <1>2, <1>3, <1>4 DEF Register

LEMMA AdministratorKeeps ==
  ASSUME NEW s \in Signup, OnboardingIInv, SetStatus(s) \/ DeleteUser(s)
  PROVE  OnboardingIInv'
<1> USE DEF OnboardingIInv
<1>1. /\ UNCHANGED <<queueVars, limiterVars, pc, code, count, answer, regPc>>
      /\ status' \in [Signup -> {"none", "INACTIVE", "ACTIVE"}]
      /\ stored \subseteq stored' \cup spent' /\ spent \subseteq spent'
      /\ stored' \subseteq Signup /\ spent' \subseteq Signup
  BY DEF SetStatus, DeleteUser, LimiterIInv, ActivationTypeOK
<1>2. QueueIInv'
  BY <1>1 DEF QueueIInv, QueueTypeOK, ListedOnce, CopiesOk, queueVars
<1>3. LimiterIInv'
  BY <1>1, ElsewhereKeeps
<1>4. \A a \in Attempt : CodeOk(a)'
  BY <1>1 DEF CodeOk, queueVars
<1>5. \A r \in Signup : WelcomeOk(r)'
  BY <1>1 DEF WelcomeOk, queueVars, limiterVars
<1>6. OnboardingTypeOK'
  BY <1>1, <1>2, <1>3 DEF OnboardingTypeOK, QueueIInv, LimiterIInv
<1> QED BY <1>2, <1>3, <1>4, <1>5, <1>6

\* A step of userActive, or of its cache.
LEMMA ActivationKeeps ==
  ASSUME NEW a \in Attempt, OnboardingIInv,
         Submit(a) \/ ((Activate(a) \/ Break(a)) /\ UNCHANGED <<queueVars, regPc>>)
  PROVE  OnboardingIInv'
<1> USE DEF OnboardingIInv
<1>1. Receive(a) \/ Activate(a) \/ Break(a)
  BY DEF Submit
<1>2. UNCHANGED <<queueVars, regPc>>
  BY DEF Submit
<1>3. LimiterIInv' /\ QueueIInv' /\ OnboardingTypeOK'
  BY <1>1, <1>2, LimiterKeeps
     DEF QueueIInv, QueueTypeOK, ListedOnce, CopiesOk, queueVars, OnboardingTypeOK, LimiterIInv
<1>4. ActivationTypeOK /\ code' = code /\ spent \subseteq spent' /\ stored \subseteq stored' \cup spent'
  BY <1>1 DEF LimiterIInv, Receive, Activate, Find, Count, Store, Block, Clear, Save, Forgive,
              Unblock, Break, tableVars
<1>5. \A b \in Attempt \ {a} : pc'[b] = pc[b] /\ answer'[b] = answer[b]
  BY <1>1, <1>4 DEF ActivationTypeOK, Receive, Activate, Find, Count, Store, Block, Clear, Save,
              Forgive, Unblock, Break, Goto, Reply
<1>6. ASSUME code[a] \in Signup
      PROVE  /\ copies[code[a]] > 0
             /\ pc'[a] \in Counting \/ answer'[a] \in {"invalid", "limited"} => code[a] \in spent'
  <2>1. copies[code[a]] > 0
    BY <1>1, <1>6 DEF Submit, Activate, Find, Count, Store, Block, Clear, Save, Forgive, Unblock,
                     Break, InFlight, CodeOk, Counting
  <2>2. code[a] \in stored \cup spent
    <3>1. job[code[a]] # "none"
      BY <1>6, <2>1, WelcomeAssumption DEF QueueIInv, CopiesOk
    <3> QED BY <3>1, <1>6 DEF WelcomeOk
  <2>3. CASE Receive(a)
    <3>1. code[a] \in blocked => code[a] \in spent
      BY <1>6 DEF WelcomeOk
    <3>2. /\ pc'[a] \in {"done", "find"} /\ spent' = spent
          /\ pc'[a] = "find" => answer'[a] = answer[a]
          /\ pc'[a] = "done" => code[a] \in blocked
      BY <2>3, <1>4 DEF Receive, Goto, Reply, ActivationTypeOK, tableVars
    <3>3. answer[a] = "none"
      BY <2>3 DEF Receive, LimiterIInv, CountOk
    <3> QED BY <2>1, <3>1, <3>2, <3>3 DEF Counting
  <2>4. CASE Find(a)
    BY <2>4, <2>2, <1>4, <1>6 DEF Find, Goto, Reply, ActivationTypeOK, Counting, CodeOk
  <2>5. CASE Count(a) \/ Store(a) \/ Block(a) \/ Clear(a)
    BY <2>5, <1>4, <1>6 DEF Count, Store, Block, Clear, CodeOk, Counting
  <2>6. CASE Save(a) \/ Forgive(a) \/ Unblock(a) \/ Break(a)
    BY <2>6, <1>4, <1>6 DEF Save, Forgive, Unblock, Break, Goto, Reply, ActivationTypeOK, Counting,
                            CodeOk, InFlight, LimiterIInv, CountOk
  <2> QED BY <2>1, <2>3, <2>4, <2>5, <2>6, <1>1 DEF Activate
<1>7. ASSUME NEW b \in Attempt PROVE CodeOk(b)'
  BY <1>2, <1>4, <1>5, <1>6 DEF CodeOk, queueVars
<1>8. ASSUME NEW s \in Signup, s \in blocked' PROVE s \in spent'
  <2>1. CASE s \in blocked
    BY <2>1, <1>4 DEF WelcomeOk
  <2>2. CASE s \notin blocked
    <3>1. Block(a) /\ s = code[a]
      BY <1>1, <1>8, <2>2 DEF Receive, Activate, Find, Count, Store, Block, Clear, Save, Forgive,
                              Unblock, Break, Wipe, limiterVars
    <3> QED BY <3>1, <1>4 DEF Block, CodeOk, Counting
  <2> QED BY <2>1, <2>2
<1>9. \A s \in Signup : WelcomeOk(s)'
  BY <1>2, <1>4, <1>8 DEF WelcomeOk, queueVars
<1> QED BY <1>3, <1>7, <1>9

\* A step of the queue, or of another producer.
LEMMA QueueSideKeeps ==
  ASSUME OnboardingIInv,
         \/ (QueueStep \/ Crash) /\ UNCHANGED <<activationVars, regPc>>
         \/ \E j \in Job : AddOther(j)
  PROVE  OnboardingIInv'
<1> USE DEF OnboardingIInv
<1>1. UNCHANGED <<activationVars, regPc>>
  BY DEF AddOther
<1>2. /\ QueueIInv'
      /\ \A j \in Job : copies[j] > 0 => copies'[j] > 0
      /\ \A s \in Signup : job[s] = "none" => job'[s] = "none"
  <2>1. CASE QueueStep \/ Crash
    BY <2>1, QueueKeeps, WelcomeAssumption
  <2>2. ASSUME NEW j \in Job, AddOther(j)
        PROVE  /\ QueueIInv' /\ copies' = copies
               /\ \A s \in Signup : job[s] = "none" => job'[s] = "none"
    <3>1. QueueIInv'
      BY <2>2, AddKeeps DEF AddOther
    <3>2. \A s \in Signup : s # j
      BY <2>2 DEF AddOther
    <3> QED BY <2>2, <3>1, <3>2, WelcomeAssumption DEF AddOther, Add, Move, QueueIInv, QueueTypeOK
  <2> QED BY <2>1, <2>2
<1>3. LimiterIInv'
  BY <1>1, ElsewhereKeeps DEF LimiterIInv, ActivationTypeOK, activationVars, limiterVars
<1>4. \A a \in Attempt : CodeOk(a)'
  BY <1>1, <1>2, WelcomeAssumption DEF CodeOk, activationVars
<1>5. \A s \in Signup : WelcomeOk(s)'
  BY <1>1, <1>2 DEF WelcomeOk, activationVars
<1>6. OnboardingTypeOK'
  BY <1>1, <1>2, <1>3 DEF OnboardingTypeOK, QueueIInv, LimiterIInv
<1> QED BY <1>2, <1>3, <1>4, <1>5, <1>6

LEMMA ExpiryKeeps ==
  ASSUME NEW t \in Code, OnboardingIInv, Expire(t), UNCHANGED <<queueVars, regPc>>
  PROVE  OnboardingIInv'
<1> USE DEF OnboardingIInv
<1>1. LimiterIInv' /\ UNCHANGED <<tableVars, pc, code, answer>> /\ blocked' \subseteq blocked
  BY ExpireKeeps DEF Expire
<1>2. QueueIInv' /\ OnboardingTypeOK'
  BY <1>1 DEF QueueIInv, QueueTypeOK, ListedOnce, CopiesOk, queueVars, OnboardingTypeOK, LimiterIInv
<1>3. \A a \in Attempt : CodeOk(a)'
  BY <1>1 DEF CodeOk, queueVars, tableVars
<1>4. \A s \in Signup : WelcomeOk(s)'
  BY <1>1 DEF WelcomeOk, queueVars, tableVars
<1> QED BY <1>1, <1>2, <1>3, <1>4

LEMMA OnboardingStep == OnboardingIInv /\ [Next]_vars => OnboardingIInv'
<1> SUFFICES ASSUME OnboardingIInv, [Next]_vars PROVE OnboardingIInv'
  OBVIOUS
<1>1. CASE UNCHANGED vars
  <2>1. UNCHANGED <<queueVars, activationVars, regPc>>
    BY <1>1 DEF vars
  <2>2. LimiterIInv'
    BY <2>1, ElsewhereKeeps DEF OnboardingIInv, LimiterIInv, ActivationTypeOK, activationVars, limiterVars
  <2>3. QueueIInv' /\ OnboardingTypeOK'
    BY <2>1, <2>2 DEF OnboardingIInv, QueueIInv, QueueTypeOK, ListedOnce, CopiesOk, queueVars,
                      OnboardingTypeOK, LimiterIInv
  <2>4. (\A a \in Attempt : CodeOk(a)') /\ (\A s \in Signup : WelcomeOk(s)')
    BY <2>1 DEF OnboardingIInv, CodeOk, WelcomeOk, queueVars, activationVars
  <2> QED BY <2>2, <2>3, <2>4 DEF OnboardingIInv
<1>2. CASE Next
  BY <1>2, RegisterKeeps, AdministratorKeeps, ActivationKeeps, QueueSideKeeps, ExpiryKeeps DEF Next
<1> QED BY <1>1, <1>2

\* The inductive invariant of the way from registration to activation holds.
THEOREM OnboardingInvariant == Spec => []OnboardingIInv
BY OnboardingInit, OnboardingStep, PTL DEF Spec

\* Every variable of queue, limiter and registration keeps its type.
THEOREM OnboardingTypeCorrect == Spec => []OnboardingTypeOK
<1>1. OnboardingIInv => OnboardingTypeOK
  BY DEF OnboardingIInv
<1> QED BY <1>1, OnboardingInvariant, PTL

\* A completed job was mailed, and no job is mailed more than twice, whatever the
\* number of jobs, handlers and crashes.
THEOREM QueueTellsTheTruth == Spec => []MailedAsBullSays
<1>1. OnboardingIInv => MailedAsBullSays
  BY DEF OnboardingIInv, QueueIInv, CopiesOk, MailedAsBullSays
<1> QED BY <1>1, OnboardingInvariant, PTL

\* Bull finds a job without its worker only as often as the process died over it.
DeathsOk(j) ==
  /\ stalls[j] <= crashes
  /\ job[j] = "stalled" => stalls[j] < crashes
DeathsInv == \A j \in Job : DeathsOk(j)

\* A mail goes out again for a crash only.
RepeatsAreCrashes == \A j \in Job : copies[j] <= 1 + crashes

LEMMA DeathsStep == OnboardingIInv /\ DeathsInv /\ [Next]_vars => DeathsInv'
<1> SUFFICES ASSUME OnboardingIInv, DeathsInv, [Next]_vars, NEW j \in Job PROVE DeathsOk(j)'
  BY DEF DeathsInv
<1> USE DEF DeathsOk
<1>1. /\ QueueTypeOK /\ ListedOnce /\ DeathsOk(j)
      /\ stalls[j] \in Nat /\ crashes \in Nat
  BY DEF OnboardingIInv, QueueIInv, QueueTypeOK, DeathsInv
<1>2. ASSUME NEW k \in Job, Add(k) PROVE DeathsOk(j)'
  BY <1>1, <1>2 DEF Add, Move, QueueTypeOK
<1>3. CASE Take
  BY <1>1, <1>3 DEF Take, Move, QueueTypeOK
<1>4. ASSUME NEW k \in Job, Send(k) \/ SendRejects(k) \/ Settle(k) PROVE DeathsOk(j)'
  BY <1>1, <1>4 DEF Send, SendRejects, Settle, OutcomeOf, Move, QueueTypeOK
<1>5. ASSUME NEW k \in Job, Restart(k) PROVE DeathsOk(j)'
  <2>1. /\ job[k] = "stalled" /\ stalls[k] < crashes /\ UNCHANGED crashes
        /\ stalls'[j] = (IF j = k THEN stalls[j] + 1 ELSE stalls[j])
        /\ j # k => job'[j] = job[j]
        /\ job'[k] # "stalled"
    BY <1>5 DEF Restart, Move, QueueTypeOK, OnboardingIInv, QueueIInv, DeathsInv
  <2> QED BY <1>1, <2>1
<1>6. CASE Crash
  <2>1. crashes' = crashes + 1 /\ UNCHANGED stalls
    BY <1>6 DEF Crash
  <2> QED BY <1>1, <2>1
<1>7. CASE UNCHANGED queueVars
  BY <1>1, <1>7 DEF queueVars
<1>8. \A s \in Signup : s \in Job
  BY WelcomeAssumption
<1>9. ASSUME NEW s \in Signup,
             FindAddress(s) \/ Register(s) \/ RegisterFails(s) \/ SetStatus(s) \/ DeleteUser(s)
      PROVE  DeathsOk(j)'
  <2>1. Add(s) \/ UNCHANGED queueVars
    BY <1>9 DEF FindAddress, Register, InsertUser, EnqueueWelcome, RegisterFails, SetStatus, DeleteUser
  <2> QED BY <2>1, <1>2, <1>7, <1>8
<1>10. ASSUME NEW k \in Job, AddOther(k) PROVE DeathsOk(j)'
  BY <1>2, <1>10 DEF AddOther
<1>11. ASSUME NEW a \in Attempt, Submit(a) PROVE DeathsOk(j)'
  BY <1>7, <1>11 DEF Submit
<1>12. CASE UNCHANGED vars
  BY <1>7, <1>12 DEF vars
<1>13. CASE QueueStep
  BY <1>3, <1>4, <1>5, <1>13 DEF QueueStep
<1> QED BY <1>6, <1>7, <1>9, <1>10, <1>11, <1>12, <1>13 DEF Next

\* No mail goes out more often than once and once for each crash of the processor:
\* while it does not die, no client gets a mail twice.
THEOREM RepeatsNeedCrashes == Spec => []RepeatsAreCrashes
<1>1. Init => DeathsInv
  BY DEF Init, QueueInit, DeathsInv, DeathsOk
<1>2. Spec => []DeathsInv
  BY <1>1, DeathsStep, OnboardingInvariant, PTL DEF Spec
<1>3. OnboardingIInv /\ DeathsInv => RepeatsAreCrashes
  <2> SUFFICES ASSUME OnboardingIInv, DeathsInv, NEW j \in Job PROVE copies[j] <= 1 + crashes
    BY DEF RepeatsAreCrashes
  <2>1. copies[j] <= 1 + stalls[j] /\ stalls[j] <= crashes
    BY DEF OnboardingIInv, QueueIInv, CopiesOk, DeathsInv, DeathsOk
  <2>2. copies[j] \in Nat /\ stalls[j] \in Nat /\ crashes \in Nat
    BY DEF OnboardingIInv, QueueIInv, QueueTypeOK
  <2> QED BY <2>1, <2>2
<1> QED BY <1>2, <1>3, OnboardingInvariant, PTL

\* A mailed code is refused only when it was used or its account is gone.
THEOREM MailedCodesWork == Spec => []CodeRefusedOnlyIfUsed
<1>1. OnboardingIInv => CodeRefusedOnlyIfUsed
  BY DEF OnboardingIInv, CodeOk, CodeRefusedOnlyIfUsed
<1> QED BY <1>1, OnboardingInvariant, PTL

\* A blocked code was wrong Limit times.
THEOREM BlockedForReason == Spec => []NeverBlockedEarly
<1>1. OnboardingIInv => NeverBlockedEarly
  <2>1. OnboardingIInv => blocked \subseteq Code
    BY DEF OnboardingIInv, LimiterIInv, ActivationTypeOK
  <2> QED BY <2>1 DEF OnboardingIInv, LimiterIInv, RoundOk, NeverBlockedEarly
<1> QED BY <1>1, OnboardingInvariant, PTL

\* Fewer than Limit undisturbed calls with a code learn that it is wrong.
THEOREM LimiterIsExact == Spec => []LimitHolds
<1>1. ASSUME OnboardingIInv, NEW t \in Code \ disturbed
      PROVE  Cardinality({a \in round[t] : answer[a] = "invalid"}) < Limit
  <2> DEFINE S == {a \in round[t] : answer[a] = "invalid"}
  <2>1. /\ round[t] \in SUBSET Attempt /\ Undisturbed(t) /\ attempts[t] \in Nat
        /\ \A a \in Attempt : CountOk(a)
    BY <1>1 DEF OnboardingIInv, LimiterIInv, ActivationTypeOK, RoundOk
  <2>2. Cardinality(round[t]) \in Nat /\ Cardinality(S) \in Nat /\ Cardinality(S) <= Cardinality(round[t])
    BY <2>1, Tallies
  <2>3. CASE attempts[t] < Limit
    BY <2>1, <2>2, <2>3, LimitAssumption DEF Undisturbed
  <2>4. CASE attempts[t] = Limit
    <3>1. PICK a \in round[t] : pc[a] \in {"block", "clear"}
      BY <2>1, <2>4 DEF Undisturbed
    <3>2. answer[a] = "none"
      BY <2>1, <3>1 DEF CountOk
    <3>3. S \in SUBSET (round[t] \ {a}) /\ round[t] \ {a} \in SUBSET Attempt
      BY <2>1, <3>2
    <3>4. Cardinality(round[t] \ {a}) = Cardinality(round[t]) - 1
      BY <2>1, <3>1, Tallies
    <3>5. Cardinality(S) <= Cardinality(round[t] \ {a})
      BY <3>3, Tallies
    <3> QED BY <2>1, <2>2, <3>4, <3>5, LimitAssumption DEF Undisturbed
  <2> QED BY <2>1, <2>3, <2>4, LimitAssumption DEF Undisturbed
<1>2. OnboardingIInv => LimitHolds
  BY <1>1 DEF LimitHolds
<1> QED BY <1>2, OnboardingInvariant, PTL
=============================================================================
