--------------------- MODULE IngestionQueueDisk_proofs ---------------------
(***************************************************************************)
(* Proofs about the ingestion queue in memory, in the saves under way and  *)
(* in the file, across refused saves, deaths and restarts.  They rest on   *)
(* the types, the identity of records and the exclusion between calls of   *)
(* tick that IngestionQueue_proofs establishes.                            *)
(*                                                                         *)
(* The last part: the file is a work queue, as long as no save is refused. *)
(* Each save under way is one step of a work queue after the one asked for *)
(* before it, so landing them in order takes one step at a time, and a     *)
(* death, which loses those that have not landed, takes none.              *)
(***************************************************************************)
EXTENDS IngestionQueue_proofs, FiniteSetTheorems

-----------------------------------------------------------------------------
(* What a step does to the records, whichever action takes it. *)

Pending == {"queued", "deferred"}

\* A waiting record that stays as it is, or moves to a status of `to` unattempted.
Rests(j, k, to) ==
  \/ k = j
  \/ /\ j.status \in Pending /\ k.status \in to /\ Key(k) = Key(j)
     /\ k.attempts = j.attempts /\ k.remaining = j.remaining /\ k.why # "unrecognised"

\* A caller asks for a save of the memory it leaves.
Asked(o) ==
  /\ up /\ up' /\ Persist(o)
  /\ UNCHANGED <<disk, build, crashes, now, failures>>

Adds(in) ==
  /\ Asked("enqueue")
  /\ Len(jobs') = Len(jobs) + 1 /\ jobs'[Len(jobs) + 1] = NewJob(in)
  /\ \A i \in DOMAIN jobs : Key(jobs[i]) # Key(NewJob(in))
  /\ \A i \in DOMAIN jobs : Rests(jobs[i], jobs'[i], {"failed"})
  /\ UNCHANGED <<phase, job, calls>>

Waits(t) ==
  /\ Asked(t)
  /\ DOMAIN jobs' = DOMAIN jobs
  /\ \A i \in DOMAIN jobs : Rests(jobs[i], jobs'[i], Pending)
  /\ phase[t] \in {"idle", "reset"}
  /\ \E p \in {"resetting", "recording"} : phase' = [phase EXCEPT ![t] = p]
  /\ UNCHANGED <<job, calls>>

Starts(t, i) ==
  /\ Asked(t)
  /\ i \in DOMAIN jobs /\ jobs[i].status \in Pending /\ jobs[i].remaining >= Ceiling
  /\ DOMAIN jobs' = DOMAIN jobs /\ jobs'[i] = Started(jobs[i])
  /\ \A k \in DOMAIN jobs : k # i => jobs'[k] = jobs[k]
  /\ phase[t] \in {"idle", "reset"} /\ phase' = [phase EXCEPT ![t] = "starting"]
  /\ job' = [job EXCEPT ![t] = Started(jobs[i])]
  /\ UNCHANGED calls

\* The record k an answer leaves of j, not attempted or attempted.
Answered(j, k, unattempted) ==
  /\ Key(k) = Key(j) /\ k.status \in {"done", "deferred", "failed"} /\ ~OverBudget(k)
  /\ k.remaining = Charged(j).remaining
  /\ k.attempts = IF unattempted /\ j.attempts > 0 THEN j.attempts - 1 ELSE j.attempts
  /\ k.status = "deferred" => unattempted \/ j.attempts <= MaxAttempts
  /\ k.why = "unrecognised" => j.why = "unrecognised" \/ (k.status = "failed" /\ build # "new")

Answers(t, i, unattempted) ==
  /\ Asked(t)
  /\ i \in DOMAIN jobs /\ jobs[i] = job[t]
  /\ DOMAIN jobs' = DOMAIN jobs /\ Answered(jobs[i], jobs'[i], unattempted)
  /\ \A k \in DOMAIN jobs : k # i => Rests(jobs[k], jobs'[k], Pending)
  /\ phase[t] = "running" /\ phase' = [phase EXCEPT ![t] = "recording"]
  /\ job' = [job EXCEPT ![t] = NoJob]
  /\ calls' = IF unattempted THEN [calls EXCEPT ![Key(job[t])] = @ - 1] ELSE calls

\* Nothing is saved and no call of tick begins or ends its hold on a job.
Quiet ==
  /\ UNCHANGED <<jobs, saves, disk, calls, budgetResumeAt, up, build, crashes, failures>>
  /\ now' \in Nat /\ now <= now'
  /\ \A t \in Ticks : Holds(t) \/ Holds(t)' => phase'[t] = phase[t] /\ job'[t] = job[t]

\* What becomes of the reset instant and of the records that wait for it.
BudgetStep ==
  \/ /\ budgetResumeAt' = budgetResumeAt
     /\ \A i \in DOMAIN jobs' : OverBudget(jobs'[i]) => i \in DOMAIN jobs /\ jobs'[i] = jobs[i]
     /\ \A i \in DOMAIN jobs : OverBudget(jobs[i]) => i \in DOMAIN jobs' /\ jobs'[i] = jobs[i]
  \/ /\ budgetResumeAt' = 0
     /\ \A i \in DOMAIN jobs' : ~OverBudget(jobs'[i])
  \/ /\ budgetResumeAt' = NextMidnight(now)
     /\ \A i \in DOMAIN jobs' : OverBudget(jobs'[i]) =>
          \/ i \in DOMAIN jobs /\ jobs'[i] = jobs[i]
          \/ jobs'[i].resumeAt = NextMidnight(now)

Shape ==
  \/ \E in \in Inputs : Adds(in)
  \/ \E t \in Ticks : Waits(t)
  \/ \E t \in Ticks : \E i \in DOMAIN jobs : Starts(t, i)
  \/ \E t \in Ticks : \E i \in DOMAIN jobs, unattempted \in BOOLEAN : Answers(t, i, unattempted)

LEMMA NewRecord ==
  ASSUME NEW in \in Input
  PROVE  /\ NewJob(in) \in Job /\ Key(NewJob(in)) = <<in.hash, in.version>>
         /\ NewJob(in).status = "queued" /\ NewJob(in).why = "none"
         /\ NewJob(in).attempts = 0 /\ NewJob(in).remaining = Allowance
BY NumbersAssumption DEF NewJob, Job, Input, Status, Why, Key

\* What the engine does to a record unattempted.
LEMMA RecordRests ==
  ASSUME NEW j \in Job, NEW n \in Nat
  PROVE  /\ j.status \in Pending => Rests(j, Failed(j, "superseded"), {"failed"})
         /\ j.status \in Pending => Rests(j, Undeferred(j, "queued"), Pending)
         /\ \A w \in {"transient-error", "budget-exhausted"} :
              /\ j.status \in Pending => Rests(j, Deferred(j, w, n), Pending)
              /\ Deferred(j, w, n).why = w /\ Deferred(j, w, n).resumeAt = n
         /\ ~OverBudget(Undeferred(j, "queued")) /\ ~OverBudget(Failed(j, "superseded"))
         /\ ~OverBudget(Deferred(j, "transient-error", n))
BY DEF Job, Rests, Pending, Failed, Undeferred, Deferred, Key, OverBudget

LEMMA EnqueueShape ==
  ASSUME IInv, NEW in \in Inputs, Enqueue(in)
  PROVE  Adds(in) /\ BudgetStep
<1> DEFINE q == Superseded(in)
           j == NewJob(in)
           n == Len(jobs)
<1>1. in \in Input /\ jobs \in Seq(Job) /\ n \in Nat /\ DOMAIN jobs = 1..n
  BY NamesAssumption DEF IInv, TypeOK
<1>2. j \in Job /\ Key(j) = <<in.hash, in.version>> /\ j.status = "queued"
  BY <1>1, NewRecord
<1>3. /\ q \in Seq(Job) /\ DOMAIN q = 1..n /\ Len(q) = n
  BY <1>1, SupersededRewrites DEF IInv, Rewrites
<1>4. ASSUME NEW i \in DOMAIN jobs
      PROVE  /\ Rests(jobs[i], q[i], {"failed"})
             /\ OverBudget(q[i]) \/ OverBudget(jobs[i]) => q[i] = jobs[i]
  <2>1. jobs[i] \in Job /\ 0 \in Nat
    BY <1>1
  <2>2. CASE q[i] = jobs[i]
    BY <2>2 DEF Rests
  <2>3. CASE q[i] # jobs[i]
    <3>1. q[i] = Failed(jobs[i], "superseded")
          /\ (jobs[i].status = "queued" \/ Transient(jobs[i]))
      BY <2>3 DEF Superseded
    <3>2. jobs[i].status \in Pending /\ ~OverBudget(jobs[i])
      BY <3>1 DEF Pending, Transient, OverBudget
    <3> QED
      BY <2>1, <3>1, <3>2, RecordRests
  <2> QED
    BY <2>2, <2>3
<1>5. /\ jobs' = Append(q, j)
      /\ Asked("enqueue") /\ UNCHANGED <<phase, job, calls, budgetResumeAt>>
  BY DEF Enqueue, Asked, ticks, process
<1>6. \A i \in DOMAIN jobs : Key(jobs[i]) # Key(j)
  BY <1>2 DEF Enqueue, IsDuplicate, Key
<1> HIDE DEF q, j
<1>7. /\ Len(jobs') = n + 1 /\ DOMAIN jobs' = 1..(n + 1) /\ jobs'[n + 1] = j
      /\ \A i \in 1..n : jobs'[i] = q[i]
  BY <1>1, <1>2, <1>3, <1>5
<1>8. ~OverBudget(j)
  BY <1>2 DEF OverBudget
<1>9. Adds(in)
  BY <1>1, <1>4, <1>5, <1>6, <1>7 DEF Adds, j
<1>10. /\ \A i \in DOMAIN jobs' : OverBudget(jobs'[i]) => i \in DOMAIN jobs /\ jobs'[i] = jobs[i]
       /\ \A i \in DOMAIN jobs : OverBudget(jobs[i]) => i \in DOMAIN jobs' /\ jobs'[i] = jobs[i]
  BY <1>1, <1>4, <1>7, <1>8
<1> QED
  BY <1>5, <1>9, <1>10 DEF BudgetStep

LEMMA RefuseShape ==
  ASSUME IInv, up, NEW t \in Ticks, NEW n \in Nat, RefuseForAllowance(t, n),
         phase[t] \in {"idle", "reset"},
         UNCHANGED <<disk, up, build, crashes, now, failures, calls>>
  PROVE  Waits(t) /\ BudgetStep
<1>1. jobs \in Seq(Job) /\ OneRecordEach(jobs)
  BY DEF IInv, TypeOK, UniqueIdentity
<1>2. PICK i \in NextEligible(n), d \in Backoffs :
        jobs' = Replace(jobs, Deferred(jobs[i], "transient-error", Later(n + d)))
  BY DEF RefuseForAllowance
<1> DEFINE j == Deferred(jobs[i], "transient-error", Later(n + d))
<1>3. i \in DOMAIN jobs /\ jobs[i] \in Job /\ jobs[i].status \in Pending /\ ~OverBudget(jobs[i])
  BY <1>1, <1>2 DEF NextEligible, IsEligible, Transient, OverBudget, Pending
<1>4. n + d \in Nat
  BY NumbersAssumption
<1>5. Later(n + d) \in Nat /\ "transient-error" \in Why
  BY <1>4, LaterIsNat DEF Why
<1>6. j \in Job /\ Key(j) = Key(jobs[i]) /\ Rests(jobs[i], j, Pending) /\ ~OverBudget(j)
  BY <1>3, <1>5, RecordSteps, RecordRests
<1> HIDE DEF j
<1>7. /\ jobs' = Replace(jobs, j) /\ DOMAIN jobs' = DOMAIN jobs /\ jobs'[i] = j
      /\ \A k \in DOMAIN jobs : k # i => jobs'[k] = jobs[k]
  BY <1>1, <1>2, <1>3, <1>6, ReplaceOne DEF j, Rewrites
<1>8. \A k \in DOMAIN jobs : Rests(jobs[k], jobs'[k], Pending)
  BY <1>6, <1>7 DEF Rests
<1>9. /\ phase' = [phase EXCEPT ![t] = "recording"] /\ Persist(t)
      /\ UNCHANGED <<headroom, budgetResumeAt, job>>
  BY DEF RefuseForAllowance
<1>10. Waits(t)
  BY <1>7, <1>8, <1>9 DEF Waits, Asked
<1>11. BudgetStep
  BY <1>3, <1>6, <1>7, <1>9 DEF BudgetStep
<1> QED
  BY <1>10, <1>11

LEMMA StartShape ==
  ASSUME IInv, up, NEW t \in Ticks, NEW n \in Nat, StartJob(t, n),
         phase[t] \in {"idle", "reset"},
         UNCHANGED <<disk, up, build, crashes, now, failures, calls>>
  PROVE  (\E i \in DOMAIN jobs : Starts(t, i)) /\ BudgetStep
<1>1. jobs \in Seq(Job) /\ OneRecordEach(jobs)
  BY DEF IInv, TypeOK, UniqueIdentity
<1>2. PICK i \in NextEligible(n) :
        /\ jobs[i].remaining >= Ceiling
        /\ jobs' = Replace(jobs, Started(jobs[i]))
        /\ job' = [job EXCEPT ![t] = Started(jobs[i])]
  BY DEF StartJob
<1> DEFINE j == Started(jobs[i])
<1>3. i \in DOMAIN jobs /\ jobs[i] \in Job /\ jobs[i].status \in Pending /\ ~OverBudget(jobs[i])
  BY <1>1, <1>2 DEF NextEligible, IsEligible, Transient, OverBudget, Pending
<1>4. j \in Job /\ Key(j) = Key(jobs[i]) /\ j.status = "in-flight"
  BY <1>3, StartedRecord
<1> HIDE DEF j
<1>5. ~OverBudget(j)
  BY <1>4 DEF OverBudget
<1>6. /\ jobs' = Replace(jobs, j) /\ DOMAIN jobs' = DOMAIN jobs /\ jobs'[i] = j
      /\ \A k \in DOMAIN jobs : k # i => jobs'[k] = jobs[k]
  BY <1>1, <1>2, <1>3, <1>4, ReplaceOne DEF j, Rewrites
<1>7. /\ phase' = [phase EXCEPT ![t] = "starting"] /\ Persist(t)
      /\ UNCHANGED <<headroom, budgetResumeAt>>
  BY DEF StartJob
<1>8. Starts(t, i)
  BY <1>2, <1>3, <1>6, <1>7 DEF Starts, Asked, j
<1>9. BudgetStep
  BY <1>3, <1>5, <1>6, <1>7 DEF BudgetStep
<1> QED
  BY <1>3, <1>8, <1>9

LEMMA ResetShape ==
  ASSUME IInv, up, NEW t \in Ticks, ResetBudget(t), phase[t] = "idle",
         UNCHANGED <<disk, up, build, crashes, now, failures, calls>>
  PROVE  Waits(t) /\ BudgetStep
<1>1. jobs \in Seq(Job)
  BY DEF IInv, TypeOK
<1>2. jobs' = [i \in DOMAIN jobs |-> IF OverBudget(jobs[i])
                                     THEN Undeferred(jobs[i], "queued") ELSE jobs[i]]
  BY DEF ResetBudget
<1>3. ASSUME NEW i \in DOMAIN jobs
      PROVE  Rests(jobs[i], jobs'[i], Pending) /\ ~OverBudget(jobs'[i])
  <2>1. jobs[i] \in Job /\ (OverBudget(jobs[i]) => jobs[i].status \in Pending)
    BY <1>1 DEF OverBudget, Pending
  <2>2. CASE OverBudget(jobs[i])
    BY <1>2, <2>1, <2>2, RecordRests
  <2>3. CASE ~OverBudget(jobs[i])
    BY <1>2, <2>3 DEF Rests
  <2> QED
    BY <2>2, <2>3
<1>4. /\ budgetResumeAt' = 0 /\ Persist(t)
      /\ phase' = [phase EXCEPT ![t] = "resetting"] /\ UNCHANGED job
  BY DEF ResetBudget
<1>5. DOMAIN jobs' = DOMAIN jobs
  BY <1>2
<1>6. Waits(t)
  BY <1>3, <1>4, <1>5 DEF Waits, Asked
<1>7. BudgetStep
  BY <1>3, <1>4, <1>5 DEF BudgetStep
<1> QED
  BY <1>6, <1>7

LEMMA LeaveIsQuiet ==
  ASSUME IInv, NEW t \in Ticks, phase[t] \in {"idle", "reset"}, Leave(t),
         UNCHANGED <<jobs, saves, disk, calls, budgetResumeAt, up, build, crashes, now, failures>>
  PROVE  Quiet
<1>1. phase \in [Ticks -> Phases] /\ job \in [Ticks -> Job \cup {NoJob}] /\ now \in Nat
  BY DEF IInv, TypeOK
<1>2. \A u \in Ticks : Holds(u) \/ Holds(u)' => phase'[u] = phase[u] /\ job'[u] = job[u]
  BY <1>1 DEF Leave, Holds
<1> QED
  BY <1>1, <1>2 DEF Quiet

LEMMA ProceedShape ==
  ASSUME IInv, up, NEW t \in Ticks, NEW n \in Nat, Proceed(t, n),
         phase[t] \in {"idle", "reset"},
         UNCHANGED <<disk, up, build, crashes, now, failures, calls>>
  PROVE  Quiet \/ (Shape /\ BudgetStep)
<1>1. CASE RunNothing(t, n)
  BY <1>1, LeaveIsQuiet DEF RunNothing
<1>2. CASE RefuseForAllowance(t, n)
  BY <1>2, RefuseShape DEF Shape
<1>3. CASE StartJob(t, n)
  BY <1>3, StartShape DEF Shape
<1> QED
  BY <1>1, <1>2, <1>3 DEF Proceed

LEMMA RecordFields ==
  ASSUME NEW j \in Job, NEW w, NEW u
  PROVE  /\ LET k == Deferred(j, w, u)
            IN  Key(k) = Key(j) /\ k.status = "deferred" /\ k.why = w
                /\ k.attempts = j.attempts /\ k.remaining = j.remaining
         /\ LET k == Failed(j, w)
            IN  Key(k) = Key(j) /\ k.status = "failed" /\ k.why = w
                /\ k.attempts = j.attempts /\ k.remaining = j.remaining
BY DEF Job, Deferred, Failed, Key

LEMMA SettledIsAnswered ==
  ASSUME NEW j \in Job, NEW kind \in AnswerKinds, NEW u \in Nat, NEW w \in BOOLEAN,
         w <=> kind = "not-attempted",
         kind = "unrecognised" => build # "new"
  PROVE  Answered(j, Settled(Charged(j), kind, u), w)
<1> DEFINE c == Charged(j)
           k == Settled(c, kind, u)
<1>1. /\ c \in Job /\ Key(c) = Key(j) /\ c.attempts = j.attempts /\ c.why = j.why
  BY ChargedRecord DEF Charged, Job
<1>2. j.attempts \in Nat /\ MaxAttempts \in Nat
  BY NumbersAssumption DEF Job
<1> HIDE DEF c
<1>3. /\ Key(k) = Key(j) /\ k.status \in {"done", "deferred", "failed"} /\ ~OverBudget(k)
      /\ k.remaining = c.remaining
      /\ k.attempts = IF w /\ j.attempts > 0 THEN j.attempts - 1 ELSE j.attempts
      /\ k.status = "deferred" => w \/ j.attempts <= MaxAttempts
      /\ k.why = "unrecognised" => j.why = "unrecognised" \/ (k.status = "failed" /\ build # "new")
  <2>1. CASE kind = "ok"
    <3>1. k = [c EXCEPT !.status = "done"]
      BY <2>1 DEF Settled
    <3> HIDE DEF k
    <3>2. /\ Key(k) = Key(c) /\ k.status = "done" /\ k.why = c.why
          /\ k.attempts = c.attempts /\ k.remaining = c.remaining
      BY <1>1, <3>1 DEF Job, Key
    <3> QED
      BY <1>1, <2>1, <3>2 DEF OverBudget
  <2>2. CASE kind = "not-attempted"
    <3> DEFINE g == [c EXCEPT !.attempts = IF @ > 0 THEN @ - 1 ELSE 0]
    <3>1. /\ g \in Job /\ Key(g) = Key(j) /\ g.remaining = c.remaining
          /\ g.attempts = IF j.attempts > 0 THEN j.attempts - 1 ELSE j.attempts
      BY <1>1, <1>2 DEF Job, Key
    <3>2. k = Deferred(g, "transient-error", u)
      BY <2>2 DEF Settled
    <3> HIDE DEF g, k
    <3> QED
      BY <2>2, <3>1, <3>2, RecordFields DEF OverBudget
  <2>3. CASE kind = "retryable" /\ j.attempts <= MaxAttempts
    <3>1. k = Deferred(c, "transient-error", u)
      BY <1>1, <1>2, <2>3 DEF Settled
    <3> HIDE DEF k
    <3> QED
      BY <1>1, <2>3, <3>1, RecordFields DEF OverBudget
  <2>4. CASE kind = "retryable" /\ j.attempts > MaxAttempts
    <3>1. ~(c.attempts <= MaxAttempts)
      BY <1>1, <1>2, <2>4
    <3>2. k = Failed(c, "attempt-cap")
      BY <1>1, <2>4, <3>1 DEF Settled
    <3> HIDE DEF k
    <3> QED
      BY <1>1, <2>4, <3>2, RecordFields DEF OverBudget
  <2>5. CASE kind \in {"permanent", "unrecognised"}
    <3>1. k = Failed(c, kind)
      BY <2>5 DEF Settled
    <3> HIDE DEF k
    <3> QED
      BY <1>1, <2>5, <3>1, RecordFields DEF OverBudget
  <2>6. kind = "retryable" => j.attempts <= MaxAttempts \/ j.attempts > MaxAttempts
    BY <1>2
  <2> QED
    BY <2>1, <2>2, <2>3, <2>4, <2>5, <2>6 DEF AnswerKinds
<1> QED
  BY <1>3 DEF Answered, c

\* A headroom reading defers what is queued, or leaves the records alone.
LEMMA ApplyHeadroomRests ==
  ASSUME NEW q \in Seq(Job), NEW band \in Bands, now \in Nat, ApplyHeadroom(q, band)
  PROVE  /\ DOMAIN jobs' = DOMAIN q
         /\ \A i \in DOMAIN q : /\ Rests(q[i], jobs'[i], Pending)
                                /\ q[i].status # "queued" => jobs'[i] = q[i]
         /\ \/ budgetResumeAt' = budgetResumeAt /\ jobs' = q
            \/ /\ budgetResumeAt' = NextMidnight(now)
               /\ \A i \in DOMAIN q :
                    jobs'[i] = q[i] \/ jobs'[i].resumeAt = NextMidnight(now)
<1>1. CASE band = "exhausted"
  <2> DEFINE m == NextMidnight(now)
  <2>1. m \in Nat
    BY NextMidnightIsNat
  <2>2. /\ budgetResumeAt' = m
        /\ jobs' = [i \in DOMAIN q |-> IF q[i].status = "queued"
                                       THEN Deferred(q[i], "budget-exhausted", m) ELSE q[i]]
    BY <1>1 DEF ApplyHeadroom
  <2> HIDE DEF m
  <2>3. ASSUME NEW i \in DOMAIN q
        PROVE  /\ Rests(q[i], jobs'[i], Pending)
               /\ q[i].status # "queued" => jobs'[i] = q[i]
               /\ jobs'[i] = q[i] \/ jobs'[i].resumeAt = m
    <3>1. CASE q[i].status = "queued"
      BY <2>1, <2>2, <3>1, RecordRests DEF Pending
    <3>2. CASE q[i].status # "queued"
      BY <2>2, <3>2 DEF Rests
    <3> QED
      BY <3>1, <3>2
  <2> QED
    BY <2>2, <2>3 DEF m
<1>2. CASE band # "exhausted"
  <2>1. jobs' = q /\ budgetResumeAt' = budgetResumeAt
    BY <1>2 DEF ApplyHeadroom, Bands
  <2> QED
    BY <2>1 DEF Rests
<1> QED
  BY <1>1, <1>2

LEMMA AnswerShape ==
  ASSUME IInv, NEW t \in Ticks, RunnerAnswers(t)
  PROVE  (\E i \in DOMAIN jobs, w \in BOOLEAN : Answers(t, i, w)) /\ BudgetStep
<1>1. /\ up /\ phase[t] = "running" /\ Holds(t)
      /\ phase' = [phase EXCEPT ![t] = "recording"]
      /\ job' = [job EXCEPT ![t] = NoJob] /\ Persist(t)
      /\ UNCHANGED <<disk, up, build, crashes, now, failures>>
  BY DEF RunnerAnswers, process, Holds
<1>2. PICK a \in Outcomes, d \in Backoffs, band \in Bands :
        /\ CanAnswer(job[t].hash, a)
        /\ ApplyHeadroom(Replace(jobs, Settled(Charged(job[t]), a.kind, Later(now + d))), band)
        /\ calls' = IF a.kind = "not-attempted"
                    THEN [calls EXCEPT ![Key(job[t])] = @ - 1] ELSE calls
  <2>1. \A a \in Outcomes :
          (IF a.kind \in {"permanent", "unrecognised"} THEN "none" ELSE a.headroom) \in Bands
    BY NamesAssumption DEF Answer, Bands
  <2> QED
    BY <2>1 DEF RunnerAnswers
<1>3. jobs \in Seq(Job) /\ OneRecordEach(jobs) /\ now \in Nat
  BY DEF IInv, TypeOK, UniqueIdentity
<1>4. PICK i \in DOMAIN jobs : jobs[i] = job[t]
  BY <1>1 DEF IInv, OneTickPerJob
<1> DEFINE w == a.kind = "not-attempted"
           j == Settled(Charged(job[t]), a.kind, Later(now + d))
           q == Replace(jobs, j)
<1>5. a.kind \in AnswerKinds /\ now + d \in Nat /\ job[t] \in Job
  BY <1>1, <1>3, NamesAssumption, NumbersAssumption DEF Answer, IInv, HeldIsInFlight
<1>6. Later(now + d) \in Nat
  BY <1>5, LaterIsNat
<1>7. w \in BOOLEAN /\ (w <=> a.kind = "not-attempted")
  OBVIOUS
<1>8. a.kind = "unrecognised" => build # "new"
  BY <1>2 DEF CanAnswer
<1> HIDE DEF w
<1>9. j \in Job /\ Key(j) = Key(job[t]) /\ Answered(job[t], j, w)
  BY <1>5, <1>6, <1>7, <1>8, ChargedRecord, SettledRecord, SettledIsAnswered
<1> HIDE DEF j
<1>10. /\ Rewrites(jobs, q) /\ q[i] = j /\ \A k \in DOMAIN jobs : k # i => q[k] = jobs[k]
  BY <1>3, <1>4, <1>9, ReplaceOne
<1> HIDE DEF q
<1>11. q \in Seq(Job) /\ DOMAIN q = DOMAIN jobs
  BY <1>10 DEF Rewrites
<1>12. ApplyHeadroom(q, band)
  BY <1>2 DEF q, j
<1>13. /\ DOMAIN jobs' = DOMAIN q
       /\ \A k \in DOMAIN q : /\ Rests(q[k], jobs'[k], Pending)
                              /\ q[k].status # "queued" => jobs'[k] = q[k]
       /\ \/ budgetResumeAt' = budgetResumeAt /\ jobs' = q
          \/ /\ budgetResumeAt' = NextMidnight(now)
             /\ \A k \in DOMAIN q :
                  jobs'[k] = q[k] \/ jobs'[k].resumeAt = NextMidnight(now)
  BY <1>3, <1>11, <1>12, ApplyHeadroomRests
<1>14. j.status # "queued" /\ ~OverBudget(j)
  BY <1>9 DEF Answered
<1>15. jobs'[i] = j
  BY <1>10, <1>11, <1>13, <1>14
<1>16. calls' = IF w THEN [calls EXCEPT ![Key(job[t])] = @ - 1] ELSE calls
  BY <1>2, <1>7
<1>17. Asked(t)
  BY <1>1 DEF Asked
<1>18. \A k \in DOMAIN jobs : k # i => Rests(jobs[k], jobs'[k], Pending)
  BY <1>10, <1>11, <1>13
<1>19. Answers(t, i, w)
  BY <1>1, <1>4, <1>9, <1>11, <1>13, <1>15, <1>16, <1>17, <1>18 DEF Answers
<1>20. jobs[i].status = "in-flight" /\ ~OverBudget(jobs[i])
  BY <1>1, <1>4 DEF IInv, HeldIsInFlight, OverBudget
<1>21. \A k \in DOMAIN jobs : OverBudget(q[k]) => k # i /\ q[k] = jobs[k]
  BY <1>10, <1>14
<1>22. BudgetStep
  <2>1. CASE budgetResumeAt' = budgetResumeAt /\ jobs' = q
    BY <2>1, <1>10, <1>11, <1>20, <1>21 DEF BudgetStep
  <2>2. CASE /\ budgetResumeAt' = NextMidnight(now)
             /\ \A k \in DOMAIN q :
                  jobs'[k] = q[k] \/ jobs'[k].resumeAt = NextMidnight(now)
    BY <2>2, <1>11, <1>13, <1>21 DEF BudgetStep
  <2> QED
    BY <1>13, <2>1, <2>2
<1> QED
  BY <1>4, <1>7, <1>19, <1>22

\* Every step: a save asked for, nothing that touches a record, or one of the store, the
\* death and the return.
LEMMA Steps ==
  ASSUME IInv, [Next]_vars
  PROVE  \/ Shape /\ BudgetStep
         \/ Quiet
         \/ SaveLands \/ SaveRejects \/ Crash
         \/ \E b \in {"old", "new"} : Create(b)
<1>1. /\ now \in Nat /\ build \in {"old", "new"} /\ began \in [Ticks -> Nat]
  BY DEF IInv, TypeOK
<1>2. CASE \E in \in Inputs : Enqueue(in)
  BY <1>2, EnqueueShape DEF Shape
<1>3. ASSUME NEW t \in Ticks, TickBegins(t)
      PROVE  Quiet \/ (Shape /\ BudgetStep)
  <2>1. /\ up /\ phase[t] = "idle"
        /\ UNCHANGED <<disk, up, build, crashes, now, failures, calls>>
    BY <1>3 DEF TickBegins, process
  <2>2. CASE ResetDue
    BY <1>3, <2>1, <2>2, ResetShape DEF TickBegins, Shape
  <2>3. CASE ~ResetDue
    BY <1>1, <1>3, <2>1, <2>3, ProceedShape DEF TickBegins
  <2> QED
    BY <2>2, <2>3
<1>4. ASSUME NEW t \in Ticks, TickResumes(t)
      PROVE  Quiet \/ (Shape /\ BudgetStep)
  <2>1. /\ up /\ phase[t] = "reset"
        /\ UNCHANGED <<disk, up, build, crashes, now, failures, calls>>
    BY <1>4 DEF TickResumes, process
  <2>2. began[t] \in Nat
    BY <1>1
  <2>3. CASE Proceed(t, began[t])
    BY <2>1, <2>2, <2>3, ProceedShape
  <2>4. CASE HeldBack(began[t]) /\ Leave(t) /\ UNCHANGED <<memory, saves>>
    BY <2>1, <2>4, LeaveIsQuiet DEF memory
  <2> QED
    BY <1>4, <2>3, <2>4 DEF TickResumes
<1>5. ASSUME NEW t \in Ticks, RunnerAnswers(t)
      PROVE  Shape /\ BudgetStep
  BY <1>5, AnswerShape DEF Shape
<1>6. CASE Pause \/ Resume
  BY <1>1, <1>6 DEF Pause, Resume, Quiet, memory, ticks, store, process
<1>7. CASE ClockAdvances
  BY <1>1, <1>7 DEF ClockAdvances, Quiet, memory, ticks, store, process
<1>8. CASE UNCHANGED vars
  BY <1>1, <1>8 DEF vars, Quiet
<1>9. CASE Restart
  BY <1>1, <1>9 DEF Restart
<1> QED
  BY <1>2, <1>3, <1>4, <1>5, <1>6, <1>7, <1>8, <1>9 DEF Next

-----------------------------------------------------------------------------
(* The saves under way, first asked first. *)

LEMMA AskedSaves ==
  ASSUME TypeOK, NEW o, Asked(o)
  PROVE  /\ Len(saves) \in Nat /\ DOMAIN saves = 1..Len(saves)
         /\ DOMAIN saves' = 1..(Len(saves) + 1) /\ Len(saves') = Len(saves) + 1
         /\ \A s \in 1..Len(saves) : saves'[s] = saves[s]
         /\ saves'[Len(saves) + 1].owner = o
         /\ saves'[Len(saves) + 1].snapshot.jobs = jobs'
<1> DEFINE e == [owner |-> o, snapshot |-> Snapshot(jobs', headroom')]
<1>1. saves \in Seq(Save) /\ saves' = Append(saves, e)
  BY DEF TypeOK, Save, Asked, Persist
<1>2. e.owner = o /\ e.snapshot.jobs = jobs'
  BY DEF Snapshot
<1> HIDE DEF e
<1> QED
  BY <1>1, <1>2

LEMMA TailSaves ==
  ASSUME TypeOK, saves # <<>>, saves' = Tail(saves)
  PROVE  /\ Len(saves) \in Nat /\ Len(saves) >= 1 /\ DOMAIN saves = 1..Len(saves)
         /\ 1 \in DOMAIN saves /\ Head(saves) = saves[1]
         /\ DOMAIN saves' = 1..(Len(saves) - 1) /\ Len(saves') = Len(saves) - 1
         /\ \A s \in DOMAIN saves' : s + 1 \in DOMAIN saves /\ saves'[s] = saves[s + 1]
         /\ \A s \in DOMAIN saves' : s \in Nat /\ 1 <= s + 1
<1>1. saves \in Seq(Save)
  BY DEF TypeOK, Save
<1> QED
  BY <1>1

\* What a save carries, and the records it holds.
LEMMA SaveTyped ==
  ASSUME TypeOK, NEW s \in DOMAIN saves
  PROVE  saves[s] \in Save /\ saves[s].snapshot.jobs \in Seq(Job)
<1>1. saves[s] \in Save
  BY SavesTyped
<1> QED
  BY <1>1 DEF Save, Snapshots

-----------------------------------------------------------------------------
(* Every save holds the records of the one before it, and a completion stays. *)

Grows(p, q) ==
  \A i \in DOMAIN p :
    /\ i \in DOMAIN q /\ Key(q[i]) = Key(p[i])
    /\ p[i].status = "done" => q[i].status = "done"

Ordered ==
  /\ \A s \in DOMAIN saves : Grows(disk.jobs, saves[s].snapshot.jobs)
  /\ \A s, r \in DOMAIN saves : s <= r => Grows(saves[s].snapshot.jobs, saves[r].snapshot.jobs)
  /\ up => /\ Grows(disk.jobs, jobs)
           /\ \A s \in DOMAIN saves : Grows(saves[s].snapshot.jobs, jobs)

LEMMA GrowsTransitive ==
  ASSUME NEW p, NEW q, NEW r, Grows(p, q), Grows(q, r)
  PROVE  Grows(p, r)
BY DEF Grows

LEMMA GrowsReflexive ==
  ASSUME NEW p
  PROVE  Grows(p, p)
BY DEF Grows

LEMMA ShapeGrows ==
  ASSUME IInv, [Next]_vars, Shape
  PROVE  Grows(jobs, jobs') /\ \E o : Asked(o)
<1>1. ASSUME NEW j, NEW k, NEW to, Rests(j, k, to)
      PROVE  Key(k) = Key(j) /\ (j.status = "done" => k.status = "done")
  BY <1>1 DEF Rests, Pending
<1>2. jobs \in Seq(Job) /\ jobs' \in Seq(Job)
  <2>1. IInv'
    BY NextIInv
  <2> QED
    BY <2>1 DEF IInv, TypeOK
<1>3. ASSUME NEW in \in Inputs, Adds(in)
      PROVE  Grows(jobs, jobs') /\ \E o : Asked(o)
  BY <1>1, <1>2, <1>3 DEF Adds, Grows
<1>4. ASSUME NEW t \in Ticks, Waits(t)
      PROVE  Grows(jobs, jobs') /\ \E o : Asked(o)
  BY <1>1, <1>4 DEF Waits, Grows
<1>5. ASSUME NEW t \in Ticks, NEW i \in DOMAIN jobs, Starts(t, i)
      PROVE  Grows(jobs, jobs') /\ \E o : Asked(o)
  <2>1. Key(Started(jobs[i])) = Key(jobs[i]) /\ jobs[i].status # "done"
    BY <1>2, <1>5, StartedRecord DEF Starts, Pending
  <2> QED
    BY <1>5, <2>1 DEF Starts, Grows
<1>6. ASSUME NEW t \in Ticks, NEW i \in DOMAIN jobs, NEW w \in BOOLEAN, Answers(t, i, w)
      PROVE  Grows(jobs, jobs') /\ \E o : Asked(o)
  <2>1. Key(jobs'[i]) = Key(jobs[i])
    BY <1>6 DEF Answers, Answered
  <2>2. jobs[i].status # "done"
    BY <1>6 DEF Answers, IInv, HeldIsInFlight, Holds
  <2> QED
    BY <1>1, <1>6, <2>1, <2>2 DEF Answers, Grows
<1> QED
  BY <1>3, <1>4, <1>5, <1>6 DEF Shape

LEMMA OrderedStep ==
  ASSUME IInv, Ordered, [Next]_vars
  PROVE  Ordered'
<1> USE DEF IInv
<1>1. CASE Shape
  <2>1. Grows(jobs, jobs')
    BY <1>1, ShapeGrows
  <2>2. PICK o : Asked(o)
    BY <1>1, ShapeGrows
  <2> DEFINE n == Len(saves)
  <2>3. /\ n \in Nat /\ DOMAIN saves = 1..n /\ DOMAIN saves' = 1..(n + 1)
        /\ \A s \in 1..n : saves'[s] = saves[s]
        /\ saves'[n + 1].snapshot.jobs = jobs'
    BY <2>2, AskedSaves
  <2> HIDE DEF n
  <2>4. up /\ disk' = disk
    BY <2>2 DEF Asked
  <2>5. /\ Grows(disk.jobs, jobs')
        /\ \A s \in DOMAIN saves : Grows(saves[s].snapshot.jobs, jobs')
    BY <2>1, <2>4, GrowsTransitive DEF Ordered
  <2>6. \A s \in DOMAIN saves' : Grows(disk'.jobs, saves'[s].snapshot.jobs)
    BY <2>3, <2>4, <2>5 DEF Ordered
  <2>7. \A s, r \in DOMAIN saves' : s <= r =>
          Grows(saves'[s].snapshot.jobs, saves'[r].snapshot.jobs)
    <3>1. TAKE s, r \in DOMAIN saves'
    <3>2. HAVE s <= r
    <3>3. CASE r \in 1..n
      BY <2>3, <3>1, <3>2, <3>3 DEF Ordered
    <3>4. CASE r = n + 1 /\ s \in 1..n
      BY <2>3, <2>5, <3>4
    <3>5. CASE r = n + 1 /\ s = n + 1
      BY <3>5, GrowsReflexive
    <3> QED
      BY <2>3, <3>1, <3>3, <3>4, <3>5
  <2>8. \A s \in DOMAIN saves' : Grows(saves'[s].snapshot.jobs, jobs')
    BY <2>3, <2>5, GrowsReflexive
  <2> QED
    BY <2>4, <2>5, <2>6, <2>7, <2>8 DEF Ordered
<1>2. CASE Quiet
  BY <1>2 DEF Quiet, Ordered
<1>3. CASE SaveLands \/ SaveRejects
  <2>1. /\ up /\ saves # <<>> /\ saves' = Tail(saves) /\ jobs' = jobs /\ up' = up
        /\ disk' = disk \/ disk' = Head(saves).snapshot
    BY <1>3 DEF SaveLands, SaveRejects, memory, process
  <2>2. /\ 1 \in DOMAIN saves /\ Head(saves) = saves[1]
        /\ \A s \in DOMAIN saves' : s + 1 \in DOMAIN saves /\ saves'[s] = saves[s + 1]
        /\ \A s \in DOMAIN saves' : s \in Nat /\ 1 <= s + 1
    BY <2>1, TailSaves
  <2>3. \A s \in DOMAIN saves' : Grows(disk'.jobs, saves'[s].snapshot.jobs)
    BY <2>1, <2>2 DEF Ordered
  <2>4. \A s, r \in DOMAIN saves' : s <= r =>
          Grows(saves'[s].snapshot.jobs, saves'[r].snapshot.jobs)
    <3>1. \A s, r \in DOMAIN saves' : s <= r => s + 1 <= r + 1
      BY <2>2
    <3> QED
      BY <2>2, <3>1 DEF Ordered
  <2>5. Grows(disk'.jobs, jobs') /\ \A s \in DOMAIN saves' : Grows(saves'[s].snapshot.jobs, jobs')
    BY <2>1, <2>2 DEF Ordered
  <2> QED
    BY <2>3, <2>4, <2>5 DEF Ordered
<1>4. CASE Crash
  <2>1. up' = FALSE /\ saves' = <<>>
    BY <1>4 DEF Crash
  <2>2. DOMAIN saves' = {}
    BY <2>1
  <2> QED
    BY <2>1, <2>2 DEF Ordered
<1>5. ASSUME NEW b \in {"old", "new"}, Create(b)
      PROVE  Ordered'
  <2>1. saves' = <<>> /\ disk'.jobs = jobs'
    BY <1>5 DEF Create, DownIsEmpty, Snapshot
  <2>2. DOMAIN saves' = {}
    BY <2>1
  <2> QED
    BY <2>1, <2>2, GrowsReflexive DEF Ordered
<1> QED
  BY <1>1, <1>2, <1>3, <1>4, <1>5, Steps

-----------------------------------------------------------------------------
(* What a runner works on is in the file, and stays there. *)

Has(q, j) == \E i \in DOMAIN q : q[i] = j

HeldIsSaved ==
  \A t \in Ticks :
    /\ phase[t] = "running" =>
         /\ Has(disk.jobs, job[t])
         /\ \A s \in DOMAIN saves : Has(saves[s].snapshot.jobs, job[t])
    /\ phase[t] = "starting" =>
         \A p, s \in DOMAIN saves :
           saves[p].owner = t /\ p <= s => Has(saves[s].snapshot.jobs, job[t])

\* Of the calls of tick only the one that asks for the save changes its phase.
LEMMA ShapePhases ==
  ASSUME IInv, Shape
  PROVE  \E o \in Ticks \cup {"enqueue"} :
           /\ Asked(o)
           /\ \A u \in Ticks : u # o => phase'[u] = phase[u] /\ job'[u] = job[u]
           /\ o \in Ticks => phase[o] \notin Saving /\ phase'[o] # "running"
<1>1. phase \in [Ticks -> Phases] /\ job \in [Ticks -> Job \cup {NoJob}] /\ "enqueue" \notin Ticks
  BY NamesAssumption DEF IInv, TypeOK
<1>2. ASSUME NEW in \in Inputs, Adds(in)
      PROVE  /\ Asked("enqueue")
             /\ \A u \in Ticks : phase'[u] = phase[u] /\ job'[u] = job[u]
  BY <1>2 DEF Adds
<1>3. ASSUME NEW t \in Ticks, Waits(t)
      PROVE  /\ Asked(t) /\ phase[t] \notin Saving /\ phase'[t] # "running"
             /\ \A u \in Ticks : u # t => phase'[u] = phase[u] /\ job'[u] = job[u]
  BY <1>1, <1>3 DEF Waits, Saving
<1>4. ASSUME NEW t \in Ticks, NEW i \in DOMAIN jobs, Starts(t, i)
      PROVE  /\ Asked(t) /\ phase[t] \notin Saving /\ phase'[t] # "running"
             /\ \A u \in Ticks : u # t => phase'[u] = phase[u] /\ job'[u] = job[u]
  BY <1>1, <1>4 DEF Starts, Saving
<1>5. ASSUME NEW t \in Ticks, NEW i \in DOMAIN jobs, NEW w \in BOOLEAN, Answers(t, i, w)
      PROVE  /\ Asked(t) /\ phase[t] \notin Saving /\ phase'[t] # "running"
             /\ \A u \in Ticks : u # t => phase'[u] = phase[u] /\ job'[u] = job[u]
  BY <1>1, <1>5 DEF Answers, Saving
<1> QED
  BY <1>1, <1>2, <1>3, <1>4, <1>5 DEF Shape

LEMMA HeldIsSavedStep ==
  ASSUME IInv, HeldIsSaved, [Next]_vars
  PROVE  HeldIsSaved'
<1> USE DEF IInv
<1>1. IInv'
  BY NextIInv
<1>2. \A u \in Ticks : Holds(u)' => Has(jobs', job'[u])
  BY <1>1 DEF OneTickPerJob, Has
<1>3. phase \in [Ticks -> Phases] /\ job \in [Ticks -> Job \cup {NoJob}]
  BY DEF TypeOK
<1>4. CASE Shape
  <2>1. PICK o \in Ticks \cup {"enqueue"} :
           /\ Asked(o)
           /\ \A u \in Ticks : u # o => phase'[u] = phase[u] /\ job'[u] = job[u]
           /\ o \in Ticks => phase[o] \notin Saving /\ phase'[o] # "running"
    BY <1>4, ShapePhases
  <2> DEFINE n == Len(saves)
  <2>2. /\ n \in Nat /\ DOMAIN saves = 1..n /\ DOMAIN saves' = 1..(n + 1)
        /\ \A s \in 1..n : saves'[s] = saves[s]
        /\ saves'[n + 1].owner = o /\ saves'[n + 1].snapshot.jobs = jobs'
    BY <2>1, AskedSaves
  <2> HIDE DEF n
  <2>3. disk' = disk
    BY <2>1 DEF Asked
  <2>4. ASSUME NEW u \in Ticks, phase'[u] = "running"
        PROVE  /\ Has(disk'.jobs, job'[u])
               /\ \A s \in DOMAIN saves' : Has(saves'[s].snapshot.jobs, job'[u])
    <3>1. phase[u] = "running" /\ job'[u] = job[u]
      BY <2>1, <2>4
    <3>2. Has(jobs', job'[u])
      BY <1>2, <2>4 DEF Holds
    <3> QED
      BY <2>2, <2>3, <3>1, <3>2 DEF HeldIsSaved
  <2>5. ASSUME NEW u \in Ticks, phase'[u] = "starting",
               NEW p \in DOMAIN saves', NEW s \in DOMAIN saves', saves'[p].owner = u, p <= s
        PROVE  Has(saves'[s].snapshot.jobs, job'[u])
    <3>1. CASE s = n + 1
      BY <1>2, <2>2, <2>5, <3>1 DEF Holds
    <3>2. CASE s \in 1..n
      <4>1. p \in 1..n /\ saves[p].owner = u
        BY <2>2, <2>5, <3>2
      <4>2. u # o
        BY <2>1, <2>2, <4>1, NamesAssumption DEF SaversWait
      <4> QED
        BY <2>1, <2>2, <2>5, <3>2, <4>1, <4>2 DEF HeldIsSaved
    <3> QED
      BY <2>2, <3>1, <3>2
  <2> QED
    BY <2>4, <2>5 DEF HeldIsSaved
<1>5. CASE Quiet
  BY <1>5 DEF Quiet, HeldIsSaved, Holds
<1>6. CASE SaveLands \/ SaveRejects
  <2> DEFINE o == Head(saves).owner
  <2>1. /\ saves # <<>> /\ saves' = Tail(saves)
    BY <1>6 DEF SaveLands, SaveRejects
  <2>2. /\ 1 \in DOMAIN saves /\ Head(saves) = saves[1]
        /\ \A s \in DOMAIN saves' : s + 1 \in DOMAIN saves /\ saves'[s] = saves[s + 1]
        /\ \A s \in DOMAIN saves' : s \in Nat /\ 1 <= s + 1
    BY <2>1, TailSaves
  <2>3. \A s, p \in DOMAIN saves' : p <= s => p + 1 <= s + 1
    BY <2>2
  <2>4. o # "enqueue" => o \in Ticks /\ phase[o] \in Saving
    BY <2>1, FirstSaveLeaves
  <2>5. \A u \in Ticks : /\ phase'[u] = "starting" =>
                              phase[u] = "starting" /\ job'[u] = job[u]
                         /\ phase'[u] = "running" =>
                              /\ job'[u] = job[u]
                              /\ phase[u] = "running" \/ (phase[u] = "starting" /\ u = o)
    <3>1. CASE SaveLands
      BY <1>3, <2>4, <3>1 DEF SaveLands, AfterSave, Saving
    <3>2. CASE SaveRejects
      BY <1>3, <2>4, <3>2 DEF SaveRejects, Leave, Saving
    <3> QED
      BY <1>6, <3>1, <3>2
  <2>6. \/ disk' = saves[1].snapshot
        \/ disk' = disk /\ \A u \in Ticks : phase'[u] = "running" => phase[u] = "running"
    <3>1. CASE SaveLands
      BY <2>2, <3>1 DEF SaveLands
    <3>2. CASE SaveRejects
      BY <1>3, <2>4, <3>2 DEF SaveRejects, Leave, Saving
    <3> QED
      BY <1>6, <3>1, <3>2
  <2>7. \A s \in DOMAIN saves : 1 <= s
    BY <2>1, TailSaves
  <2>8. ASSUME NEW u \in Ticks, phase'[u] = "running"
        PROVE  /\ Has(disk'.jobs, job'[u])
               /\ \A s \in DOMAIN saves' : Has(saves'[s].snapshot.jobs, job'[u])
    <3>1. CASE phase[u] = "running"
      BY <2>2, <2>5, <2>6, <2>8, <3>1 DEF HeldIsSaved
    <3>2. CASE phase[u] = "starting" /\ u = o
      <4>1. \A s \in DOMAIN saves : Has(saves[s].snapshot.jobs, job[u])
        BY <2>2, <2>7, <3>2 DEF HeldIsSaved
      <4>2. disk' = saves[1].snapshot
        BY <2>6, <2>8, <3>2
      <4> QED
        BY <2>2, <2>5, <2>8, <4>1, <4>2
    <3> QED
      BY <2>5, <2>8, <3>1, <3>2
  <2>9. ASSUME NEW u \in Ticks, phase'[u] = "starting",
               NEW p \in DOMAIN saves', NEW s \in DOMAIN saves', saves'[p].owner = u, p <= s
        PROVE  Has(saves'[s].snapshot.jobs, job'[u])
    BY <2>2, <2>3, <2>5, <2>9 DEF HeldIsSaved
  <2> QED
    BY <2>8, <2>9 DEF HeldIsSaved
<1>7. CASE Crash
  BY <1>7 DEF Crash, HeldIsSaved
<1>8. ASSUME NEW b \in {"old", "new"}, Create(b)
      PROVE  HeldIsSaved'
  BY <1>8 DEF Create, ticks, DownIsEmpty, HeldIsSaved
<1> QED
  BY <1>4, <1>5, <1>6, <1>7, <1>8, Steps

\* A record of a file done under an identity no other record of it has.
LEMMA DoneIsNotInFlight ==
  ASSUME NEW q, OneRecordEach(q), NEW j, Has(q, j), j.status = "in-flight",
         NEW i \in DOMAIN q, q[i].status = "done"
  PROVE  Key(q[i]) # Key(j)
BY DEF OneRecordEach, Has

LEMMA DoneIsFinal ==
  ASSUME IInv, Ordered, HeldIsSaved, [Next]_vars, NEW k \in Keys, DoneOnDisk(k)
  PROVE  calls'[k] = calls[k]
<1> USE DEF IInv
<1>1. calls \in [Keys -> Int] /\ job \in [Ticks -> Job \cup {NoJob}]
  BY DEF TypeOK
<1>2. PICK i \in DOMAIN disk.jobs : Key(disk.jobs[i]) = k /\ disk.jobs[i].status = "done"
  BY DEF DoneOnDisk
<1>3. ASSUME NEW t \in Ticks, NEW n \in DOMAIN jobs, NEW w \in BOOLEAN, Answers(t, n, w)
      PROVE  calls'[k] = calls[k]
  <2>1. /\ phase[t] = "running" /\ job[t].status = "in-flight" /\ Has(disk.jobs, job[t])
        /\ calls' = calls \/ calls' = [calls EXCEPT ![Key(job[t])] = @ - 1]
    BY <1>3 DEF Answers, HeldIsInFlight, Holds, HeldIsSaved
  <2>2. Key(job[t]) # k
    BY <1>2, <2>1, DoneIsNotInFlight DEF UniqueIdentity
  <2> QED
    BY <1>1, <2>1, <2>2
<1>4. CASE SaveLands
  <2> DEFINE o == Head(saves).owner
  <2>1. saves # <<>> /\ saves' = Tail(saves)
    BY <1>4 DEF SaveLands
  <2>2. 1 \in DOMAIN saves /\ Head(saves) = saves[1]
    BY <2>1, TailSaves
  <2>3. o # "enqueue" => o \in Ticks
    BY <2>1, FirstSaveLeaves
  <2>4. CASE o # "enqueue" /\ phase[o] = "starting"
    <3>1. Has(saves[1].snapshot.jobs, job[o]) /\ job[o].status = "in-flight"
      BY <2>2, <2>3, <2>4 DEF HeldIsSaved, HeldIsInFlight, Holds
    <3>2. /\ i \in DOMAIN saves[1].snapshot.jobs
          /\ Key(saves[1].snapshot.jobs[i]) = k /\ saves[1].snapshot.jobs[i].status = "done"
      BY <1>2, <2>2 DEF Ordered, Grows
    <3>3. Key(job[o]) # k
      BY <2>2, <3>1, <3>2, DoneIsNotInFlight DEF UniqueIdentity
    <3>4. calls' = [calls EXCEPT ![Key(job[o])] = @ + 1]
      BY <1>4, <2>4 DEF SaveLands
    <3> QED
      BY <1>1, <3>3, <3>4
  <2>5. CASE ~(o # "enqueue" /\ phase[o] = "starting")
    BY <1>4, <2>5 DEF SaveLands
  <2> QED
    BY <2>4, <2>5
<1>5. CASE Shape
  BY <1>3, <1>5 DEF Shape, Adds, Waits, Starts
<1>6. CASE Quiet \/ SaveRejects \/ Crash \/ \E b \in {"old", "new"} : Create(b)
  BY <1>6 DEF Quiet, SaveRejects, Crash, Create
<1> QED
  BY <1>4, <1>5, <1>6, Steps

-----------------------------------------------------------------------------
(* Calls of a runner, counted and charged. *)

\* Whether one of the first s saves begins a run of the job k.
Beginning(k, s) ==
  \E t \in Ticks, p \in DOMAIN saves :
    /\ p <= s /\ saves[p].owner = t
    /\ phase[t] = "starting" /\ Key(job[t]) = k

\* By save and by job, the calls the record of the job in that save stands for.
Owed ==
  [s \in 0..Len(saves) |-> [k \in Keys |-> IF Beginning(k, s) THEN calls[k] + 1 ELSE calls[k]]]

\* A record counts n calls of its runner and, c deaths aside, was charged for each but one
\* that is under way.
Covers(j, n, c) ==
  /\ n <= j.attempts
  /\ Ceiling * (n - c) <= Allowance - j.remaining
                          + (IF j.status = "in-flight" THEN Ceiling ELSE 0)

CoversAll(q, owed, c) == \A i \in DOMAIN q : Covers(q[i], owed[Key(q[i])], c)

Covered ==
  /\ CoversAll(disk.jobs, calls, crashes)
  /\ \A s \in DOMAIN saves : CoversAll(saves[s].snapshot.jobs, Owed[s], crashes)
  /\ CoversAll(jobs, Owed[Len(saves)], crashes)
  /\ \A k \in Keys : calls[k] > 0 => Accepted(k)

\* At rest no run is under way.
Rested ==
  ~up => \A i \in DOMAIN disk.jobs :
           Ceiling * (calls[Key(disk.jobs[i])] - crashes) <= Allowance - disk.jobs[i].remaining

\* What a call holds could pay for it.
Funded == \A t \in Ticks : Holds(t) => job[t].remaining >= Ceiling

Charging == Covered /\ Rested /\ Funded

LEMMA ChargeGrows ==
  ASSUME NEW x \in Int
  PROVE  /\ Ceiling * (x + 1) = Ceiling * x + Ceiling
         /\ Ceiling * (x - 1) = Ceiling * x - Ceiling
         /\ Ceiling * x \in Int
         /\ x <= 0 => Ceiling * x <= 0
BY NumbersAssumption

LEMMA ChargeIsMonotone ==
  ASSUME NEW x \in Int, NEW y \in Int, x <= y
  PROVE  Ceiling * x <= Ceiling * y
BY NumbersAssumption

LEMMA CoversLess ==
  ASSUME NEW j \in Job, NEW n \in Int, NEW c \in Int, Covers(j, n, c),
         NEW m \in Int, m <= n, NEW d \in Int, c <= d
  PROVE  Covers(j, m, d)
<1>1. j.attempts \in Nat /\ j.remaining \in Nat
  BY DEF Job
<1>2. m - d \in Int /\ n - c \in Int /\ m - d <= n - c
  OBVIOUS
<1>3. Ceiling * (m - d) <= Ceiling * (n - c) /\ Ceiling * (m - d) \in Int
      /\ Ceiling * (n - c) \in Int
  BY <1>2, ChargeIsMonotone, ChargeGrows
<1> DEFINE x == Ceiling * (m - d)
           y == Ceiling * (n - c)
           z == IF j.status = "in-flight" THEN Ceiling ELSE 0
<1>4. y <= Allowance - j.remaining + z /\ n <= j.attempts
  BY DEF Covers
<1>5. z \in Int
  BY NumbersAssumption
<1>6. Covers(j, m, d) <=> m <= j.attempts /\ x <= Allowance - j.remaining + z
  BY DEF Covers
<1> HIDE DEF x, y, z
<1>7. x \in Int /\ y \in Int /\ x <= y
  BY <1>3 DEF x, y
<1> QED
  BY <1>1, <1>4, <1>5, <1>6, <1>7, NumbersAssumption

LEMMA CoversWhileResting ==
  ASSUME NEW j, NEW k, NEW n, NEW c, Covers(j, n, c),
         NEW to, "in-flight" \notin to, Rests(j, k, to)
  PROVE  Covers(k, n, c)
BY DEF Rests, Covers, Pending

LEMMA CoversStart ==
  ASSUME NEW j \in Job, NEW n \in Int, NEW c \in Int, Covers(j, n, c), j.status \in Pending
  PROVE  Covers(Started(j), n + 1, c)
<1> DEFINE k == Started(j)
<1>1. /\ k.attempts = j.attempts + 1 /\ k.remaining = j.remaining /\ k.status = "in-flight"
      /\ j.attempts \in Nat /\ j.remaining \in Nat /\ j.status # "in-flight"
  BY DEF Started, Undeferred, Job, Pending
<1> HIDE DEF k
<1> DEFINE x == n - c
<1>2. x \in Int /\ n + 1 - c = x + 1
  OBVIOUS
<1>3. Ceiling * x <= Allowance - j.remaining /\ n <= j.attempts
  BY <1>1, NumbersAssumption DEF Covers
<1> HIDE DEF x
<1>4. Ceiling * (x + 1) = Ceiling * x + Ceiling /\ Ceiling * x \in Int
  BY <1>2, ChargeGrows
<1>5. Ceiling * (x + 1) <= Allowance - j.remaining + Ceiling
  BY <1>1, <1>3, <1>4, NumbersAssumption
<1> QED
  BY <1>1, <1>2, <1>3, <1>5 DEF Covers, k

LEMMA CoversAnswer ==
  ASSUME NEW j \in Job, NEW n \in Int, NEW c \in Int, Covers(j, n, c),
         j.status = "in-flight", j.remaining >= Ceiling,
         NEW k \in Job, NEW w \in BOOLEAN, Answered(j, k, w)
  PROVE  Covers(k, IF w THEN n - 1 ELSE n, c)
<1>1. /\ j.attempts \in Nat /\ j.remaining \in Nat /\ k.attempts \in Nat
      /\ k.status # "in-flight"
      /\ k.attempts = IF w /\ j.attempts > 0 THEN j.attempts - 1 ELSE j.attempts
  BY DEF Job, Answered
<1>2. k.remaining = j.remaining - Ceiling
  BY <1>1, NumbersAssumption DEF Answered, Charged, Job
<1>3. n <= j.attempts /\ Ceiling * (n - c) <= Allowance - j.remaining + Ceiling
  BY DEF Covers
<1>4. Covers(k, n, c) \/ w
  BY <1>1, <1>2, <1>3, NumbersAssumption DEF Covers
<1>5. w => Covers(k, n - 1, c)
  <2>1. n - c \in Int /\ n - 1 - c \in Int /\ n - 1 - c <= n - c
    OBVIOUS
  <2> DEFINE x == Ceiling * (n - c)
             y == Ceiling * (n - 1 - c)
  <2>2. x \in Int /\ y \in Int /\ y <= x
    BY <2>1, ChargeGrows, ChargeIsMonotone
  <2>3. x <= Allowance - j.remaining + Ceiling
    BY <1>3
  <2>4. Covers(k, n - 1, c) <=> n - 1 <= k.attempts /\ y <= Allowance - k.remaining + 0
    BY <1>1 DEF Covers
  <2> HIDE DEF x, y
  <2>5. y <= Allowance - k.remaining + 0
    BY <1>1, <1>2, <2>2, <2>3, NumbersAssumption
  <2>6. w => n - 1 <= k.attempts
    BY <1>1, <1>3
  <2> QED
    BY <2>4, <2>5, <2>6
<1> QED
  BY <1>4, <1>5

LEMMA CoversNew ==
  ASSUME NEW in \in Input, NEW n \in Int, n <= 0, NEW c \in Nat
  PROVE  Covers(NewJob(in), n, c)
<1>1. n - c \in Int /\ n - c <= 0
  OBVIOUS
<1>2. Ceiling * (n - c) <= 0 /\ Ceiling * (n - c) \in Int
  BY <1>1, ChargeGrows
<1> DEFINE k == NewJob(in)
<1>3. k.attempts = 0 /\ k.remaining = Allowance /\ k.status # "in-flight"
  BY NewRecord
<1> HIDE DEF k
<1>4. Covers(k, n, c)
  BY <1>2, <1>3, NumbersAssumption DEF Covers
<1> QED
  BY <1>4 DEF k

LEMMA OwedTyped ==
  ASSUME TypeOK
  PROVE  /\ calls \in [Keys -> Int] /\ crashes \in Nat /\ Len(saves) \in Nat
         /\ \A s \in 0..Len(saves), k \in Keys :
              /\ Owed[s][k] = IF Beginning(k, s) THEN calls[k] + 1 ELSE calls[k]
              /\ Owed[s][k] \in Int /\ calls[k] \in Int /\ calls[k] <= Owed[s][k]
         /\ \A k \in Keys : Owed[0][k] = calls[k]
<1>1. calls \in [Keys -> Int] /\ crashes \in Nat /\ Len(saves) \in Nat
      /\ DOMAIN saves = 1..Len(saves)
  BY DEF TypeOK
<1>2. \A s \in 0..Len(saves), k \in Keys :
        Owed[s][k] = IF Beginning(k, s) THEN calls[k] + 1 ELSE calls[k]
  BY DEF Owed
<1>3. \A k \in Keys : ~Beginning(k, 0)
  BY <1>1 DEF Beginning
<1>4. 0 \in 0..Len(saves)
  BY <1>1
<1>5. \A s \in 0..Len(saves), k \in Keys :
        Owed[s][k] \in Int /\ calls[k] \in Int /\ calls[k] <= Owed[s][k]
  BY <1>1, <1>2
<1> QED
  BY <1>1, <1>2, <1>3, <1>4, <1>5

\* Asking for a save changes what it alone stands for.
LEMMA OwedAsked ==
  ASSUME IInv, NEW o \in Ticks \cup {"enqueue"}, Asked(o),
         \A u \in Ticks : u # o => phase'[u] = phase[u] /\ job'[u] = job[u],
         o \in Ticks => phase[o] \notin Saving
  PROVE  /\ \A s \in 0..Len(saves), k \in Keys :
              Owed'[s][k] = IF Beginning(k, s) THEN calls'[k] + 1 ELSE calls'[k]
         /\ \A k \in Keys :
              Owed'[Len(saves) + 1][k] =
                IF Beginning(k, Len(saves))
                   \/ (o \in Ticks /\ phase'[o] = "starting" /\ Key(job'[o]) = k)
                THEN calls'[k] + 1 ELSE calls'[k]
<1> USE DEF IInv
<1> DEFINE n == Len(saves)
<1>1. /\ n \in Nat /\ DOMAIN saves = 1..n /\ DOMAIN saves' = 1..(n + 1) /\ Len(saves') = n + 1
      /\ \A s \in 1..n : saves'[s] = saves[s]
      /\ saves'[n + 1].owner = o
  BY AskedSaves
<1>2. \A p \in 1..n : saves[p].owner # o \/ o \notin Ticks
  BY <1>1, NamesAssumption DEF SaversWait
<1> HIDE DEF n
<1>3. ASSUME NEW s \in 0..n, NEW k \in Keys
      PROVE  (\E t \in Ticks, p \in DOMAIN saves' :
                /\ p <= s /\ saves'[p].owner = t
                /\ phase'[t] = "starting" /\ Key(job'[t]) = k) <=> Beginning(k, s)
  <2>1. \A t \in Ticks, p \in 1..n : saves[p].owner = t => phase'[t] = phase[t] /\ job'[t] = job[t]
    BY <1>2
  <2>2. \A p \in DOMAIN saves' : p <= s => p \in 1..n
    BY <1>1
  <2> QED
    BY <1>1, <2>1, <2>2 DEF Beginning
<1>4. ASSUME NEW k \in Keys
      PROVE  (\E t \in Ticks, p \in DOMAIN saves' :
                /\ p <= n + 1 /\ saves'[p].owner = t
                /\ phase'[t] = "starting" /\ Key(job'[t]) = k)
             <=> \/ Beginning(k, n)
                 \/ o \in Ticks /\ phase'[o] = "starting" /\ Key(job'[o]) = k
  <2>1. \A t \in Ticks, p \in 1..n : saves[p].owner = t => phase'[t] = phase[t] /\ job'[t] = job[t]
    BY <1>2
  <2>2. \A p \in 1..n : p <= n /\ p <= n + 1 /\ p \in DOMAIN saves' /\ p \in DOMAIN saves
    BY <1>1
  <2>3. n + 1 \in DOMAIN saves' /\ n + 1 <= n + 1
    BY <1>1
  <2>4. \A p \in DOMAIN saves' : p \in 1..n \/ p = n + 1
    BY <1>1
  <2> QED
    BY <1>1, <2>1, <2>2, <2>3, <2>4 DEF Beginning
<1>5. 0..n \subseteq 0..Len(saves') /\ n + 1 \in 0..Len(saves')
  BY <1>1
<1>6. \A s \in 0..n, k \in Keys :
        Owed'[s][k] = IF Beginning(k, s) THEN calls'[k] + 1 ELSE calls'[k]
  <2> TAKE s \in 0..n, k \in Keys
  <2>1. Owed'[s][k] = IF \E t \in Ticks, p \in DOMAIN saves' :
                           /\ p <= s /\ saves'[p].owner = t
                           /\ phase'[t] = "starting" /\ Key(job'[t]) = k
                      THEN calls'[k] + 1 ELSE calls'[k]
    BY <1>5 DEF Owed, Beginning, Key
  <2> QED
    BY <1>3, <2>1
<1>7. \A k \in Keys :
        Owed'[n + 1][k] = IF Beginning(k, n)
                             \/ (o \in Ticks /\ phase'[o] = "starting" /\ Key(job'[o]) = k)
                          THEN calls'[k] + 1 ELSE calls'[k]
  <2> TAKE k \in Keys
  <2>1. Owed'[n + 1][k] = IF \E t \in Ticks, p \in DOMAIN saves' :
                               /\ p <= n + 1 /\ saves'[p].owner = t
                               /\ phase'[t] = "starting" /\ Key(job'[t]) = k
                          THEN calls'[k] + 1 ELSE calls'[k]
    BY <1>5 DEF Owed, Beginning, Key
  <2> QED
    BY <1>4, <2>1
<1> QED
  BY <1>6, <1>7 DEF n

\* The first save leaves: the others stand for no more calls than before.
LEMMA OwedTail ==
  ASSUME IInv, saves # <<>>, saves' = Tail(saves), NEW o, o = Head(saves).owner,
         calls' \in [Keys -> Int],
         \A u \in Ticks : phase'[u] = "starting" =>
           phase[u] = "starting" /\ job'[u] = job[u] /\ u # o,
         \A k \in Keys :
           \/ calls'[k] = calls[k]
           \/ /\ calls'[k] = calls[k] + 1
              /\ o \in Ticks /\ phase[o] = "starting" /\ Key(job[o]) = k
  PROVE  /\ \A s \in 0..Len(saves'), k \in Keys :
              Owed'[s][k] \in Int /\ Owed'[s][k] <= Owed[s + 1][k]
         /\ \A k \in Keys : calls'[k] <= Owed[1][k]
<1> USE DEF IInv
<1> DEFINE n == Len(saves)
<1>1. /\ n \in Nat /\ n >= 1 /\ DOMAIN saves = 1..n /\ 1 \in DOMAIN saves /\ Head(saves) = saves[1]
      /\ DOMAIN saves' = 1..(n - 1) /\ Len(saves') = n - 1
      /\ \A s \in DOMAIN saves' : s + 1 \in DOMAIN saves /\ saves'[s] = saves[s + 1]
  BY TailSaves
<1> HIDE DEF n
<1>2. calls \in [Keys -> Int]
  BY DEF TypeOK
<1>3. \A s \in 0..Len(saves'), k \in Keys :
        Owed'[s][k] = IF \E t \in Ticks, p \in DOMAIN saves' :
                           /\ p <= s /\ saves'[p].owner = t
                           /\ phase'[t] = "starting" /\ Key(job'[t]) = k
                      THEN calls'[k] + 1 ELSE calls'[k]
  BY DEF Owed, Beginning, Key
<1>4. \A s \in 0..(n - 1) : s + 1 \in 0..n /\ 1 <= s + 1 /\ 1 \in 0..n
  BY <1>1
<1>5. \A s \in 1..n, k \in Keys :
        Owed[s][k] = IF Beginning(k, s) THEN calls[k] + 1 ELSE calls[k]
  BY <1>1 DEF Owed, n
<1>6. \A s \in 0..(n - 1), p \in DOMAIN saves' : p <= s => p + 1 <= s + 1
  BY <1>1
<1>7. ASSUME NEW s \in 0..(n - 1), NEW k \in Keys
      PROVE  /\ Owed'[s][k] \in Int /\ Owed'[s][k] <= Owed[s + 1][k]
             /\ calls'[k] <= Owed[s + 1][k]
  <2> DEFINE B == \E t \in Ticks, p \in DOMAIN saves' :
                    /\ p <= s /\ saves'[p].owner = t
                    /\ phase'[t] = "starting" /\ Key(job'[t]) = k
  <2>1. s + 1 \in 1..n /\ s \in 0..Len(saves') /\ 1 <= s + 1
    BY <1>1, <1>4
  <2>2. B => Beginning(k, s + 1) /\ calls'[k] = calls[k]
    <3>1. SUFFICES ASSUME NEW t \in Ticks, NEW p \in DOMAIN saves',
                          p <= s, saves'[p].owner = t,
                          phase'[t] = "starting", Key(job'[t]) = k
                   PROVE  Beginning(k, s + 1) /\ calls'[k] = calls[k]
      OBVIOUS
    <3>2. p + 1 \in DOMAIN saves /\ p + 1 <= s + 1 /\ saves[p + 1].owner = t
      BY <1>1, <1>6, <3>1
    <3>3. phase[t] = "starting" /\ Key(job[t]) = k /\ t # o
      BY <3>1
    <3>4. Beginning(k, s + 1)
      BY <3>2, <3>3 DEF Beginning
    <3>5. ~(o \in Ticks /\ phase[o] = "starting" /\ Key(job[o]) = k)
      BY <3>3 DEF OneTickPerJob, Holds
    <3> QED
      BY <3>4, <3>5
  <2>3. Owed'[s][k] = IF B THEN calls'[k] + 1 ELSE calls'[k]
    BY <1>3, <2>1
  <2> HIDE DEF B
  <2>4. calls'[k] = calls[k] + 1 => Beginning(k, s + 1)
    <3>1. SUFFICES ASSUME calls'[k] = calls[k] + 1
                   PROVE  Beginning(k, s + 1)
      OBVIOUS
    <3>2. o \in Ticks /\ phase[o] = "starting" /\ Key(job[o]) = k
      BY <1>2, <3>1
    <3> QED
      BY <1>1, <2>1, <3>2 DEF Beginning
  <2>5. Owed[s + 1][k] = IF Beginning(k, s + 1) THEN calls[k] + 1 ELSE calls[k]
    BY <1>5, <2>1
  <2>6. calls[k] \in Int /\ (calls'[k] = calls[k] \/ calls'[k] = calls[k] + 1)
    BY <1>2
  <2> QED
    BY <2>2, <2>3, <2>4, <2>5, <2>6
<1>8. \A k \in Keys : calls'[k] <= Owed[1][k]
  <2>1. 0 \in 0..(n - 1) /\ 0 + 1 = 1
    BY <1>1
  <2> QED
    BY <1>7, <2>1
<1> QED
  BY <1>1, <1>7, <1>8

\* A save asked for whose snapshot covers the calls it stands for.
LEMMA ChargingAsked ==
  ASSUME IInv, IInv', Charging, NEW o \in Ticks \cup {"enqueue"}, Asked(o),
         \A u \in Ticks : u # o => phase'[u] = phase[u] /\ job'[u] = job[u],
         o \in Ticks => phase[o] \notin Saving,
         \A k \in Keys : calls'[k] <= calls[k],
         CoversAll(jobs', Owed'[Len(saves) + 1], crashes),
         o \in Ticks /\ phase'[o] \in {"starting", "running"} => job'[o].remaining >= Ceiling
  PROVE  Charging'
<1> USE DEF IInv
<1> DEFINE n == Len(saves)
<1>1. /\ n \in Nat /\ DOMAIN saves = 1..n /\ DOMAIN saves' = 1..(n + 1) /\ Len(saves') = n + 1
      /\ \A s \in 1..n : saves'[s] = saves[s]
      /\ saves'[n + 1].owner = o /\ saves'[n + 1].snapshot.jobs = jobs'
  BY AskedSaves
<1>2. up' /\ disk' = disk /\ crashes' = crashes
  BY DEF Asked
<1>3. calls \in [Keys -> Int] /\ calls' \in [Keys -> Int] /\ crashes \in Int
  BY DEF TypeOK
<1>4. disk.jobs \in Seq(Job)
  BY DEF TypeOK, Snapshots
<1>5. CoversAll(disk'.jobs, calls', crashes')
  <2> SUFFICES ASSUME NEW i \in DOMAIN disk.jobs
               PROVE  Covers(disk.jobs[i], calls'[Key(disk.jobs[i])], crashes)
    BY <1>2 DEF CoversAll
  <2>1. disk.jobs[i] \in Job /\ Key(disk.jobs[i]) \in Keys
    BY <1>4, RecordSteps, NumbersAssumption
  <2>2. Covers(disk.jobs[i], calls[Key(disk.jobs[i])], crashes)
    BY DEF Charging, Covered, CoversAll
  <2> QED
    BY <1>3, <2>1, <2>2, CoversLess
<1>6. \A s \in 1..n : CoversAll(saves'[s].snapshot.jobs, Owed'[s], crashes')
  <2> SUFFICES ASSUME NEW s \in 1..n, NEW i \in DOMAIN saves[s].snapshot.jobs
               PROVE  Covers(saves[s].snapshot.jobs[i],
                             Owed'[s][Key(saves[s].snapshot.jobs[i])], crashes)
    BY <1>1, <1>2 DEF CoversAll
  <2> DEFINE j == saves[s].snapshot.jobs[i]
             k == Key(j)
  <2>1. saves[s].snapshot.jobs \in Seq(Job) /\ s \in 0..n
    BY <1>1, SaveTyped
  <2>2. j \in Job
    BY <2>1
  <2>3. Covers(j, Owed[s][k], crashes)
    BY <1>1 DEF Charging, Covered, CoversAll
  <2> HIDE DEF j
  <2>4. k \in Keys
    BY <2>2, RecordSteps, NumbersAssumption
  <2>5. Owed'[s][k] = IF Beginning(k, s) THEN calls'[k] + 1 ELSE calls'[k]
    BY <2>1, <2>4, OwedAsked
  <2>6. Owed[s][k] = IF Beginning(k, s) THEN calls[k] + 1 ELSE calls[k]
    BY <2>1, <2>4, OwedTyped
  <2> HIDE DEF k
  <2>7. calls[k] \in Int /\ calls'[k] \in Int /\ calls'[k] <= calls[k]
    BY <1>3, <2>4
  <2>8. Owed'[s][k] \in Int /\ Owed[s][k] \in Int /\ Owed'[s][k] <= Owed[s][k]
    BY <2>5, <2>6, <2>7
  <2>9. Covers(j, Owed'[s][k], crashes)
    BY <1>3, <2>2, <2>3, <2>8, CoversLess
  <2> QED
    BY <2>9 DEF j, k
<1>7. \A s \in DOMAIN saves' : CoversAll(saves'[s].snapshot.jobs, Owed'[s], crashes')
  BY <1>1, <1>2, <1>6
<1>8. CoversAll(jobs', Owed'[Len(saves')], crashes')
  BY <1>1, <1>2
<1>9. \A k \in Keys : calls'[k] > 0 => \E i \in DOMAIN disk'.jobs : Key(disk'.jobs[i]) = k
  BY <1>2, <1>3 DEF Charging, Covered, Accepted
<1>10. Funded'
  BY DEF Charging, Funded, Holds
<1>11. Rested'
  BY <1>2 DEF Rested
<1> QED
  BY <1>5, <1>7, <1>8, <1>9, <1>10, <1>11 DEF Charging, Covered, Accepted, Key

\* What a caller finds in memory, and what one phase of a call lets it conclude.
LEMMA MemoryCovered ==
  ASSUME IInv, Charging
  PROVE  /\ \A i \in DOMAIN jobs :
              /\ jobs[i] \in Job /\ Key(jobs[i]) \in Keys
              /\ Owed[Len(saves)][Key(jobs[i])] \in Int
              /\ Covers(jobs[i], Owed[Len(saves)][Key(jobs[i])], crashes)
         /\ crashes \in Int
         /\ \A k \in Keys :
              /\ calls[k] \in Int
              /\ Owed[Len(saves)][k] =
                   IF Beginning(k, Len(saves)) THEN calls[k] + 1 ELSE calls[k]
<1>1. jobs \in Seq(Job)
  BY DEF IInv, TypeOK
<1>2. \A i \in DOMAIN jobs : jobs[i] \in Job /\ Key(jobs[i]) \in Keys
  BY <1>1, RecordSteps, NumbersAssumption
<1>3. Len(saves) \in 0..Len(saves)
  BY OwedTyped DEF IInv
<1> QED
  BY <1>2, <1>3, OwedTyped DEF IInv, Charging, Covered, CoversAll

LEMMA ChargingAdds ==
  ASSUME IInv, IInv', Ordered, Charging, NEW in \in Inputs, Adds(in)
  PROVE  Charging'
<1> DEFINE n == Len(saves)
           m == Len(jobs)
           j == NewJob(in)
<1>1. /\ Asked("enqueue") /\ Len(jobs') = m + 1 /\ jobs'[m + 1] = j
      /\ \A i \in DOMAIN jobs : Key(jobs[i]) # Key(j)
      /\ \A i \in DOMAIN jobs : Rests(jobs[i], jobs'[i], {"failed"})
      /\ phase' = phase /\ job' = job /\ calls' = calls
  BY DEF Adds
<1>2. in \in Input /\ "enqueue" \notin Ticks
  BY NamesAssumption
<1>3. /\ jobs \in Seq(Job) /\ m \in Nat /\ DOMAIN jobs = 1..m /\ jobs' \in Seq(Job)
      /\ DOMAIN jobs' = 1..(m + 1)
  BY <1>1 DEF IInv, TypeOK
<1>4. \A k \in Keys : Owed'[n + 1][k] = Owed[n][k]
  BY <1>1, <1>2, OwedAsked, MemoryCovered
<1>5. j \in Job /\ Key(j) \in Keys
  BY <1>2, NewRecord, RecordSteps, NumbersAssumption
<1>6. calls[Key(j)] <= 0
  <2>1. ~Accepted(Key(j))
    BY <1>1 DEF Accepted, Ordered, Grows, Asked
  <2>2. ~(calls[Key(j)] > 0)
    BY <1>5, <2>1 DEF Charging, Covered
  <2> QED
    BY <1>5, <2>2, MemoryCovered
<1>7. ~Beginning(Key(j), n)
  BY <1>1 DEF Beginning, IInv, OneTickPerJob, Holds
<1>8. Owed[n][Key(j)] = calls[Key(j)] /\ calls[Key(j)] \in Int /\ crashes \in Nat
  BY <1>5, <1>7, MemoryCovered DEF IInv, TypeOK
<1>9. Covers(j, Owed[n][Key(j)], crashes)
  BY <1>2, <1>6, <1>8, CoversNew
<1> HIDE DEF j, n
<1>10. ASSUME NEW i \in DOMAIN jobs'
       PROVE  Covers(jobs'[i], Owed'[n + 1][Key(jobs'[i])], crashes)
  <2>1. CASE i = m + 1
    BY <1>1, <1>4, <1>5, <1>9, <2>1
  <2>2. CASE i \in 1..m
    <3>1. Rests(jobs[i], jobs'[i], {"failed"}) /\ Key(jobs'[i]) = Key(jobs[i])
      BY <1>1, <1>3, <2>2 DEF Rests
    <3>2. Covers(jobs[i], Owed[n][Key(jobs[i])], crashes) /\ Key(jobs[i]) \in Keys
      BY <1>3, <2>2, MemoryCovered DEF n
    <3>3. Covers(jobs'[i], Owed[n][Key(jobs[i])], crashes)
      BY <3>1, <3>2, CoversWhileResting
    <3> QED
      BY <1>4, <3>1, <3>2, <3>3
  <2> QED
    BY <1>3, <2>1, <2>2
<1>11. CoversAll(jobs', Owed'[Len(saves) + 1], crashes)
  BY <1>10 DEF CoversAll, n
<1>12. \A k \in Keys : calls'[k] <= calls[k]
  BY <1>1, MemoryCovered
<1> QED
  BY <1>1, <1>2, <1>11, <1>12, ChargingAsked

LEMMA ChargingWaits ==
  ASSUME IInv, IInv', Charging, NEW t \in Ticks, Waits(t)
  PROVE  Charging'
<1> DEFINE n == Len(saves)
<1>1. /\ Asked(t) /\ DOMAIN jobs' = DOMAIN jobs
      /\ \A i \in DOMAIN jobs : Rests(jobs[i], jobs'[i], Pending)
      /\ phase[t] \notin Saving /\ job' = job /\ calls' = calls
      /\ phase'[t] \notin {"starting", "running"}
      /\ \A u \in Ticks : u # t => phase'[u] = phase[u]
  BY DEF Waits, Saving, IInv, TypeOK
<1>2. \A k \in Keys : Owed'[n + 1][k] = Owed[n][k]
  BY <1>1, OwedAsked, MemoryCovered
<1> HIDE DEF n
<1>3. ASSUME NEW i \in DOMAIN jobs'
      PROVE  Covers(jobs'[i], Owed'[n + 1][Key(jobs'[i])], crashes)
  <2>1. /\ Rests(jobs[i], jobs'[i], Pending) /\ Key(jobs'[i]) = Key(jobs[i])
        /\ "in-flight" \notin Pending
    BY <1>1 DEF Rests, Pending
  <2>2. Covers(jobs[i], Owed[n][Key(jobs[i])], crashes) /\ Key(jobs[i]) \in Keys
    BY <1>1, MemoryCovered DEF n
  <2>3. Covers(jobs'[i], Owed[n][Key(jobs[i])], crashes)
    BY <2>1, <2>2, CoversWhileResting
  <2> QED
    BY <1>2, <2>1, <2>2, <2>3
<1>4. CoversAll(jobs', Owed'[Len(saves) + 1], crashes)
  BY <1>3 DEF CoversAll, n
<1>5. \A k \in Keys : calls'[k] <= calls[k]
  BY <1>1, MemoryCovered
<1> QED
  BY <1>1, <1>4, <1>5, ChargingAsked

LEMMA ChargingStarts ==
  ASSUME IInv, IInv', Charging, NEW t \in Ticks, NEW i \in DOMAIN jobs, Starts(t, i)
  PROVE  Charging'
<1> DEFINE n == Len(saves)
           j == Started(jobs[i])
<1>1. /\ Asked(t) /\ DOMAIN jobs' = DOMAIN jobs /\ jobs'[i] = j
      /\ \A k \in DOMAIN jobs : k # i => jobs'[k] = jobs[k]
      /\ jobs[i].status \in Pending /\ jobs[i].remaining >= Ceiling
      /\ phase[t] \notin Saving /\ phase'[t] = "starting" /\ job'[t] = j /\ calls' = calls
      /\ \A u \in Ticks : u # t => phase'[u] = phase[u] /\ job'[u] = job[u]
  BY DEF Starts, Saving, IInv, TypeOK
<1>2. /\ jobs[i] \in Job /\ Key(j) = Key(jobs[i]) /\ j.remaining = jobs[i].remaining
      /\ j \in Job
  <2>1. jobs[i] \in Job
    BY MemoryCovered
  <2> QED
    BY <2>1, StartedRecord DEF Started, Undeferred, Job
<1>3. \A k \in Keys : Owed'[n + 1][k] =
        IF Beginning(k, n) \/ Key(j) = k THEN calls[k] + 1 ELSE calls[k]
  BY <1>1, OwedAsked
<1>4. \A k \in Keys : /\ Owed[n][k] = IF Beginning(k, n) THEN calls[k] + 1 ELSE calls[k]
                      /\ calls[k] \in Int
  BY MemoryCovered
<1>5. Covers(jobs[i], Owed[n][Key(j)], crashes) /\ Key(j) \in Keys /\ crashes \in Int
  BY <1>2, MemoryCovered
<1>6. OneRecordEach(jobs)
  BY DEF IInv, UniqueIdentity
<1>7. Covers(j, Owed[n][Key(j)] + 1, crashes)
  BY <1>1, <1>2, <1>4, <1>5, CoversStart
<1> HIDE DEF n, j
<1>8. ASSUME NEW k \in DOMAIN jobs'
      PROVE  Covers(jobs'[k], Owed'[n + 1][Key(jobs'[k])], crashes)
  <2>1. CASE k = i
    <3>1. /\ Owed'[n + 1][Key(j)] \in Int /\ Owed[n][Key(j)] + 1 \in Int
          /\ Owed'[n + 1][Key(j)] <= Owed[n][Key(j)] + 1
      BY <1>3, <1>4, <1>5
    <3>2. Covers(j, Owed'[n + 1][Key(j)], crashes)
      BY <1>2, <1>5, <1>7, <3>1, CoversLess
    <3> QED
      BY <1>1, <2>1, <3>2
  <2>2. CASE k # i
    <3>1. jobs'[k] = jobs[k] /\ Key(jobs[k]) # Key(j) /\ Key(jobs[k]) \in Keys
      BY <1>1, <1>2, <1>6, <2>2, MemoryCovered DEF OneRecordEach
    <3>2. Owed'[n + 1][Key(jobs[k])] = Owed[n][Key(jobs[k])]
      BY <1>3, <1>4, <3>1
    <3>3. Covers(jobs[k], Owed[n][Key(jobs[k])], crashes)
      BY <1>1, MemoryCovered DEF n
    <3> QED
      BY <3>1, <3>2, <3>3
  <2> QED
    BY <2>1, <2>2
<1>9. CoversAll(jobs', Owed'[Len(saves) + 1], crashes)
  BY <1>8 DEF CoversAll, n
<1>10. \A k \in Keys : calls'[k] <= calls[k]
  BY <1>1, <1>4
<1> QED
  BY <1>1, <1>2, <1>9, <1>10, ChargingAsked

LEMMA ChargingAnswers ==
  ASSUME IInv, IInv', Charging, NEW t \in Ticks, NEW i \in DOMAIN jobs, NEW w \in BOOLEAN,
         Answers(t, i, w)
  PROVE  Charging'
<1> DEFINE n == Len(saves)
           h == Key(job[t])
<1>1. /\ Asked(t) /\ DOMAIN jobs' = DOMAIN jobs /\ jobs[i] = job[t]
      /\ Answered(jobs[i], jobs'[i], w)
      /\ \A k \in DOMAIN jobs : k # i => Rests(jobs[k], jobs'[k], Pending)
      /\ phase[t] = "running" /\ phase[t] \notin Saving
      /\ phase'[t] \notin {"starting", "running"}
      /\ \A u \in Ticks : u # t => phase'[u] = phase[u] /\ job'[u] = job[u]
      /\ calls' = IF w THEN [calls EXCEPT ![h] = @ - 1] ELSE calls
  BY DEF Answers, Saving, IInv, TypeOK
<1>2. /\ jobs[i] \in Job /\ h \in Keys /\ Key(jobs[i]) = h
      /\ jobs[i].status = "in-flight" /\ jobs[i].remaining >= Ceiling
  BY <1>1, MemoryCovered DEF IInv, HeldIsInFlight, Holds, Charging, Funded
<1>3. jobs'[i] \in Job /\ Key(jobs'[i]) = h
  <2>1. jobs' \in Seq(Job)
    BY DEF IInv, TypeOK
  <2> QED
    BY <1>1, <1>2, <2>1 DEF Answered
<1>4. \A k \in Keys : /\ Owed'[n + 1][k] = IF Beginning(k, n) THEN calls'[k] + 1 ELSE calls'[k]
                      /\ Owed[n][k] = IF Beginning(k, n) THEN calls[k] + 1 ELSE calls[k]
                      /\ calls[k] \in Int
  BY <1>1, OwedAsked, MemoryCovered
<1>5. ~Beginning(h, n)
  BY <1>1 DEF Beginning, IInv, OneTickPerJob, Holds
<1>6. OneRecordEach(jobs) /\ crashes \in Int /\ calls \in [Keys -> Int]
  BY MemoryCovered DEF IInv, UniqueIdentity, TypeOK
<1>7. Covers(jobs[i], calls[h], crashes)
  BY <1>2, <1>4, <1>5, MemoryCovered
<1> HIDE DEF n, h
<1>8. calls'[h] = IF w THEN calls[h] - 1 ELSE calls[h]
  BY <1>1, <1>2, <1>6
<1>9. \A k \in Keys : k # h => calls'[k] = calls[k]
  BY <1>1, <1>6
<1>10. Covers(jobs'[i], Owed'[n + 1][h], crashes)
  <2>1. Covers(jobs'[i], IF w THEN calls[h] - 1 ELSE calls[h], crashes)
    BY <1>1, <1>2, <1>3, <1>4, <1>6, <1>7, CoversAnswer
  <2> QED
    BY <1>2, <1>4, <1>5, <1>8, <2>1
<1>11. ASSUME NEW k \in DOMAIN jobs'
       PROVE  Covers(jobs'[k], Owed'[n + 1][Key(jobs'[k])], crashes)
  <2>1. CASE k = i
    BY <1>3, <1>10, <2>1
  <2>2. CASE k # i
    <3>1. /\ Rests(jobs[k], jobs'[k], Pending) /\ Key(jobs'[k]) = Key(jobs[k])
          /\ "in-flight" \notin Pending
      BY <1>1, <2>2 DEF Rests, Pending
    <3>2. Key(jobs[k]) # h /\ Key(jobs[k]) \in Keys
      BY <1>1, <1>2, <1>6, <2>2, MemoryCovered DEF OneRecordEach
    <3>3. Owed'[n + 1][Key(jobs[k])] = Owed[n][Key(jobs[k])]
      BY <1>4, <1>9, <3>2
    <3>4. Covers(jobs[k], Owed[n][Key(jobs[k])], crashes)
      BY <1>1, MemoryCovered DEF n
    <3>5. Covers(jobs'[k], Owed[n][Key(jobs[k])], crashes)
      BY <3>1, <3>4, CoversWhileResting
    <3> QED
      BY <3>1, <3>3, <3>5
  <2> QED
    BY <2>1, <2>2
<1>12. CoversAll(jobs', Owed'[Len(saves) + 1], crashes)
  BY <1>11 DEF CoversAll, n
<1>13. \A k \in Keys : calls'[k] <= calls[k]
  BY <1>4, <1>8, <1>9
<1> QED
  BY <1>1, <1>12, <1>13, ChargingAsked

\* A save that lands or rejects: who waits for it, and what it makes a call of the runner.
LEMMA SaveLeaves ==
  ASSUME IInv, SaveLands \/ SaveRejects, NEW o, o = Head(saves).owner
  PROVE  /\ saves # <<>> /\ saves' = Tail(saves) /\ calls' \in [Keys -> Int]
         /\ up /\ up' /\ crashes' = crashes /\ jobs' = jobs
         /\ \A u \in Ticks : phase'[u] = "starting" =>
              phase[u] = "starting" /\ job'[u] = job[u] /\ u # o
         /\ \A u \in Ticks : Holds(u)' => Holds(u) /\ job'[u] = job[u]
         /\ \A k \in Keys :
              \/ calls'[k] = calls[k]
              \/ /\ SaveLands /\ calls'[k] = calls[k] + 1
                 /\ o \in Ticks /\ phase[o] = "starting" /\ Key(job[o]) = k
<1> USE DEF IInv
<1>1. /\ phase \in [Ticks -> Phases] /\ job \in [Ticks -> Job \cup {NoJob}]
      /\ calls \in [Keys -> Int]
  BY DEF TypeOK
<1>2. saves # <<>> /\ saves' = Tail(saves)
  BY DEF SaveLands, SaveRejects
<1>3. o # "enqueue" => o \in Ticks /\ phase[o] \in Saving
  BY <1>2, FirstSaveLeaves
<1>4. "enqueue" \notin Ticks
  BY NamesAssumption
<1>5. calls' \in [Keys -> Int]
  <2>1. IInv'
    BY NextIInv DEF Next
  <2> QED
    BY <2>1 DEF TypeOK
<1>6. CASE SaveLands
  <2>1. /\ up /\ up' /\ crashes' = crashes /\ jobs' = jobs /\ job' = job
        /\ IF o = "enqueue" THEN phase' = phase /\ calls' = calls
           ELSE /\ phase' = [phase EXCEPT ![o] = AfterSave(o)]
                /\ calls' = IF phase[o] = "starting"
                            THEN [calls EXCEPT ![Key(job[o])] = @ + 1] ELSE calls
    BY <1>6 DEF SaveLands, memory, process
  <2>2. CASE o = "enqueue"
    BY <1>2, <1>4, <1>5, <2>1, <2>2 DEF Holds
  <2>3. CASE o # "enqueue"
    <3>1. o \in Ticks /\ phase'[o] = AfterSave(o) /\ phase'[o] \in {"reset", "running", "idle"}
          /\ (phase'[o] = "running" => phase[o] = "starting")
      BY <1>1, <1>3, <2>1, <2>3 DEF AfterSave, Saving
    <3>2. \A u \in Ticks : u # o => phase'[u] = phase[u]
      BY <1>1, <2>1, <2>3
    <3>3. \A u \in Ticks : phase'[u] = "starting" => phase[u] = "starting" /\ u # o
      BY <3>1, <3>2
    <3>4. \A u \in Ticks : Holds(u)' => Holds(u)
      BY <3>1, <3>2 DEF Holds
    <3>5. \A k \in Keys :
            \/ calls'[k] = calls[k]
            \/ /\ SaveLands /\ calls'[k] = calls[k] + 1
               /\ o \in Ticks /\ phase[o] = "starting" /\ Key(job[o]) = k
      BY <1>1, <1>6, <2>1, <2>3, <3>1
    <3> QED
      BY <1>2, <1>5, <2>1, <3>3, <3>4, <3>5
  <2> QED
    BY <2>2, <2>3
<1>7. CASE SaveRejects
  <2>1. /\ up /\ up' /\ crashes' = crashes /\ jobs' = jobs /\ calls' = calls
        /\ IF o = "enqueue" THEN phase' = phase /\ job' = job ELSE Leave(o)
    BY <1>7 DEF SaveRejects, memory, process
  <2>2. \A u \in Ticks : /\ phase'[u] = phase[u] /\ job'[u] = job[u] /\ u # o
                         \/ phase'[u] = "idle"
    BY <1>1, <1>3, <1>4, <2>1 DEF Leave
  <2> QED
    BY <1>2, <1>5, <2>1, <2>2 DEF Holds
<1> QED
  BY <1>6, <1>7

LEMMA ChargingSaveLeaves ==
  ASSUME IInv, Ordered, HeldIsSaved, Charging, SaveLands \/ SaveRejects
  PROVE  Charging'
<1> USE DEF IInv
<1> DEFINE o == Head(saves).owner
           n == Len(saves)
<1>1. /\ saves # <<>> /\ saves' = Tail(saves) /\ calls' \in [Keys -> Int]
      /\ up /\ up' /\ crashes' = crashes /\ jobs' = jobs
      /\ \A u \in Ticks : phase'[u] = "starting" =>
           phase[u] = "starting" /\ job'[u] = job[u] /\ u # o
      /\ \A u \in Ticks : Holds(u)' => Holds(u) /\ job'[u] = job[u]
      /\ \A k \in Keys :
           \/ calls'[k] = calls[k]
           \/ /\ SaveLands /\ calls'[k] = calls[k] + 1
              /\ o \in Ticks /\ phase[o] = "starting" /\ Key(job[o]) = k
  BY SaveLeaves
<1>2. /\ n \in Nat /\ n >= 1 /\ DOMAIN saves = 1..n /\ 1 \in DOMAIN saves /\ Head(saves) = saves[1]
      /\ DOMAIN saves' = 1..(n - 1) /\ Len(saves') = n - 1
      /\ \A s \in DOMAIN saves' : s + 1 \in DOMAIN saves /\ saves'[s] = saves[s + 1]
  BY <1>1, TailSaves
<1>3. /\ \A s \in 0..Len(saves'), k \in Keys :
           Owed'[s][k] \in Int /\ Owed'[s][k] <= Owed[s + 1][k]
      /\ \A k \in Keys : calls'[k] <= Owed[1][k]
  BY <1>1, OwedTail
<1>4. \A s \in 0..n, k \in Keys : Owed[s][k] \in Int
  BY OwedTyped
<1>5. crashes \in Int /\ crashes <= crashes
  BY DEF TypeOK
<1> HIDE DEF n
<1>6. ASSUME NEW q \in Seq(Job), NEW s \in 1..n, CoversAll(q, Owed[s], crashes),
             NEW f, \A k \in Keys : f[k] \in Int /\ f[k] <= Owed[s][k]
      PROVE  CoversAll(q, f, crashes)
  <2> SUFFICES ASSUME NEW i \in DOMAIN q
               PROVE  Covers(q[i], f[Key(q[i])], crashes)
    BY DEF CoversAll
  <2>1. q[i] \in Job
    OBVIOUS
  <2>2. Key(q[i]) \in Keys /\ Covers(q[i], Owed[s][Key(q[i])], crashes)
    BY <1>6, <2>1, RecordSteps, NumbersAssumption DEF CoversAll
  <2>3. s \in 0..n
    BY <1>2
  <2>4. /\ Owed[s][Key(q[i])] \in Int /\ f[Key(q[i])] \in Int
        /\ f[Key(q[i])] <= Owed[s][Key(q[i])]
    BY <1>4, <1>6, <2>2, <2>3
  <2> QED
    BY <1>5, <2>1, <2>2, <2>4, CoversLess
<1>7. \A s \in DOMAIN saves : /\ saves[s].snapshot.jobs \in Seq(Job)
                              /\ CoversAll(saves[s].snapshot.jobs, Owed[s], crashes)
  BY SaveTyped DEF Charging, Covered
<1>8. CoversAll(disk'.jobs, calls', crashes')
  <2>1. CASE SaveLands
    <3>1. disk'.jobs = saves[1].snapshot.jobs
      BY <1>2, <2>1 DEF SaveLands
    <3>2. \A k \in Keys : calls'[k] \in Int /\ calls'[k] <= Owed[1][k]
      BY <1>1, <1>3
    <3> QED
      BY <1>1, <1>2, <1>6, <1>7, <3>1, <3>2
  <2>2. CASE SaveRejects
    <3>1. disk' = disk /\ calls' = calls
      BY <2>2 DEF SaveRejects
    <3> QED
      BY <1>1, <3>1 DEF Charging, Covered
  <2> QED
    BY <2>1, <2>2
<1>9. ASSUME NEW s \in DOMAIN saves'
      PROVE  CoversAll(saves'[s].snapshot.jobs, Owed'[s], crashes')
  <2>1. /\ s + 1 \in 1..n /\ s \in 0..Len(saves') /\ saves'[s] = saves[s + 1]
        /\ s + 1 \in DOMAIN saves
    BY <1>2
  <2>2. \A k \in Keys : Owed'[s][k] \in Int /\ Owed'[s][k] <= Owed[s + 1][k]
    BY <1>3, <2>1
  <2> QED
    BY <1>1, <1>6, <1>7, <2>1, <2>2
<1>10. CoversAll(jobs', Owed'[Len(saves')], crashes')
  <2>1. n - 1 \in 0..Len(saves') /\ n \in 1..n /\ (n - 1) + 1 = n
    BY <1>2
  <2>2. \A k \in Keys : Owed'[n - 1][k] \in Int /\ Owed'[n - 1][k] <= Owed[n][k]
    BY <1>3, <2>1
  <2>3. jobs \in Seq(Job) /\ CoversAll(jobs, Owed[n], crashes)
    BY DEF TypeOK, Charging, Covered, n
  <2> QED
    BY <1>1, <1>2, <1>6, <2>1, <2>2, <2>3
<1>11. ASSUME NEW k \in Keys, calls'[k] > 0
       PROVE  \E i \in DOMAIN disk'.jobs : Key(disk'.jobs[i]) = k
  <2>1. CASE calls'[k] = calls[k]
    <3>1. PICK i \in DOMAIN disk.jobs : Key(disk.jobs[i]) = k
      BY <1>11, <2>1 DEF Charging, Covered, Accepted
    <3>2. disk' = disk \/ disk' = saves[1].snapshot
      BY <1>2 DEF SaveLands, SaveRejects
    <3>3. /\ i \in DOMAIN saves[1].snapshot.jobs /\ Key(saves[1].snapshot.jobs[i]) = k
      BY <1>2, <3>1 DEF Ordered, Grows
    <3> QED
      BY <3>1, <3>2, <3>3
  <2>2. CASE /\ SaveLands /\ o \in Ticks /\ phase[o] = "starting" /\ Key(job[o]) = k
    <3>1. disk' = saves[1].snapshot /\ saves[1].owner = o
      BY <1>2, <2>2 DEF SaveLands
    <3>2. 1 <= 1
      OBVIOUS
    <3>3. Has(saves[1].snapshot.jobs, job[o])
      BY <1>2, <2>2, <3>1, <3>2 DEF HeldIsSaved
    <3> QED
      BY <2>2, <3>1, <3>3 DEF Has
  <2> QED
    BY <1>1, <2>1, <2>2
<1>12. Rested'
  BY <1>1 DEF Rested
<1>13. Funded'
  BY <1>1 DEF Charging, Funded
<1> QED
  BY <1>8, <1>9, <1>10, <1>11, <1>12, <1>13 DEF Charging, Covered, Accepted, Key

LEMMA ChargingCrash ==
  ASSUME IInv, Charging, Crash
  PROVE  Charging'
<1>1. /\ crashes' = crashes + 1 /\ ~up' /\ jobs' = <<>> /\ saves' = <<>>
      /\ phase' = [t \in Ticks |-> "idle"] /\ UNCHANGED <<disk, calls>>
  BY DEF Crash
<1>2. DOMAIN jobs' = {} /\ DOMAIN saves' = {}
  BY <1>1
<1>3. crashes \in Int /\ calls \in [Keys -> Int] /\ disk.jobs \in Seq(Job)
  BY DEF IInv, TypeOK, Snapshots
<1>4. ASSUME NEW i \in DOMAIN disk.jobs
      PROVE  LET j == disk.jobs[i]
             IN  /\ Covers(j, calls[Key(j)], crashes + 1)
                 /\ Ceiling * (calls[Key(j)] - (crashes + 1)) <= Allowance - j.remaining
  <2> DEFINE j == disk.jobs[i]
             x == calls[Key(j)]
             y == Ceiling * (x - crashes)
  <2>1. j \in Job
    BY <1>3
  <2>2. x \in Int
    BY <1>3, <2>1, RecordSteps, NumbersAssumption
  <2>3. Covers(j, x, crashes)
    BY DEF Charging, Covered, CoversAll
  <2>4. Covers(j, x, crashes + 1)
    BY <1>3, <2>1, <2>2, <2>3, CoversLess
  <2>5. y <= Allowance - j.remaining + (IF j.status = "in-flight" THEN Ceiling ELSE 0)
    BY <2>3 DEF Covers
  <2>6. /\ x - crashes \in Int /\ x - (crashes + 1) = (x - crashes) - 1
    BY <1>3, <2>2
  <2>7. y \in Int /\ Ceiling * (x - (crashes + 1)) = y - Ceiling
    BY <2>6, ChargeGrows
  <2>8. j.remaining \in Nat
    BY <2>1 DEF Job
  <2> HIDE DEF x, y, j
  <2>9. y - Ceiling <= Allowance - j.remaining
    BY <2>5, <2>7, <2>8, NumbersAssumption
  <2> QED
    BY <2>4, <2>7, <2>9 DEF j, x
<1>5. Covered'
  BY <1>1, <1>2, <1>4 DEF Charging, Covered, CoversAll, Accepted
<1>6. Rested'
  BY <1>1, <1>4 DEF Rested
<1>7. Funded'
  BY <1>1 DEF Funded, Holds
<1> QED
  BY <1>5, <1>6, <1>7 DEF Charging

\* What a restart makes of a record.
LEMMA RecoveredRecord ==
  ASSUME NEW j \in Job, NEW b
  PROVE  LET k == Recovered(j, b)
         IN  /\ Key(k) = Key(j) /\ k.hash = j.hash
             /\ k.attempts = j.attempts /\ k.remaining = j.remaining
             /\ k.status # "in-flight" /\ (k.status \in Pending \/ k = j)
             /\ OverBudget(k) => k = j
             /\ k.why = j.why \/ k.why = "none"
             /\ j.status = "failed" /\ j.why = "unrecognised" /\ b = "new" /\ j.hash \in Transcripts
                  => k.why = "none"
             /\ j.status # "in-flight" /\ k.why = "unrecognised" => k = j
<1> DEFINE k == Recovered(j, b)
<1>1. CASE j.status = "in-flight"
  <2>1. k = [j EXCEPT !.status = "queued"]
    BY <1>1 DEF Recovered
  <2> HIDE DEF k
  <2>2. /\ Key(k) = Key(j) /\ k.hash = j.hash /\ k.status = "queued"
        /\ k.attempts = j.attempts /\ k.remaining = j.remaining /\ k.why = j.why
    BY <2>1 DEF Job, Key
  <2> QED
    BY <1>1, <2>2 DEF Pending, OverBudget, k
<1>2. CASE /\ j.status = "failed" /\ j.why = "unrecognised" /\ b = "new"
           /\ j.hash \in Transcripts
  <2>1. k = Undeferred(j, "queued")
    BY <1>2 DEF Recovered
  <2> HIDE DEF k
  <2>2. /\ Key(k) = Key(j) /\ k.hash = j.hash /\ k.status = "queued"
        /\ k.attempts = j.attempts /\ k.remaining = j.remaining /\ k.why = "none"
    BY <2>1 DEF Job, Key, Undeferred
  <2> QED
    BY <1>2, <2>2 DEF Pending, OverBudget, k
<1>3. CASE /\ j.status # "in-flight"
           /\ ~(/\ j.status = "failed" /\ j.why = "unrecognised" /\ b = "new"
                /\ j.hash \in Transcripts)
  <2>1. k = j
    BY <1>3 DEF Recovered
  <2> QED
    BY <1>3, <2>1
<1> QED
  BY <1>1, <1>2, <1>3

LEMMA ChargingCreate ==
  ASSUME IInv, Charging, NEW b \in {"old", "new"}, Create(b)
  PROVE  Charging'
<1>1. /\ ~up /\ up' /\ saves' = saves /\ phase' = phase
      /\ jobs' = [i \in DOMAIN disk.jobs |-> Recovered(disk.jobs[i], b)]
      /\ disk'.jobs = jobs' /\ UNCHANGED <<calls, crashes>>
  BY DEF Create, Snapshot, ticks
<1>2. saves' = <<>> /\ \A t \in Ticks : phase'[t] = "idle"
  BY <1>1 DEF IInv, DownIsEmpty
<1>3. DOMAIN saves' = {} /\ Len(saves') = 0
  BY <1>2
<1>4. crashes \in Int /\ calls \in [Keys -> Int] /\ disk.jobs \in Seq(Job)
  BY DEF IInv, TypeOK, Snapshots
<1>5. ASSUME NEW i \in DOMAIN disk.jobs
      PROVE  Covers(jobs'[i], calls[Key(jobs'[i])], crashes) /\ Key(jobs'[i]) = Key(disk.jobs[i])
  <2> DEFINE j == disk.jobs[i]
             k == Recovered(j, b)
  <2>1. j \in Job
    BY <1>4
  <2>2. /\ Key(k) = Key(j) /\ k.attempts = j.attempts /\ k.remaining = j.remaining
        /\ k.status # "in-flight"
    BY <2>1, RecoveredRecord
  <2>3. /\ calls[Key(j)] <= j.attempts
        /\ Ceiling * (calls[Key(j)] - crashes) <= Allowance - j.remaining
    BY <1>1 DEF Charging, Covered, CoversAll, Covers, Rested
  <2>4. jobs'[i] = k
    BY <1>1
  <2>5. j.remaining \in Nat
    BY <2>1 DEF Job
  <2> HIDE DEF j, k
  <2>6. Allowance - j.remaining + 0 = Allowance - j.remaining
    BY <2>5, NumbersAssumption
  <2>7. Covers(k, calls[Key(k)], crashes)
    BY <2>2, <2>3, <2>6 DEF Covers
  <2> QED
    BY <2>2, <2>4, <2>7 DEF j
<1>6. DOMAIN jobs' = DOMAIN disk.jobs
  BY <1>1
<1>7. \A k \in Keys : Owed'[Len(saves')][k] = calls'[k]
  BY <1>2, <1>3 DEF Owed, Beginning, Key
<1>8. \A i \in DOMAIN jobs' : Key(jobs'[i]) \in Keys
  <2>1. \A i \in DOMAIN disk.jobs : disk.jobs[i] \in Job
    BY <1>4
  <2> QED
    BY <1>5, <1>6, <2>1, RecordSteps, NumbersAssumption
<1>9. CoversAll(disk'.jobs, calls', crashes') /\ CoversAll(jobs', Owed'[Len(saves')], crashes')
  BY <1>1, <1>5, <1>6, <1>7, <1>8 DEF CoversAll
<1>10. \A k \in Keys : calls'[k] > 0 => \E i \in DOMAIN disk'.jobs : Key(disk'.jobs[i]) = k
  BY <1>1, <1>5, <1>6 DEF Charging, Covered, Accepted
<1>11. Rested'
  BY <1>1 DEF Rested
<1>12. Funded'
  BY <1>2 DEF Funded, Holds
<1> QED
  BY <1>3, <1>9, <1>10, <1>11, <1>12 DEF Charging, Covered, Accepted, Key

LEMMA ChargingQuiet ==
  ASSUME IInv, Charging, Quiet
  PROVE  Charging'
<1>1. /\ UNCHANGED <<jobs, saves, disk, calls, up, crashes>>
      /\ \A t \in Ticks : Holds(t) \/ Holds(t)' => phase'[t] = phase[t] /\ job'[t] = job[t]
  BY DEF Quiet
<1>2. \A k, s : (\E t \in Ticks, p \in DOMAIN saves' :
                   /\ p <= s /\ saves'[p].owner = t
                   /\ phase'[t] = "starting" /\ Key(job'[t]) = k) <=> Beginning(k, s)
  BY <1>1 DEF Beginning, Holds
<1>3. Owed' = Owed
  BY <1>1, <1>2 DEF Owed, Beginning, Key
<1>4. Covered'
  BY <1>1, <1>3 DEF Charging, Covered, CoversAll, Accepted
<1>5. Rested'
  BY <1>1 DEF Charging, Rested
<1>6. Funded'
  BY <1>1 DEF Charging, Funded, Holds
<1> QED
  BY <1>4, <1>5, <1>6 DEF Charging

LEMMA ChargingStep ==
  ASSUME IInv, Ordered, HeldIsSaved, Charging, [Next]_vars
  PROVE  Charging'
<1>1. IInv'
  BY NextIInv
<1>2. CASE Shape
  BY <1>1, <1>2, ChargingAdds, ChargingWaits, ChargingStarts, ChargingAnswers DEF Shape
<1>3. CASE SaveLands \/ SaveRejects
  BY <1>3, ChargingSaveLeaves
<1> QED
  BY <1>2, <1>3, ChargingCrash, ChargingCreate, ChargingQuiet, Steps

-----------------------------------------------------------------------------
(* Attempts, reasons and instants of a record, c deaths since and m the next midnight. *)

Sound(j, c, m) ==
  /\ j.attempts <= MaxAttempts + c + (IF j.status \in Pending THEN 0 ELSE 1)
  /\ j.why = "unrecognised" => j.status = "failed"
  /\ OverBudget(j) => j.resumeAt \in 1..m

SoundAll(q, c, m) == \A i \in DOMAIN q : Sound(q[i], c, m)

\* At rest an interrupted attempt is accounted for by the death that interrupted it.
AllSound ==
  /\ SoundAll(jobs, crashes, NextMidnight(now))
  /\ SoundAll(disk.jobs, crashes, NextMidnight(now))
  /\ \A s \in DOMAIN saves : SoundAll(saves[s].snapshot.jobs, crashes, NextMidnight(now))
  /\ ~up => \A i \in DOMAIN disk.jobs : disk.jobs[i].attempts <= MaxAttempts + crashes

LEMMA MidnightComes ==
  ASSUME NEW n \in Nat
  PROVE  /\ NextMidnight(n) \in Nat /\ 1 <= NextMidnight(n)
         /\ \A m \in Nat : n <= m => NextMidnight(n) <= NextMidnight(m)
<1> USE NumbersAssumption
<1>1. ASSUME NEW x \in Nat
      PROVE  (x \div Day + 1) * Day \in Nat /\ 1 <= (x \div Day + 1) * Day
  <2>1. x \div Day \in Nat
    OBVIOUS
  <2> DEFINE y == x \div Day + 1
  <2>2. y \in Nat /\ 1 <= y
    BY <2>1
  <2> HIDE DEF y
  <2>3. 1 * Day <= y * Day /\ y * Day \in Nat
    BY <2>2
  <2> QED
    BY <2>3 DEF y
<1>2. ASSUME NEW m \in Nat, n <= m
      PROVE  (n \div Day + 1) * Day <= (m \div Day + 1) * Day
  <2>1. n \div Day \in Nat /\ m \div Day \in Nat /\ n \div Day <= m \div Day
    BY <1>2
  <2> DEFINE x == n \div Day + 1
             y == m \div Day + 1
  <2>2. x \in Int /\ y \in Int /\ x <= y
    BY <2>1
  <2> HIDE DEF x, y
  <2>3. x * Day <= y * Day
    BY <2>2
  <2> QED
    BY <2>3 DEF x, y
<1>3. ASSUME NEW x \in Nat, 1 <= x
      PROVE  Later(x) \in Nat /\ 1 <= Later(x) /\ \A y \in Nat : x <= y => Later(x) <= Later(y)
  BY <1>3 DEF Later
<1> QED
  BY <1>1, <1>2, <1>3 DEF NextMidnight

LEMMA SoundLonger ==
  ASSUME NEW j \in Job, NEW c \in Nat, NEW m \in Nat, Sound(j, c, m),
         NEW d \in Nat, c <= d, NEW n \in Nat, m <= n
  PROVE  Sound(j, d, n)
<1>1. j.attempts \in Nat /\ j.resumeAt \in Nat /\ MaxAttempts \in Nat
  BY NumbersAssumption DEF Job
<1> QED
  BY <1>1 DEF Sound

LEMMA SoundNew ==
  ASSUME NEW in \in Input, NEW c \in Nat, NEW m \in Nat
  PROVE  Sound(NewJob(in), c, m)
<1> DEFINE k == NewJob(in)
<1>1. k.attempts = 0 /\ k.status = "queued" /\ k.why = "none"
  BY NewRecord
<1> HIDE DEF k
<1>2. Sound(k, c, m)
  BY <1>1, NumbersAssumption DEF Sound, OverBudget
<1> QED
  BY <1>2 DEF k

LEMMA SoundRests ==
  ASSUME NEW j \in Job, NEW k, NEW c \in Nat, NEW m \in Nat, 1 <= m, Sound(j, c, m),
         NEW to, Rests(j, k, to), OverBudget(k) => k = j \/ k.resumeAt = m
  PROVE  Sound(k, c, m)
<1>1. j.attempts \in Nat /\ MaxAttempts \in Nat
  BY NumbersAssumption DEF Job
<1>2. CASE k # j
  <2>1. /\ k.attempts = j.attempts /\ j.status \in Pending /\ k.why # "unrecognised"
    BY <1>2 DEF Rests
  <2>2. k.attempts <= MaxAttempts + c + (IF k.status \in Pending THEN 0 ELSE 1)
    BY <1>1, <2>1 DEF Sound
  <2> QED
    BY <1>2, <2>1, <2>2 DEF Sound
<1> QED
  BY <1>2

LEMMA SoundStart ==
  ASSUME NEW j \in Job, NEW c \in Nat, NEW m \in Nat, Sound(j, c, m), j.status \in Pending
  PROVE  Sound(Started(j), c, m)
<1> DEFINE k == Started(j)
<1>1. k.attempts = j.attempts + 1 /\ k.status = "in-flight" /\ k.why = "none"
      /\ j.attempts \in Nat /\ MaxAttempts \in Nat
  BY NumbersAssumption DEF Started, Undeferred, Job
<1> HIDE DEF k
<1>2. Sound(k, c, m)
  BY <1>1 DEF Sound, OverBudget, Pending
<1> QED
  BY <1>2 DEF k

LEMMA SoundAnswer ==
  ASSUME NEW j \in Job, NEW c \in Nat, NEW m \in Nat, Sound(j, c, m), j.status = "in-flight",
         NEW k \in Job, NEW w \in BOOLEAN, Answered(j, k, w)
  PROVE  Sound(k, c, m)
<1>1. j.attempts \in Nat /\ MaxAttempts \in Nat /\ j.attempts <= MaxAttempts + c + 1
  BY NumbersAssumption DEF Job, Sound, Pending
<1>2. k.why = "unrecognised" => k.status = "failed"
  BY DEF Answered, Sound
<1>3. CASE k.status = "deferred"
  <2>1. w \/ j.attempts <= MaxAttempts
    BY <1>3 DEF Answered
  <2>2. k.attempts = IF w /\ j.attempts > 0 THEN j.attempts - 1 ELSE j.attempts
    BY DEF Answered
  <2>3. k.attempts <= MaxAttempts + c + 0
    BY <1>1, <2>1, <2>2
  <2> QED
    BY <1>2, <1>3, <2>3 DEF Sound, Pending, Answered
<1>4. CASE k.status # "deferred"
  <2>1. k.attempts = IF w /\ j.attempts > 0 THEN j.attempts - 1 ELSE j.attempts
    BY DEF Answered
  <2>2. k.attempts <= MaxAttempts + c + 1
    BY <1>1, <2>1
  <2>3. k.status \notin Pending
    BY <1>4 DEF Answered, Pending
  <2> QED
    BY <1>2, <2>2, <2>3 DEF Sound, Answered
<1> QED
  BY <1>3, <1>4

LEMMA ShapeSound ==
  ASSUME IInv, IInv', AllSound, Shape, BudgetStep
  PROVE  SoundAll(jobs', crashes, NextMidnight(now))
<1> DEFINE m == NextMidnight(now)
<1>1. /\ jobs \in Seq(Job) /\ jobs' \in Seq(Job) /\ crashes \in Nat /\ now \in Nat
  BY DEF IInv, TypeOK
<1>2. m \in Nat /\ 1 <= m
  BY <1>1, MidnightComes
<1>3. \A i \in DOMAIN jobs' : OverBudget(jobs'[i]) =>
        (i \in DOMAIN jobs /\ jobs'[i] = jobs[i]) \/ jobs'[i].resumeAt = m
  BY DEF BudgetStep
<1>4. \A i \in DOMAIN jobs : jobs[i] \in Job /\ Sound(jobs[i], crashes, m)
  BY <1>1 DEF AllSound, SoundAll
<1> HIDE DEF m
<1>5. ASSUME NEW i \in DOMAIN jobs, i \in DOMAIN jobs', NEW to, Rests(jobs[i], jobs'[i], to)
      PROVE  Sound(jobs'[i], crashes, m)
  BY <1>1, <1>2, <1>3, <1>4, <1>5, SoundRests
<1>6. ASSUME NEW in \in Inputs, Adds(in)
      PROVE  SoundAll(jobs', crashes, m)
  <2>1. in \in Input
    BY NamesAssumption
  <2>2. /\ Len(jobs) \in Nat /\ DOMAIN jobs = 1..Len(jobs) /\ DOMAIN jobs' = 1..(Len(jobs) + 1)
        /\ jobs'[Len(jobs) + 1] = NewJob(in)
        /\ \A i \in DOMAIN jobs : Rests(jobs[i], jobs'[i], {"failed"})
    BY <1>1, <1>6 DEF Adds
  <2>3. Sound(NewJob(in), crashes, m)
    BY <1>1, <1>2, <2>1, SoundNew
  <2>4. \A i \in DOMAIN jobs : i \in DOMAIN jobs'
    BY <2>2
  <2>5. \A i \in DOMAIN jobs' : i \in DOMAIN jobs \/ i = Len(jobs) + 1
    BY <2>2
  <2> QED
    BY <1>5, <2>2, <2>3, <2>4, <2>5 DEF SoundAll
<1>7. ASSUME NEW t \in Ticks, Waits(t)
      PROVE  SoundAll(jobs', crashes, m)
  BY <1>5, <1>7 DEF Waits, SoundAll
<1>8. ASSUME NEW t \in Ticks, NEW i \in DOMAIN jobs, Starts(t, i)
      PROVE  SoundAll(jobs', crashes, m)
  <2>1. Sound(jobs'[i], crashes, m)
    BY <1>1, <1>2, <1>4, <1>8, SoundStart DEF Starts
  <2> QED
    BY <1>4, <1>8, <2>1 DEF Starts, SoundAll
<1>9. ASSUME NEW t \in Ticks, NEW i \in DOMAIN jobs, NEW w \in BOOLEAN, Answers(t, i, w)
      PROVE  SoundAll(jobs', crashes, m)
  <2>1. /\ DOMAIN jobs' = DOMAIN jobs /\ Answered(jobs[i], jobs'[i], w)
        /\ jobs[i].status = "in-flight"
        /\ \A k \in DOMAIN jobs : k # i => Rests(jobs[k], jobs'[k], Pending)
    BY <1>9 DEF Answers, IInv, HeldIsInFlight, Holds
  <2>2. jobs'[i] \in Job
    BY <1>1, <2>1
  <2>3. Sound(jobs'[i], crashes, m)
    BY <1>1, <1>2, <1>4, <2>1, <2>2, SoundAnswer
  <2> QED
    BY <1>5, <2>1, <2>3 DEF SoundAll
<1> QED
  BY <1>6, <1>7, <1>8, <1>9 DEF Shape, m

LEMMA LessIsWellFounded ==
  \E R : /\ IsWellFoundedOn(R, Nat)
         /\ \A k \in Nat, n \in Nat : <<k, n>> \notin R => ~(k < n)
<1>1. IsWellFoundedOn(OpToRel(<, Nat), Nat)
  BY NatLessThanWellFounded
<1>2. \A k \in Nat, n \in Nat : <<k, n>> \notin OpToRel(<, Nat) => ~(k < n)
  BY DEF OpToRel
<1> QED
  BY <1>1, <1>2, Zenon

\* Of the records that wait for the budget one comes first.
LEMMA FirstExists ==
  ASSUME NEW q \in Seq(Job), NEW i \in DOMAIN q, OverBudget(q[i])
  PROVE  FirstOverBudget(q) # {}
<1> DEFINE S == {k \in DOMAIN q : OverBudget(q[k])}
<1>1. DOMAIN q = 1..Len(q) /\ Len(q) \in Nat
  OBVIOUS
<1>2. S \subseteq Nat /\ S # {}
  BY <1>1
<1>3. PICK R : /\ IsWellFoundedOn(R, Nat)
               /\ \A k \in Nat, n \in Nat : <<k, n>> \notin R => ~(k < n)
  BY LessIsWellFounded
<1>4. \E n \in S : \A k \in S : ~(<<k, n>> \in R)
  BY <1>2, <1>3, WFMin, Zenon
<1>5. PICK n \in S : \A k \in S : ~(<<k, n>> \in R)
  BY <1>4
<1>6. \A k \in S : n <= k
  <2> TAKE k \in S
  <2>1. k \in Nat /\ n \in Nat
    BY <1>2
  <2>2. <<k, n>> \notin R
    BY <1>5
  <2>3. ~(k < n)
    BY <1>3, <2>1, <2>2
  <2> QED
    BY <2>1, <2>3
<1>7. n \in FirstOverBudget(q)
  BY <1>6 DEF FirstOverBudget
<1> QED
  BY <1>7

LEMMA SoundAllLonger ==
  ASSUME NEW q \in Seq(Job), NEW c \in Nat, NEW m \in Nat, SoundAll(q, c, m),
         NEW d \in Nat, c <= d, NEW n \in Nat, m <= n
  PROVE  SoundAll(q, d, n)
<1> SUFFICES ASSUME NEW i \in DOMAIN q
             PROVE  Sound(q[i], d, n)
  BY DEF SoundAll
<1>1. q[i] \in Job /\ Sound(q[i], c, m)
  BY DEF SoundAll
<1> QED
  BY <1>1, SoundLonger

LEMMA SoundStep ==
  ASSUME IInv, AllSound, [Next]_vars
  PROVE  AllSound'
<1> USE DEF IInv
<1> DEFINE m == NextMidnight(now)
<1>1. IInv'
  BY NextIInv
<1>2. /\ crashes \in Nat /\ now \in Nat /\ jobs \in Seq(Job) /\ disk.jobs \in Seq(Job)
      /\ \A s \in DOMAIN saves : saves[s].snapshot.jobs \in Seq(Job)
  BY SaveTyped DEF TypeOK, Snapshots
<1>3. m \in Nat /\ \A n \in Nat : now <= n => NextMidnight(n) \in Nat /\ m <= NextMidnight(n)
  BY <1>2, MidnightComes
<1>4. CASE Shape /\ BudgetStep
  <2>1. SoundAll(jobs', crashes, m)
    BY <1>1, <1>4, ShapeSound
  <2>2. PICK o : Asked(o)
    BY <1>4, ShapeGrows
  <2>3. up' /\ disk' = disk /\ crashes' = crashes /\ now' = now
    BY <2>2 DEF Asked
  <2>4. /\ DOMAIN saves = 1..Len(saves) /\ DOMAIN saves' = 1..(Len(saves) + 1)
        /\ Len(saves) \in Nat
        /\ \A s \in 1..Len(saves) : saves'[s] = saves[s]
        /\ saves'[Len(saves) + 1].snapshot.jobs = jobs'
    BY <2>2, AskedSaves
  <2>5. ASSUME NEW s \in DOMAIN saves'
        PROVE  SoundAll(saves'[s].snapshot.jobs, crashes, m)
    <3>1. CASE s \in 1..Len(saves)
      BY <2>4, <3>1 DEF AllSound
    <3>2. CASE s = Len(saves) + 1
      BY <2>1, <2>4, <3>2
    <3> QED
      BY <2>4, <3>1, <3>2
  <2> QED
    BY <2>1, <2>3, <2>5 DEF AllSound
<1>5. CASE Quiet
  <2>1. /\ UNCHANGED <<jobs, saves, disk, up, crashes>> /\ now' \in Nat /\ now <= now'
    BY <1>5 DEF Quiet
  <2>2. NextMidnight(now') \in Nat /\ m <= NextMidnight(now') /\ crashes <= crashes
    BY <1>2, <1>3, <2>1
  <2> HIDE DEF m
  <2>3. /\ SoundAll(jobs, crashes, NextMidnight(now'))
        /\ SoundAll(disk.jobs, crashes, NextMidnight(now'))
        /\ \A s \in DOMAIN saves : SoundAll(saves[s].snapshot.jobs, crashes, NextMidnight(now'))
    BY <1>2, <1>3, <2>2, SoundAllLonger DEF AllSound, m
  <2> QED
    BY <2>1, <2>3 DEF AllSound
<1>6. CASE SaveLands \/ SaveRejects
  <2>1. /\ saves # <<>> /\ saves' = Tail(saves) /\ jobs' = jobs /\ up' /\ crashes' = crashes
        /\ now' = now /\ (disk' = disk \/ disk' = Head(saves).snapshot)
    BY <1>6 DEF SaveLands, SaveRejects, memory, process
  <2>2. /\ 1 \in DOMAIN saves /\ Head(saves) = saves[1]
        /\ \A s \in DOMAIN saves' : s + 1 \in DOMAIN saves /\ saves'[s] = saves[s + 1]
    BY <2>1, TailSaves
  <2> QED
    BY <2>1, <2>2 DEF AllSound
<1>7. CASE Crash
  <2>1. /\ jobs' = <<>> /\ saves' = <<>> /\ crashes' = crashes + 1 /\ now' = now /\ disk' = disk
    BY <1>7 DEF Crash
  <2>2. DOMAIN jobs' = {} /\ DOMAIN saves' = {}
    BY <2>1
  <2>3. SoundAll(disk.jobs, crashes + 1, m)
    BY <1>2, <1>3, SoundAllLonger DEF AllSound
  <2>4. \A i \in DOMAIN disk.jobs : disk.jobs[i].attempts <= MaxAttempts + (crashes + 1)
    <3> TAKE i \in DOMAIN disk.jobs
    <3>1. disk.jobs[i].attempts \in Nat /\ MaxAttempts \in Nat
      <4>1. disk.jobs[i] \in Job
        BY <1>2
      <4> QED
        BY <4>1, NumbersAssumption DEF Job
    <3>2. disk.jobs[i].attempts <= MaxAttempts + crashes
                                   + (IF disk.jobs[i].status \in Pending THEN 0 ELSE 1)
      BY DEF AllSound, SoundAll, Sound
    <3> QED
      BY <1>2, <3>1, <3>2
  <2>5. SoundAll(jobs', crashes + 1, m)
    BY <2>2 DEF SoundAll
  <2> QED
    BY <2>1, <2>2, <2>3, <2>4, <2>5 DEF AllSound
<1>8. ASSUME NEW b \in {"old", "new"}, Create(b)
      PROVE  AllSound'
  <2>1. /\ ~up /\ up' /\ saves' = <<>> /\ crashes' = crashes /\ now' = now
        /\ jobs' = [i \in DOMAIN disk.jobs |-> Recovered(disk.jobs[i], b)]
        /\ disk'.jobs = jobs'
    BY <1>8 DEF Create, Snapshot, DownIsEmpty
  <2>2. DOMAIN saves' = {}
    BY <2>1
  <2>3. ASSUME NEW i \in DOMAIN disk.jobs
        PROVE  Sound(jobs'[i], crashes, m)
    <3> DEFINE j == disk.jobs[i]
               k == Recovered(j, b)
    <3>1. j \in Job /\ Sound(j, crashes, m) /\ j.attempts <= MaxAttempts + crashes
      BY <1>2, <2>1 DEF AllSound, SoundAll
    <3>2. /\ k.attempts = j.attempts /\ (OverBudget(k) => k = j)
          /\ (k.why = j.why \/ k.why = "none")
          /\ (j.status # "in-flight" /\ k.why = "unrecognised" => k = j)
      BY <3>1, RecoveredRecord
    <3>3. jobs'[i] = k
      BY <2>1
    <3>4. j.attempts \in Nat /\ MaxAttempts \in Nat
      BY <3>1, NumbersAssumption DEF Job
    <3> HIDE DEF j, k
    <3>5. k.why = "unrecognised" => k.status = "failed"
      BY <3>1, <3>2 DEF Sound
    <3>6. OverBudget(k) => k.resumeAt \in 1..m
      BY <3>1, <3>2 DEF Sound
    <3>7. k.attempts <= MaxAttempts + crashes + (IF k.status \in Pending THEN 0 ELSE 1)
      BY <1>2, <3>1, <3>2, <3>4
    <3> QED
      BY <3>3, <3>5, <3>6, <3>7 DEF Sound
  <2>4. SoundAll(jobs', crashes, m)
    BY <2>1, <2>3 DEF SoundAll
  <2> QED
    BY <2>1, <2>2, <2>4 DEF AllSound
<1> QED
  BY <1>4, <1>5, <1>6, <1>7, <1>8, Steps

-----------------------------------------------------------------------------
(* The reset instant, and the jobs given up for want of a runner. *)

ResetSet ==
  (\E i \in DOMAIN jobs : OverBudget(jobs[i])) =>
    /\ budgetResumeAt \in 1..NextMidnight(now)
    /\ \E i \in DOMAIN jobs : OverBudget(jobs[i]) /\ jobs[i].resumeAt <= budgetResumeAt

\* Once the newer build runs.
Rearmed ==
  \A i \in DOMAIN jobs :
    up /\ build = "new" /\ jobs[i].hash \in Transcripts => jobs[i].why # "unrecognised"

LEMMA ResetSetStep ==
  ASSUME IInv, AllSound, ResetSet, [Next]_vars
  PROVE  ResetSet'
<1> USE DEF IInv
<1> DEFINE m == NextMidnight(now)
<1>1. AllSound' /\ IInv'
  BY SoundStep, NextIInv
<1>2. /\ now \in Nat /\ budgetResumeAt \in Nat
      /\ jobs \in Seq(Job) /\ jobs' \in Seq(Job)
  BY <1>1 DEF TypeOK
<1>3. m \in Nat /\ 1 <= m /\ \A n \in Nat : now <= n => NextMidnight(n) \in Nat /\ m <= NextMidnight(n)
  BY <1>2, MidnightComes
<1>4. CASE Shape /\ BudgetStep
  <2>1. now' = now
    BY <1>4, ShapeGrows DEF Asked
  <2>2. \A i \in DOMAIN jobs' : OverBudget(jobs'[i]) => jobs'[i].resumeAt \in 1..m
    BY <1>1, <2>1 DEF AllSound, SoundAll, Sound
  <2> SUFFICES ASSUME NEW i \in DOMAIN jobs', OverBudget(jobs'[i])
               PROVE  /\ budgetResumeAt' \in 1..m
                      /\ \E k \in DOMAIN jobs' : OverBudget(jobs'[k]) /\ jobs'[k].resumeAt <= budgetResumeAt'
    BY <2>1 DEF ResetSet, OverBudget
  <2> HIDE DEF m
  <2>3. CASE budgetResumeAt' = m
    BY <1>3, <2>2, <2>3
  <2>4. CASE /\ budgetResumeAt' = budgetResumeAt
             /\ \A k \in DOMAIN jobs' : OverBudget(jobs'[k]) => k \in DOMAIN jobs /\ jobs'[k] = jobs[k]
             /\ \A k \in DOMAIN jobs : OverBudget(jobs[k]) => k \in DOMAIN jobs' /\ jobs'[k] = jobs[k]
    BY <2>4 DEF ResetSet, m
  <2> QED
    BY <1>4, <2>3, <2>4 DEF BudgetStep, m
<1>5. CASE Quiet
  <2>1. /\ UNCHANGED <<jobs, budgetResumeAt>> /\ now' \in Nat /\ now <= now'
    BY <1>5 DEF Quiet
  <2>2. NextMidnight(now') \in Nat /\ m <= NextMidnight(now')
    BY <1>3, <2>1
  <2> QED
    BY <1>2, <1>3, <2>1, <2>2 DEF ResetSet
<1>6. CASE SaveLands \/ SaveRejects
  BY <1>6 DEF SaveLands, SaveRejects, memory, ResetSet
<1>7. CASE Crash
  <2>1. jobs' = <<>>
    BY <1>7 DEF Crash
  <2>2. DOMAIN jobs' = {}
    BY <2>1
  <2> QED
    BY <2>2 DEF ResetSet
<1>8. ASSUME NEW b \in {"old", "new"}, Create(b)
      PROVE  ResetSet'
  <2>1. now' = now /\ budgetResumeAt' = ResetOnRecord(jobs')
    BY <1>8 DEF Create
  <2>2. \A i \in DOMAIN jobs' : OverBudget(jobs'[i]) => jobs'[i].resumeAt \in 1..m
    BY <1>1, <2>1 DEF AllSound, SoundAll, Sound
  <2> DEFINE q == jobs'
  <2>3. q \in Seq(Job)
    BY <1>2
  <2> SUFFICES ASSUME NEW i \in DOMAIN q, OverBudget(q[i])
               PROVE  /\ ResetOnRecord(q) \in 1..m
                      /\ \E k \in DOMAIN q : OverBudget(q[k]) /\ q[k].resumeAt <= ResetOnRecord(q)
    BY <2>1 DEF ResetSet, OverBudget
  <2>4. \A k \in DOMAIN q : OverBudget(q[k]) => q[k].resumeAt \in 1..m
    BY <2>2
  <2> HIDE DEF q, m
  <2>5. FirstOverBudget(q) # {}
    BY <2>3, FirstExists
  <2>6. PICK k \in FirstOverBudget(q) : ResetOnRecord(q) = q[k].resumeAt
    BY <2>5 DEF ResetOnRecord
  <2>7. k \in DOMAIN q /\ OverBudget(q[k])
    BY DEF FirstOverBudget
  <2>8. q[k].resumeAt <= q[k].resumeAt /\ q[k].resumeAt \in 1..m
    BY <2>4, <2>7
  <2> QED
    BY <2>6, <2>7, <2>8
<1> QED
  BY <1>4, <1>5, <1>6, <1>7, <1>8, Steps

LEMMA RearmedStep ==
  ASSUME IInv, AllSound, Rearmed, [Next]_vars
  PROVE  Rearmed'
<1> USE DEF IInv
<1>1. jobs \in Seq(Job) /\ disk.jobs \in Seq(Job)
  BY DEF TypeOK, Snapshots
<1>2. ASSUME NEW j, NEW k, NEW to, Rests(j, k, to)
      PROVE  k.why = "unrecognised" => k = j
  BY <1>2 DEF Rests
<1>3. CASE Shape
  <2>1. PICK o : Asked(o)
    BY <1>3, ShapeGrows
  <2>2. up /\ up' /\ build' = build
    BY <2>1 DEF Asked
  <2>3. jobs' \in Seq(Job)
    <3>1. IInv'
      BY NextIInv
    <3> QED
      BY <3>1 DEF TypeOK
  <2>4. ASSUME NEW i \in DOMAIN jobs', jobs'[i].why = "unrecognised"
        PROVE  build # "new" \/ (i \in DOMAIN jobs /\ jobs'[i] = jobs[i])
    <3>1. ASSUME NEW in \in Inputs, Adds(in)
          PROVE  i \in DOMAIN jobs /\ jobs'[i] = jobs[i]
      <4>1. in \in Input
        BY NamesAssumption
      <4>2. /\ Len(jobs) \in Nat /\ DOMAIN jobs = 1..Len(jobs) /\ DOMAIN jobs' = 1..(Len(jobs) + 1)
            /\ jobs'[Len(jobs) + 1] = NewJob(in)
            /\ \A k \in DOMAIN jobs : Rests(jobs[k], jobs'[k], {"failed"})
        BY <1>1, <2>3, <3>1 DEF Adds
      <4>3. i # Len(jobs) + 1
        BY <2>4, <4>1, <4>2, NewRecord
      <4>4. i \in DOMAIN jobs
        BY <4>2, <4>3
      <4> QED
        BY <1>2, <2>4, <4>2, <4>4
    <3>2. ASSUME NEW t \in Ticks, Waits(t)
          PROVE  i \in DOMAIN jobs /\ jobs'[i] = jobs[i]
      BY <1>2, <2>4, <3>2 DEF Waits
    <3>3. ASSUME NEW t \in Ticks, NEW n \in DOMAIN jobs, Starts(t, n)
          PROVE  i \in DOMAIN jobs /\ jobs'[i] = jobs[i]
      <4>1. Started(jobs[n]).why = "none"
        <5>1. jobs[n] \in Job
          BY <1>1
        <5> QED
          BY <5>1 DEF Started, Undeferred, Job
      <4> QED
        BY <2>4, <3>3, <4>1 DEF Starts
    <3>4. ASSUME NEW t \in Ticks, NEW n \in DOMAIN jobs, NEW w \in BOOLEAN, Answers(t, n, w)
          PROVE  build # "new" \/ (i \in DOMAIN jobs /\ jobs'[i] = jobs[i])
      <4>1. jobs[n].status = "in-flight"
        BY <3>4 DEF Answers, HeldIsInFlight, Holds
      <4>2. jobs[n].why # "unrecognised"
        BY <4>1 DEF AllSound, SoundAll, Sound
      <4>3. CASE i = n
        BY <2>4, <3>4, <4>2, <4>3 DEF Answers, Answered
      <4>4. CASE i # n
        BY <1>2, <2>4, <3>4, <4>4 DEF Answers
      <4> QED
        BY <4>3, <4>4
    <3> QED
      BY <1>3, <3>1, <3>2, <3>3, <3>4 DEF Shape
  <2> QED
    BY <2>2, <2>4 DEF Rearmed
<1>4. CASE Quiet
  BY <1>4 DEF Quiet, Rearmed
<1>5. CASE SaveLands \/ SaveRejects
  BY <1>5 DEF SaveLands, SaveRejects, memory, process, Rearmed
<1>6. CASE Crash
  BY <1>6 DEF Crash, Rearmed
<1>7. ASSUME NEW b \in {"old", "new"}, Create(b)
      PROVE  Rearmed'
  <2>1. /\ build' = b /\ jobs' = [i \in DOMAIN disk.jobs |-> Recovered(disk.jobs[i], b)]
    BY <1>7 DEF Create
  <2>2. ASSUME NEW i \in DOMAIN disk.jobs, b = "new", jobs'[i].hash \in Transcripts
        PROVE  jobs'[i].why # "unrecognised"
    <3> DEFINE j == disk.jobs[i]
               k == Recovered(j, b)
    <3>1. j \in Job /\ Sound(j, crashes, NextMidnight(now))
      BY <1>1 DEF AllSound, SoundAll
    <3>2. /\ k.hash = j.hash /\ (k.why = j.why \/ k.why = "none")
          /\ (j.status = "failed" /\ j.why = "unrecognised" /\ b = "new" /\ j.hash \in Transcripts
                => k.why = "none")
      BY <3>1, RecoveredRecord
    <3>3. jobs'[i] = k
      BY <2>1
    <3> HIDE DEF j, k
    <3> QED
      BY <2>2, <3>1, <3>2, <3>3 DEF Sound
  <2> QED
    BY <2>1, <2>2 DEF Rearmed
<1> QED
  BY <1>3, <1>4, <1>5, <1>6, <1>7, Steps

-----------------------------------------------------------------------------
(* In-flight records nobody holds. *)

LEMMA StrandedIsFinite ==
  ASSUME TypeOK
  PROVE  IsFiniteSet(Stranded) /\ Cardinality(Stranded) \in Nat
<1>1. jobs \in Seq(Job) /\ DOMAIN jobs = 1..Len(jobs) /\ Len(jobs) \in Nat
  BY DEF TypeOK
<1>2. IsFiniteSet(DOMAIN jobs) /\ Stranded \in SUBSET DOMAIN jobs
  BY <1>1, FS_Interval DEF Stranded
<1>3. IsFiniteSet(Stranded)
  BY <1>2, FS_Subset
<1> QED
  BY <1>3, FS_CardinalityType

LEMMA ShapeStrands ==
  ASSUME IInv, IInv', Shape
  PROVE  Stranded' \subseteq Stranded
<1> USE DEF IInv
<1>1. /\ jobs \in Seq(Job) /\ jobs' \in Seq(Job) /\ phase \in [Ticks -> Phases]
      /\ job \in [Ticks -> Job \cup {NoJob}]
  BY DEF TypeOK
<1>2. ASSUME NEW i \in DOMAIN jobs', jobs'[i].status = "in-flight",
             \A t \in Ticks : ~(Holds(t)' /\ job'[t] = jobs'[i])
      PROVE  i \in Stranded
  <2>1. ASSUME i \in DOMAIN jobs, jobs'[i] = jobs[i],
               \A t \in Ticks : Holds(t) /\ job[t] = jobs[i] => Holds(t)' /\ job'[t] = job[t]
        PROVE  i \in Stranded
    BY <1>2, <2>1 DEF Stranded
  <2>2. ASSUME NEW j, NEW to, "in-flight" \notin to, Rests(j, jobs'[i], to)
        PROVE  jobs'[i] = j
    BY <1>2, <2>2 DEF Rests
  <2>3. "in-flight" \notin Pending /\ "in-flight" \notin {"failed"}
    BY DEF Pending
  <2>4. ASSUME NEW in \in Inputs, Adds(in)
        PROVE  i \in Stranded
    <3>1. in \in Input
      BY NamesAssumption
    <3>2. /\ Len(jobs) \in Nat /\ DOMAIN jobs = 1..Len(jobs) /\ DOMAIN jobs' = 1..(Len(jobs) + 1)
          /\ jobs'[Len(jobs) + 1] = NewJob(in)
          /\ \A k \in DOMAIN jobs : Rests(jobs[k], jobs'[k], {"failed"})
          /\ phase' = phase /\ job' = job
      BY <1>1, <2>4 DEF Adds
    <3>3. i \in DOMAIN jobs
      BY <1>2, <3>1, <3>2, NewRecord
    <3>4. jobs'[i] = jobs[i]
      BY <2>2, <2>3, <3>2, <3>3
    <3> QED
      BY <2>1, <3>2, <3>3, <3>4 DEF Holds
  <2>5. ASSUME NEW t \in Ticks, Waits(t)
        PROVE  i \in Stranded
    <3>1. i \in DOMAIN jobs /\ jobs'[i] = jobs[i]
      BY <1>2, <2>2, <2>3, <2>5 DEF Waits
    <3>2. \A u \in Ticks : Holds(u) => Holds(u)' /\ job'[u] = job[u]
      BY <1>1, <2>5 DEF Waits, Holds
    <3> QED
      BY <2>1, <3>1, <3>2
  <2>6. ASSUME NEW t \in Ticks, NEW n \in DOMAIN jobs, Starts(t, n)
        PROVE  i \in Stranded
    <3>1. phase'[t] = "starting" /\ job'[t] = jobs'[n]
      BY <1>1, <2>6 DEF Starts
    <3>2. i # n /\ i \in DOMAIN jobs /\ jobs'[i] = jobs[i]
      BY <1>2, <2>6, <3>1 DEF Starts, Holds
    <3>3. \A u \in Ticks : Holds(u) => Holds(u)' /\ job'[u] = job[u]
      BY <1>1, <2>6 DEF Starts, Holds
    <3> QED
      BY <2>1, <3>2, <3>3
  <2>7. ASSUME NEW t \in Ticks, NEW n \in DOMAIN jobs, NEW w \in BOOLEAN, Answers(t, n, w)
        PROVE  i \in Stranded
    <3>1. i # n
      BY <1>2, <2>7 DEF Answers, Answered
    <3>2. i \in DOMAIN jobs /\ jobs'[i] = jobs[i]
      BY <1>2, <2>2, <2>3, <2>7, <3>1 DEF Answers
    <3>3. job[t] # jobs[i]
      BY <2>7, <3>1, <3>2 DEF Answers, UniqueIdentity, OneRecordEach
    <3>4. \A u \in Ticks : u # t /\ Holds(u) => Holds(u)' /\ job'[u] = job[u]
      BY <1>1, <2>7 DEF Answers, Holds
    <3> QED
      BY <2>1, <3>2, <3>3, <3>4
  <2> QED
    BY <2>4, <2>5, <2>6, <2>7 DEF Shape
<1> QED
  BY <1>2 DEF Stranded

LEMMA InFlightIsHeldStep ==
  ASSUME IInv, InFlightIsHeld, [Next]_vars
  PROVE  InFlightIsHeld'
<1> USE DEF IInv
<1>1. IInv'
  BY NextIInv
<1>2. /\ IsFiniteSet(Stranded) /\ Cardinality(Stranded) \in Nat /\ failures \in Nat
      /\ phase \in [Ticks -> Phases] /\ job \in [Ticks -> Job \cup {NoJob}]
  BY StrandedIsFinite DEF TypeOK
<1>3. Cardinality({}) = 0
  BY FS_EmptySet
<1>4. ASSUME Stranded' \subseteq Stranded, failures' = failures
      PROVE  InFlightIsHeld'
  <2>1. Cardinality(Stranded') \in Nat
    <3>1. IsFiniteSet(Stranded')
      BY <1>2, <1>4, FS_Subset
    <3> QED
      BY <3>1, FS_CardinalityType
  <2>2. Cardinality(Stranded') <= Cardinality(Stranded)
    BY <1>2, <1>4, FS_Subset
  <2> QED
    BY <1>2, <1>4, <2>1, <2>2 DEF InFlightIsHeld
<1>5. ASSUME Stranded' = {}, failures' = failures
      PROVE  InFlightIsHeld'
  BY <1>2, <1>3, <1>5 DEF InFlightIsHeld
<1>6. CASE Shape
  <2>1. failures' = failures
    BY <1>6, ShapeGrows DEF Asked
  <2> QED
    BY <1>1, <1>4, <1>6, <2>1, ShapeStrands
<1>7. CASE Quiet
  <2>1. Stranded' = Stranded
    BY <1>7 DEF Quiet, Stranded, Holds
  <2> QED
    BY <1>4, <1>7, <2>1 DEF Quiet
<1>8. CASE SaveLands
  <2> DEFINE o == Head(saves).owner
  <2>1. saves # <<>> /\ saves' = Tail(saves) /\ jobs' = jobs /\ job' = job /\ failures' = failures
        /\ IF o = "enqueue" THEN phase' = phase
           ELSE phase' = [phase EXCEPT ![o] = AfterSave(o)]
    BY <1>8 DEF SaveLands, memory
  <2>2. o # "enqueue" => o \in Ticks /\ phase[o] \in Saving
    BY <2>1, FirstSaveLeaves
  <2> HIDE DEF o
  <2>3. \A t \in Ticks : Holds(t) => Holds(t)'
    <3>1. CASE o = "enqueue"
      BY <2>1, <3>1 DEF Holds
    <3>2. CASE o # "enqueue"
      <4>1. phase[o] = "starting" => AfterSave(o) = "running"
        BY DEF AfterSave
      <4>2. phase[o] # "running"
        BY <2>2, <3>2 DEF Saving
      <4> QED
        BY <1>2, <2>1, <2>2, <3>2, <4>1, <4>2 DEF Holds
    <3> QED
      BY <3>1, <3>2
  <2>4. Stranded' \subseteq Stranded
    BY <2>1, <2>3 DEF Stranded
  <2> QED
    BY <1>4, <2>1, <2>4
<1>9. CASE SaveRejects
  <2> DEFINE o == Head(saves).owner
  <2>1. /\ saves # <<>> /\ saves' = Tail(saves) /\ jobs' = jobs /\ failures' = failures + 1
        /\ IF o = "enqueue" THEN phase' = phase /\ job' = job ELSE Leave(o)
    BY <1>9 DEF SaveRejects, memory
  <2>2. o # "enqueue" => o \in Ticks
    BY <2>1, FirstSaveLeaves
  <2> HIDE DEF o
  <2>3. \A t \in Ticks : t # o \/ o = "enqueue" => phase'[t] = phase[t] /\ job'[t] = job[t]
    BY <1>2, <2>1, <2>2 DEF Leave
  <2>4. \E x : Stranded' \subseteq Stranded \cup {x}
    <3>1. CASE o \in Ticks /\ Holds(o)
      <4>1. PICK x \in DOMAIN jobs : jobs[x] = job[o]
        BY <3>1 DEF OneTickPerJob
      <4>2. \A i \in DOMAIN jobs : jobs[i] = job[o] => i = x
        BY <4>1 DEF UniqueIdentity, OneRecordEach
      <4>3. Stranded' \subseteq Stranded \cup {x}
        BY <2>1, <2>3, <4>2 DEF Stranded, Holds
      <4> QED
        BY <4>3
    <3>2. CASE ~(o \in Ticks /\ Holds(o))
      <4>1. Stranded' \subseteq Stranded
        BY <2>1, <2>3, <3>2 DEF Stranded, Holds
      <4> QED
        BY <4>1
    <3> QED
      BY <3>1, <3>2
  <2>5. PICK x : Stranded' \subseteq Stranded \cup {x}
    BY <2>4
  <2> DEFINE S == Stranded \cup {x}
  <2>6. IsFiniteSet(S) /\ Cardinality(S) <= Cardinality(Stranded) + 1 /\ Cardinality(S) \in Nat
    BY <1>2, FS_AddElement
  <2>7. Stranded' \in SUBSET S
    BY <2>5
  <2> HIDE DEF S
  <2>8. IsFiniteSet(Stranded') /\ Cardinality(Stranded') <= Cardinality(S)
    BY <2>6, <2>7, FS_Subset
  <2>9. Cardinality(Stranded') \in Nat
    BY <2>8, FS_CardinalityType
  <2> QED
    BY <1>2, <2>1, <2>6, <2>8, <2>9 DEF InFlightIsHeld
<1>10. CASE Crash
  <2>1. jobs' = <<>> /\ failures' = failures
    BY <1>10 DEF Crash
  <2>2. DOMAIN jobs' = {}
    BY <2>1
  <2>3. Stranded' = {}
    BY <2>2 DEF Stranded
  <2> QED
    BY <1>5, <2>1, <2>3
<1>11. ASSUME NEW b \in {"old", "new"}, Create(b)
       PROVE  InFlightIsHeld'
  <2>1. /\ failures' = failures
        /\ jobs' = [i \in DOMAIN disk.jobs |-> Recovered(disk.jobs[i], b)]
    BY <1>11 DEF Create
  <2>2. disk.jobs \in Seq(Job)
    BY DEF TypeOK, Snapshots
  <2>3. \A i \in DOMAIN jobs' : jobs'[i].status # "in-flight"
    <3>1. \A i \in DOMAIN disk.jobs : disk.jobs[i] \in Job
      BY <2>2
    <3> QED
      BY <2>1, <3>1, RecoveredRecord
  <2>4. Stranded' = {}
    BY <2>3 DEF Stranded
  <2> QED
    BY <1>5, <2>1, <2>4
<1> QED
  BY <1>6, <1>7, <1>8, <1>9, <1>10, <1>11, Steps

-----------------------------------------------------------------------------
(* The inductive invariant of this module, and the theorems. *)

DiskInv ==
  /\ Ordered
  /\ HeldIsSaved
  /\ Charging
  /\ AllSound
  /\ ResetSet
  /\ Rearmed
  /\ InFlightIsHeld

LEMMA InitDiskInv == Init => DiskInv
<1> SUFFICES ASSUME Init PROVE DiskInv
  OBVIOUS
<1>1. /\ jobs = <<>> /\ saves = <<>> /\ disk.jobs = <<>> /\ up /\ failures = 0
      /\ calls = [k \in Keys |-> 0] /\ phase = [t \in Ticks |-> "idle"]
  BY DEF Init, Snapshot
<1>2. DOMAIN jobs = {} /\ DOMAIN saves = {} /\ DOMAIN disk.jobs = {}
  BY <1>1
<1>3. Ordered
  BY <1>2 DEF Ordered, Grows
<1>4. HeldIsSaved
  BY <1>1 DEF HeldIsSaved
<1>5. Charging
  <2>1. \A k \in Keys : ~(calls[k] > 0)
    BY <1>1
  <2> QED
    BY <1>1, <1>2, <2>1 DEF Charging, Covered, CoversAll, Rested, Funded, Holds
<1>6. AllSound
  BY <1>1, <1>2 DEF AllSound, SoundAll
<1>7. ResetSet /\ Rearmed
  BY <1>2 DEF ResetSet, Rearmed
<1>8. InFlightIsHeld
  <2>1. Stranded = {}
    BY <1>2 DEF Stranded
  <2> QED
    BY <1>1, <2>1, FS_EmptySet DEF InFlightIsHeld
<1> QED
  BY <1>3, <1>4, <1>5, <1>6, <1>7, <1>8 DEF DiskInv

LEMMA NextDiskInv == IInv /\ DiskInv /\ [Next]_vars => DiskInv'
<1> SUFFICES ASSUME IInv, DiskInv, [Next]_vars
             PROVE  DiskInv'
  OBVIOUS
<1> USE DEF DiskInv
<1>1. Ordered' /\ HeldIsSaved'
  BY OrderedStep, HeldIsSavedStep
<1>2. Charging'
  BY ChargingStep
<1>3. AllSound' /\ ResetSet' /\ Rearmed'
  BY SoundStep, ResetSetStep, RearmedStep
<1>4. InFlightIsHeld'
  BY InFlightIsHeldStep
<1> QED
  BY <1>1, <1>2, <1>3, <1>4

\* What memory, the saves under way and the file hold at any moment agree: no save loses a
\* record or a completion of the one before it, what a runner works on is in the file, and
\* every record counts, and was charged for, the calls it stands for.
THEOREM DiskInvariance == Spec => [](IInv /\ DiskInv)
<1>1. Init => IInv /\ DiskInv
  BY InitIInv, InitDiskInv
<1>2. (IInv /\ DiskInv) /\ [Next]_vars => (IInv /\ DiskInv)'
  BY NextIInv, NextDiskInv
<1> QED
  BY <1>1, <1>2, PTL DEF Spec

\* "Persist-before-await" (engine.ts, `tick`): while a runner works, the file says so, and
\* over any deaths every call of it that stands is an attempt on disk, of which a job has
\* at most MAX_ATTEMPTS + 1 and one more for each death.
THEOREM CallsOnDisk == Spec => []CallsAreCounted
<1>1. ASSUME IInv, DiskInv
      PROVE  CallsAreCounted
  <2>1. /\ disk.jobs \in Seq(Job) /\ jobs \in Seq(Job) /\ crashes \in Nat
    BY <1>1 DEF IInv, TypeOK, Snapshots
  <2>2. \A t \in Ticks : phase[t] = "running" =>
          \E i \in DOMAIN disk.jobs : disk.jobs[i] = job[t]
    BY <1>1 DEF DiskInv, HeldIsSaved, Has
  <2>3. \A k \in Keys : calls[k] > 0 =>
          \E i \in DOMAIN disk.jobs : Key(disk.jobs[i]) = k /\ calls[k] <= disk.jobs[i].attempts
    BY <1>1 DEF DiskInv, Charging, Covered, CoversAll, Covers, Accepted
  <2>4. \A i \in DOMAIN jobs : jobs[i].attempts <= MaxAttempts + 1 + crashes
    <3> TAKE i \in DOMAIN jobs
    <3>1. /\ jobs[i] \in Job
          /\ jobs[i].attempts <= MaxAttempts + crashes
                                 + (IF jobs[i].status \in Pending THEN 0 ELSE 1)
      BY <1>1, <2>1 DEF DiskInv, AllSound, SoundAll, Sound
    <3>2. jobs[i].attempts \in Nat /\ MaxAttempts \in Nat
      BY <3>1, NumbersAssumption DEF Job
    <3> QED
      BY <2>1, <3>1, <3>2
  <2> QED
    BY <2>2, <2>3, <2>4 DEF CallsAreCounted
<1> QED
  BY <1>1, DiskInvariance, PTL

\* "Err toward having spent more, never less" (engine.ts, `recordOutcome`): a job not in
\* flight was charged for every call of its runner but those a death or a refused save cut
\* short.
THEOREM CallsCharged == Spec => []EveryCallIsCharged
<1>1. ASSUME IInv, DiskInv
      PROVE  EveryCallIsCharged
  <2> SUFFICES ASSUME NEW i \in DOMAIN jobs, jobs[i].status # "in-flight"
               PROVE  Allowance - jobs[i].remaining
                        >= Ceiling * (calls[Key(jobs[i])] - crashes - failures)
    BY DEF EveryCallIsCharged
  <2> DEFINE x == Owed[Len(saves)][Key(jobs[i])]
             y == calls[Key(jobs[i])]
  <2>1. /\ x \in Int /\ crashes \in Nat /\ failures \in Nat /\ y \in Int /\ y <= x
        /\ Covers(jobs[i], x, crashes) /\ jobs[i] \in Job
    <3>1. jobs[i] \in Job /\ Key(jobs[i]) \in Keys /\ x \in Int /\ Covers(jobs[i], x, crashes)
      BY <1>1, MemoryCovered DEF DiskInv
    <3>2. Len(saves) \in 0..Len(saves) /\ crashes \in Nat /\ failures \in Nat
      BY <1>1, OwedTyped DEF IInv, TypeOK
    <3>3. y \in Int /\ y <= x
      BY <1>1, <3>1, <3>2, OwedTyped DEF IInv
    <3> QED
      BY <3>1, <3>2, <3>3
  <2>2. Ceiling * (x - crashes) <= Allowance - jobs[i].remaining + 0
    BY <2>1 DEF Covers
  <2> HIDE DEF x, y
  <2>3. y - crashes - failures \in Int /\ x - crashes \in Int
        /\ y - crashes - failures <= x - crashes
    BY <2>1
  <2>4. Ceiling * (y - crashes - failures) <= Ceiling * (x - crashes)
    BY <2>3, ChargeIsMonotone
  <2>5. Ceiling * (y - crashes - failures) \in Int /\ Ceiling * (x - crashes) \in Int
    BY <2>3, ChargeGrows
  <2>6. jobs[i].remaining \in Nat
    BY <2>1 DEF Job
  <2>7. Allowance - jobs[i].remaining >= Ceiling * (y - crashes - failures)
    BY <2>2, <2>4, <2>5, <2>6, NumbersAssumption
  <2> QED
    BY <2>7 DEF y
<1> QED
  BY <1>1, DiskInvariance, PTL

\* While a job waits for the budget a reset is set that releases it (engine.ts:411-417,
\* `applyResetIfDue`), and once the newer build runs no transcript stays failed for want of
\* a runner (`rearmFailedAsUnrecognised`).
THEOREM WaitsEnd == Spec => []NoneWaitsInVain
<1>1. IInv /\ DiskInv => NoneWaitsInVain
  BY DEF DiskInv, ResetSet, Rearmed, NoneWaitsInVain
<1> QED
  BY <1>1, DiskInvariance, PTL

\* Over deaths and overlapping calls of `tick` no record stays in flight with nobody
\* running it, but one for each save that was refused (`requeueStaleInFlight`).
THEOREM NoneIsStranded == Spec => []InFlightIsHeld
<1>1. DiskInv => InFlightIsHeld
  BY DEF DiskInv
<1> QED
  BY <1>1, DiskInvariance, PTL

\* A completion on record is never run again, nor taken back, whatever deaths, refused
\* saves and retries follow.
THEOREM DoneIsNotRedone == Spec => DoneNeverRunsAgain
<1>1. IInv /\ DiskInv /\ [Next]_vars =>
        [\A k \in Keys : DoneOnDisk(k) => calls'[k] = calls[k]]_vars
  BY DoneIsFinal DEF DiskInv
<1> QED
  BY <1>1, DiskInvariance, PTL DEF Spec, DoneNeverRunsAgain

-----------------------------------------------------------------------------
(* One step of a work queue, from f to g. *)

\* A job comes in; the pending jobs it replaces are given up.
Accepts(f, g) ==
  \E w \in Keys :
    /\ f[w] = "absent" /\ g[w] = "pending"
    /\ \A v \in Keys : v = w \/ g[v] = f[v] \/ (f[v] = "pending" /\ g[v] = "failed")

MovesOne(f, g, from, to) ==
  \E w \in Keys : /\ f[w] = from /\ g[w] \in to
                  /\ \A v \in Keys : v # w => g[v] = f[v]

Follows(f, g) ==
  /\ f \in [Keys -> WQ!States] /\ g \in [Keys -> WQ!States]
  /\ \/ g = f
     \/ Accepts(f, g)
     \/ MovesOne(f, g, "pending", {"running"})
     \/ MovesOne(f, g, "running", {"pending", "done", "failed"})

LEMMA FollowsIsStep ==
  ASSUME Follows(StandingOnDisk, StandingOnDisk')
  PROVE  [StandingOnDisk' \in [Keys -> WQ!States] /\ WQ!Next]_StandingOnDisk
<1> DEFINE f == StandingOnDisk
<1>1. f \in [Keys -> WQ!States] /\ f' \in [Keys -> WQ!States]
  BY DEF Follows
<1>2. CASE Accepts(f, f')
  <2>1. PICK w \in Keys :
          /\ f[w] = "absent" /\ f'[w] = "pending"
          /\ \A v \in Keys : v = w \/ f'[v] = f[v] \/ (f[v] = "pending" /\ f'[v] = "failed")
    BY <1>2 DEF Accepts
  <2>2. WQ!Accept(w)
    BY <2>1 DEF WQ!Accept, WQ!Only, WQ!Moved
  <2> QED
    BY <1>1, <2>2 DEF WQ!Next
<1>3. CASE MovesOne(f, f', "pending", {"running"})
  <2>1. PICK w \in Keys :
          f[w] = "pending" /\ f'[w] = "running" /\ \A v \in Keys : v # w => f'[v] = f[v]
    BY <1>3 DEF MovesOne
  <2>2. f' = [f EXCEPT ![w] = "running"]
    BY <1>1, <2>1
  <2>3. WQ!Start(w)
    BY <2>1, <2>2 DEF WQ!Start
  <2> QED
    BY <1>1, <2>3 DEF WQ!Next
<1>4. CASE MovesOne(f, f', "running", {"pending", "done", "failed"})
  <2>1. PICK w \in Keys : /\ f[w] = "running" /\ f'[w] \in {"pending", "done", "failed"}
                          /\ \A v \in Keys : v # w => f'[v] = f[v]
    BY <1>4 DEF MovesOne
  <2>2. f' = [f EXCEPT ![w] = f'[w]]
    BY <1>1, <2>1
  <2>3. WQ!Finish(w)
    BY <2>1, <2>2 DEF WQ!Finish
  <2> QED
    BY <1>1, <2>3 DEF WQ!Next
<1> QED
  BY <1>2, <1>3, <1>4 DEF Follows

-----------------------------------------------------------------------------
(* Where records stand. *)

Place(status) ==
  IF status \in Pending THEN "pending" ELSE IF status = "in-flight" THEN "running" ELSE status

LEMMA StandingTyped ==
  ASSUME NEW q \in Seq(Job), OneRecordEach(q)
  PROVE  /\ Standing(q) \in [Keys -> WQ!States]
         /\ \A i \in DOMAIN q : Key(q[i]) \in Keys /\ Standing(q)[Key(q[i])] = Place(q[i].status)
         /\ \A k \in Keys : (\A i \in DOMAIN q : Key(q[i]) # k) => Standing(q)[k] = "absent"
<1>1. ASSUME NEW i \in DOMAIN q
      PROVE  /\ Key(q[i]) \in Keys /\ Standing(q)[Key(q[i])] = Place(q[i].status)
             /\ Place(q[i].status) \in WQ!States
  <2> DEFINE k == Key(q[i])
             c == CHOOSE n \in DOMAIN q : Key(q[n]) = k
  <2>1. q[i] \in Job
    OBVIOUS
  <2>2. k \in Keys /\ q[i].status \in Status
    BY <2>1, RecordSteps, NumbersAssumption DEF Job
  <2>3. c \in DOMAIN q /\ Key(q[c]) = k
    OBVIOUS
  <2>4. c = i
    BY <2>3 DEF OneRecordEach
  <2> HIDE DEF k
  <2>5. Standing(q)[k] = CASE q[c].status \in {"queued", "deferred"} -> "pending"
                           [] q[c].status = "in-flight" -> "running"
                           [] OTHER -> q[c].status
    BY <2>2, <2>3 DEF Standing
  <2> HIDE DEF c
  <2>6. Standing(q)[k] = Place(q[i].status)
    BY <2>4, <2>5 DEF Place, Pending
  <2>7. Place(q[i].status) \in WQ!States
    BY <2>2 DEF Place, Pending, Status, WQ!States
  <2> QED
    BY <2>2, <2>6, <2>7 DEF k
<1>2. \A k \in Keys : (\A i \in DOMAIN q : Key(q[i]) # k) => Standing(q)[k] = "absent"
  BY DEF Standing
<1>3. \A k \in Keys : Standing(q)[k] \in WQ!States
  <2> TAKE k \in Keys
  <2>1. CASE \A i \in DOMAIN q : Key(q[i]) # k
    BY <1>2, <2>1 DEF WQ!States
  <2>2. CASE \E i \in DOMAIN q : Key(q[i]) = k
    BY <1>1, <2>2
  <2> QED
    BY <2>1, <2>2
<1>4. Standing(q) = [k \in Keys |-> Standing(q)[k]]
  BY DEF Standing
<1> QED
  BY <1>1, <1>2, <1>3, <1>4

\* Records rewritten one for one: what becomes of each job.
LEMMA StandingRewritten ==
  ASSUME NEW q \in Seq(Job), NEW r \in Seq(Job), OneRecordEach(q), OneRecordEach(r),
         DOMAIN r = DOMAIN q, \A i \in DOMAIN q : Key(r[i]) = Key(q[i])
  PROVE  /\ Standing(q) \in [Keys -> WQ!States] /\ Standing(r) \in [Keys -> WQ!States]
         /\ \A k \in Keys :
              \/ Standing(r)[k] = Standing(q)[k]
              \/ \E i \in DOMAIN q : /\ Key(q[i]) = k
                                     /\ Standing(q)[k] = Place(q[i].status)
                                     /\ Standing(r)[k] = Place(r[i].status)
<1>1. ASSUME NEW k \in Keys
      PROVE  \/ Standing(r)[k] = Standing(q)[k]
             \/ \E i \in DOMAIN q : /\ Key(q[i]) = k
                                    /\ Standing(q)[k] = Place(q[i].status)
                                    /\ Standing(r)[k] = Place(r[i].status)
  <2>1. CASE \A i \in DOMAIN q : Key(q[i]) # k
    <3>1. Standing(q)[k] = "absent" /\ Standing(r)[k] = "absent"
      BY <2>1, StandingTyped
    <3> QED
      BY <3>1
  <2>2. CASE \E i \in DOMAIN q : Key(q[i]) = k
    <3>1. PICK i \in DOMAIN q : Key(q[i]) = k
      BY <2>2
    <3>2. Standing(q)[k] = Place(q[i].status) /\ Standing(r)[k] = Place(r[i].status)
      BY <3>1, StandingTyped
    <3> QED
      BY <3>1, <3>2
  <2> QED
    BY <2>1, <2>2
<1> QED
  BY <1>1, StandingTyped

LEMMA RestsStands ==
  ASSUME NEW j, NEW k, NEW to, Rests(j, k, to), to \in {Pending, {"failed"}}
  PROVE  /\ Key(k) = Key(j)
         /\ \/ Place(k.status) = Place(j.status)
            \/ to = {"failed"} /\ Place(j.status) = "pending" /\ Place(k.status) = "failed"
BY DEF Rests, Place, Pending

LEMMA ShapeFollows ==
  ASSUME IInv, IInv', Shape
  PROVE  Follows(Standing(jobs), Standing(jobs'))
<1> USE DEF IInv
<1> DEFINE f == Standing(jobs)
           g == Standing(jobs')
<1>1. /\ jobs \in Seq(Job) /\ jobs' \in Seq(Job) /\ OneRecordEach(jobs) /\ OneRecordEach(jobs')
  BY DEF TypeOK, UniqueIdentity
<1>2. f \in [Keys -> WQ!States] /\ g \in [Keys -> WQ!States]
  BY <1>1, StandingTyped
<1>3. ASSUME NEW in \in Inputs, Adds(in)
      PROVE  Accepts(f, g)
  <2> DEFINE n == Len(jobs)
             w == Key(NewJob(in))
  <2>1. in \in Input
    BY NamesAssumption
  <2>2. NewJob(in) \in Job /\ NewJob(in).status = "queued" /\ w \in Keys
    BY <2>1, NewRecord, RecordSteps, NumbersAssumption
  <2>3. /\ n \in Nat /\ DOMAIN jobs = 1..n /\ DOMAIN jobs' = 1..(n + 1)
        /\ jobs'[n + 1] = NewJob(in)
        /\ \A i \in DOMAIN jobs : Key(jobs[i]) # w
        /\ \A i \in DOMAIN jobs : Rests(jobs[i], jobs'[i], {"failed"})
    BY <1>1, <1>3 DEF Adds
  <2>4. f[w] = "absent"
    BY <1>1, <2>2, <2>3, StandingTyped
  <2>5. g[w] = "pending"
    <3>1. n + 1 \in DOMAIN jobs'
      BY <2>3
    <3>2. g[Key(jobs'[n + 1])] = Place(jobs'[n + 1].status)
      BY <1>1, <3>1, StandingTyped
    <3> QED
      BY <2>2, <2>3, <3>2 DEF Place, Pending
  <2> HIDE DEF w, n
  <2>6. ASSUME NEW v \in Keys, v # w
        PROVE  g[v] = f[v] \/ (f[v] = "pending" /\ g[v] = "failed")
    <3>1. CASE \A i \in DOMAIN jobs : Key(jobs[i]) # v
      <4>1. \A i \in DOMAIN jobs' : Key(jobs'[i]) # v
        <5> TAKE i \in DOMAIN jobs'
        <5>1. CASE i = n + 1
          BY <2>3, <2>6, <5>1 DEF w
        <5>2. CASE i \in DOMAIN jobs
          BY <2>3, <3>1, <5>2, RestsStands
        <5> QED
          BY <2>3, <5>1, <5>2
      <4> QED
        BY <1>1, <3>1, <4>1, StandingTyped
    <3>2. CASE \E i \in DOMAIN jobs : Key(jobs[i]) = v
      <4>1. PICK i \in DOMAIN jobs : Key(jobs[i]) = v
        BY <3>2
      <4>2. /\ Key(jobs'[i]) = v
            /\ \/ Place(jobs'[i].status) = Place(jobs[i].status)
               \/ Place(jobs[i].status) = "pending" /\ Place(jobs'[i].status) = "failed"
        BY <2>3, <4>1, RestsStands
      <4>3. i \in DOMAIN jobs'
        BY <2>3
      <4>4. f[v] = Place(jobs[i].status) /\ g[v] = Place(jobs'[i].status)
        BY <1>1, <4>1, <4>2, <4>3, StandingTyped
      <4> QED
        BY <4>2, <4>4
    <3> QED
      BY <3>1, <3>2
  <2> HIDE DEF f, g
  <2> QED
    BY <2>2, <2>4, <2>5, <2>6 DEF Accepts, w
<1>4. ASSUME DOMAIN jobs' = DOMAIN jobs, \A i \in DOMAIN jobs : Key(jobs'[i]) = Key(jobs[i])
      PROVE  /\ \A k \in Keys :
                  \/ g[k] = f[k]
                  \/ \E i \in DOMAIN jobs : /\ Key(jobs[i]) = k /\ f[k] = Place(jobs[i].status)
                                            /\ g[k] = Place(jobs'[i].status)
             /\ \A i \in DOMAIN jobs : /\ Key(jobs[i]) \in Keys
                                       /\ f[Key(jobs[i])] = Place(jobs[i].status)
                                       /\ g[Key(jobs[i])] = Place(jobs'[i].status)
  <2>1. \A i \in DOMAIN jobs : /\ Key(jobs[i]) \in Keys
                               /\ f[Key(jobs[i])] = Place(jobs[i].status)
                               /\ g[Key(jobs[i])] = Place(jobs'[i].status)
    BY <1>1, <1>4, StandingTyped
  <2> QED
    BY <1>1, <1>4, <2>1, StandingRewritten
<1> HIDE DEF f, g
<1>5. ASSUME NEW t \in Ticks, Waits(t)
      PROVE  g = f
  <2>1. /\ DOMAIN jobs' = DOMAIN jobs
        /\ \A i \in DOMAIN jobs : Rests(jobs[i], jobs'[i], Pending)
    BY <1>5 DEF Waits
  <2>2. \A i \in DOMAIN jobs : /\ Key(jobs'[i]) = Key(jobs[i])
                               /\ Place(jobs'[i].status) = Place(jobs[i].status)
    BY <2>1, RestsStands DEF Pending
  <2>3. \A k \in Keys : g[k] = f[k]
    BY <1>4, <2>1, <2>2
  <2> QED
    BY <1>2, <2>3
<1>6. ASSUME NEW t \in Ticks, NEW n \in DOMAIN jobs, Starts(t, n)
      PROVE  MovesOne(f, g, "pending", {"running"})
  <2>1. /\ DOMAIN jobs' = DOMAIN jobs /\ jobs'[n] = Started(jobs[n])
        /\ jobs[n].status \in Pending
        /\ \A k \in DOMAIN jobs : k # n => jobs'[k] = jobs[k]
    BY <1>6 DEF Starts
  <2>2. jobs[n] \in Job
    BY <1>1
  <2>3. Key(jobs'[n]) = Key(jobs[n]) /\ jobs'[n].status = "in-flight"
    BY <2>1, <2>2, StartedRecord
  <2>4. \A i \in DOMAIN jobs : Key(jobs'[i]) = Key(jobs[i])
    BY <2>1, <2>3
  <2>5. /\ Key(jobs[n]) \in Keys
        /\ f[Key(jobs[n])] = "pending" /\ g[Key(jobs[n])] = "running"
    BY <1>4, <2>1, <2>3, <2>4 DEF Place, Pending
  <2>6. \A v \in Keys : v # Key(jobs[n]) => g[v] = f[v]
    BY <1>4, <2>1, <2>4
  <2> QED
    BY <2>5, <2>6 DEF MovesOne
<1>7. ASSUME NEW t \in Ticks, NEW n \in DOMAIN jobs, NEW w \in BOOLEAN, Answers(t, n, w)
      PROVE  MovesOne(f, g, "running", {"pending", "done", "failed"})
  <2>1. /\ DOMAIN jobs' = DOMAIN jobs /\ Key(jobs'[n]) = Key(jobs[n])
        /\ jobs[n].status = "in-flight" /\ jobs'[n].status \in {"done", "deferred", "failed"}
        /\ \A k \in DOMAIN jobs : k # n => Rests(jobs[k], jobs'[k], Pending)
    BY <1>7 DEF Answers, Answered, HeldIsInFlight, Holds
  <2>2. \A k \in DOMAIN jobs : k # n => /\ Key(jobs'[k]) = Key(jobs[k])
                                        /\ Place(jobs'[k].status) = Place(jobs[k].status)
    BY <2>1, RestsStands DEF Pending
  <2>3. \A i \in DOMAIN jobs : Key(jobs'[i]) = Key(jobs[i])
    BY <2>1, <2>2
  <2>4. /\ Key(jobs[n]) \in Keys /\ f[Key(jobs[n])] = "running"
        /\ g[Key(jobs[n])] \in {"pending", "done", "failed"}
    BY <1>4, <2>1, <2>3 DEF Place, Pending
  <2>5. \A v \in Keys : v # Key(jobs[n]) => g[v] = f[v]
    BY <1>4, <2>1, <2>2, <2>3
  <2> QED
    BY <2>4, <2>5 DEF MovesOne
<1> QED
  BY <1>2, <1>3, <1>5, <1>6, <1>7 DEF Shape, Follows, f, g

-----------------------------------------------------------------------------
(* The saves under way, each one step after the one before it. *)

Before(s) == IF s = 1 THEN disk.jobs ELSE saves[s - 1].snapshot.jobs

Chained ==
  /\ \A s \in DOMAIN saves : Follows(Standing(Before(s)), Standing(saves[s].snapshot.jobs))
  /\ up => jobs = Before(Len(saves) + 1)

LEMMA ChainedStep ==
  ASSUME MaxFailures = 0, IInv, Chained, [Next]_vars
  PROVE  Chained'
<1> USE DEF IInv
<1>1. IInv' /\ failures \in Nat
  BY NextIInv DEF TypeOK
<1>2. CASE Shape
  <2>1. PICK o : Asked(o)
    BY <1>2, ShapeGrows
  <2> DEFINE n == Len(saves)
  <2>2. /\ n \in Nat /\ DOMAIN saves = 1..n /\ DOMAIN saves' = 1..(n + 1) /\ Len(saves') = n + 1
        /\ \A s \in 1..n : saves'[s] = saves[s]
        /\ saves'[n + 1].snapshot.jobs = jobs'
    BY <2>1, AskedSaves
  <2>3. disk' = disk /\ jobs = Before(n + 1)
    BY <2>1 DEF Asked, Chained
  <2> HIDE DEF n
  <2>4. ASSUME NEW s \in DOMAIN saves'
        PROVE  (IF s = 1 THEN disk'.jobs ELSE saves'[s - 1].snapshot.jobs) = Before(s)
    BY <2>2, <2>3 DEF Before
  <2>5. Follows(Standing(Before(n + 1)), Standing(saves'[n + 1].snapshot.jobs))
    BY <1>1, <1>2, <2>2, <2>3, ShapeFollows
  <2>6. \A s \in DOMAIN saves' : Follows(Standing(Before(s)), Standing(saves'[s].snapshot.jobs))
    BY <2>2, <2>5 DEF Chained
  <2>7. /\ Len(saves') + 1 # 1 /\ (Len(saves') + 1) - 1 = n + 1
        /\ jobs' = saves'[n + 1].snapshot.jobs
    BY <2>2
  <2>8. jobs' = (IF Len(saves') + 1 = 1 THEN disk'.jobs
                 ELSE saves'[(Len(saves') + 1) - 1].snapshot.jobs)
    BY <2>7
  <2>9. \A s \in DOMAIN saves' :
          Follows(Standing(IF s = 1 THEN disk'.jobs ELSE saves'[s - 1].snapshot.jobs),
                  Standing(saves'[s].snapshot.jobs))
    BY <2>4, <2>6
  <2> QED
    BY <2>8, <2>9 DEF Chained, Before
<1>3. CASE Quiet
  BY <1>3 DEF Quiet, Chained, Before
<1>4. CASE SaveLands
  <2> DEFINE n == Len(saves)
  <2>1. /\ saves # <<>> /\ saves' = Tail(saves) /\ jobs' = jobs /\ up /\ up'
        /\ disk' = Head(saves).snapshot
    BY <1>4 DEF SaveLands, memory, process
  <2>2. /\ n \in Nat /\ n >= 1 /\ DOMAIN saves = 1..n /\ 1 \in DOMAIN saves /\ Head(saves) = saves[1]
        /\ DOMAIN saves' = 1..(n - 1) /\ Len(saves') = n - 1
        /\ \A s \in DOMAIN saves' : s + 1 \in DOMAIN saves /\ saves'[s] = saves[s + 1]
    BY <2>1, TailSaves
  <2> HIDE DEF n
  <2>3. ASSUME NEW s \in 1..n
        PROVE  (IF s = 1 THEN disk'.jobs ELSE saves'[s - 1].snapshot.jobs) = Before(s + 1)
    BY <2>1, <2>2 DEF Before
  <2>4. \A s \in DOMAIN saves' : /\ s \in 1..n /\ s + 1 \in DOMAIN saves
                                 /\ saves'[s] = saves[s + 1]
    BY <2>2
  <2>5. \A s \in DOMAIN saves' :
          Follows(Standing(Before(s + 1)), Standing(saves'[s].snapshot.jobs))
    BY <2>4 DEF Chained
  <2>6. Len(saves') + 1 = n /\ n \in 1..n /\ jobs' = Before(n + 1)
    BY <2>1, <2>2 DEF Chained, n
  <2> QED
    BY <2>3, <2>4, <2>5, <2>6 DEF Chained, Before
<1>5. ~SaveRejects
  BY <1>1 DEF SaveRejects
<1>6. CASE Crash
  <2>1. saves' = <<>> /\ ~up'
    BY <1>6 DEF Crash
  <2>2. DOMAIN saves' = {}
    BY <2>1
  <2> QED
    BY <2>1, <2>2 DEF Chained
<1>7. ASSUME NEW b \in {"old", "new"}, Create(b)
      PROVE  Chained'
  <2>1. saves' = <<>> /\ disk'.jobs = jobs'
    BY <1>7 DEF Create, DownIsEmpty, Snapshot
  <2>2. DOMAIN saves' = {} /\ Len(saves') + 1 = 1
    BY <2>1
  <2> QED
    BY <2>1, <2>2 DEF Chained, Before
<1> QED
  BY <1>2, <1>3, <1>4, <1>5, <1>6, <1>7, Steps

\* A restart finds every interrupted job pending.
LEMMA CreateRecovers ==
  ASSUME IInv, NEW b \in {"old", "new"}, Create(b)
  PROVE  StandingOnDisk' \in [Keys -> WQ!States] /\ WQ!Recover
<1> DEFINE q == disk.jobs
           r == jobs'
           f == StandingOnDisk
<1>1. IInv'
  BY CreateIInv
<1>2. q \in Seq(Job) /\ r \in Seq(Job) /\ OneRecordEach(q) /\ OneRecordEach(r)
  BY <1>1 DEF IInv, TypeOK, Snapshots, UniqueIdentity
<1>3. disk'.jobs = jobs' /\ jobs' = [i \in DOMAIN q |-> Recovered(q[i], b)]
  BY DEF Create, Snapshot
<1>4. f = Standing(q) /\ f' = Standing(r)
  BY <1>3 DEF StandingOnDisk
<1>5. ASSUME NEW i \in DOMAIN q
      PROVE  /\ Key(r[i]) = Key(q[i])
             /\ Place(r[i].status) # "running"
             /\ \/ Place(r[i].status) = Place(q[i].status)
                \/ Place(r[i].status) = "pending" /\ Place(q[i].status) \in {"running", "failed"}
  <2>1. q[i] \in Job /\ r[i] = Recovered(q[i], b)
    BY <1>2, <1>3
  <2>2. Key(r[i]) = Key(q[i]) /\ r[i].status # "in-flight"
    BY <2>1, RecoveredRecord
  <2>3. r[i].status \in Status
    <3>1. i \in DOMAIN r
      BY <1>3
    <3>2. r[i] \in Job
      BY <1>2, <3>1
    <3> QED
      BY <3>2 DEF Job
  <2> HIDE DEF q, r
  <2>4. \/ r[i].status = q[i].status
        \/ r[i].status = "queued" /\ q[i].status \in {"in-flight", "failed"}
    BY <2>1 DEF Recovered, Undeferred, Job
  <2> QED
    BY <2>2, <2>3, <2>4 DEF Place, Pending, Status
<1>6. DOMAIN r = DOMAIN q
  BY <1>3
<1> HIDE DEF q, r, f
<1>7. /\ f \in [Keys -> WQ!States] /\ f' \in [Keys -> WQ!States]
      /\ \A k \in Keys :
           \/ f'[k] = f[k]
           \/ \E i \in DOMAIN q : /\ Key(q[i]) = k /\ f[k] = Place(q[i].status)
                                  /\ f'[k] = Place(r[i].status)
  BY <1>2, <1>4, <1>5, <1>6, StandingRewritten
<1>8. \A k \in Keys : \/ f'[k] = f[k]
                      \/ f'[k] = "pending" /\ f[k] \in {"running", "failed"}
  BY <1>5, <1>7
<1>9. \A k \in Keys : f'[k] # "running"
  <2> TAKE k \in Keys
  <2>1. CASE \A i \in DOMAIN r : Key(r[i]) # k
    BY <1>2, <1>4, <2>1, StandingTyped
  <2>2. CASE \E i \in DOMAIN r : Key(r[i]) = k
    <3>1. PICK i \in DOMAIN r : Key(r[i]) = k
      BY <2>2
    <3>2. f'[k] = Place(r[i].status)
      BY <1>2, <1>4, <3>1, StandingTyped
    <3> QED
      BY <1>5, <1>6, <3>2
  <2> QED
    BY <2>1, <2>2
<1> QED
  BY <1>7, <1>8, <1>9 DEF WQ!Recover, WQ!Only, WQ!Moved, f

LEMMA DiskTakesOneStep ==
  ASSUME MaxFailures = 0, IInv, Chained, [Next]_vars
  PROVE  [StandingOnDisk' \in [Keys -> WQ!States] /\ WQ!Next]_StandingOnDisk
<1>1. ASSUME disk' = disk
      PROVE  StandingOnDisk' = StandingOnDisk
  BY <1>1 DEF StandingOnDisk
<1>2. CASE Shape
  <2>1. disk' = disk
    BY <1>2, ShapeGrows DEF Asked
  <2> QED
    BY <1>1, <2>1
<1>3. CASE Quiet
  BY <1>1, <1>3 DEF Quiet
<1>4. CASE SaveLands
  <2>1. saves # <<>> /\ saves' = Tail(saves) /\ disk' = Head(saves).snapshot
    BY <1>4 DEF SaveLands
  <2>2. 1 \in DOMAIN saves /\ Head(saves) = saves[1]
    BY <2>1, TailSaves DEF IInv
  <2>3. Follows(Standing(disk.jobs), Standing(disk'.jobs))
    BY <2>1, <2>2 DEF Chained, Before
  <2>4. Follows(StandingOnDisk, StandingOnDisk')
    BY <2>3 DEF StandingOnDisk
  <2> QED
    BY <2>4, FollowsIsStep
<1>5. ~SaveRejects
  BY DEF SaveRejects, IInv, TypeOK
<1>6. CASE Crash
  BY <1>1, <1>6 DEF Crash
<1>7. ASSUME NEW b \in {"old", "new"}, Create(b)
      PROVE  StandingOnDisk' \in [Keys -> WQ!States] /\ WQ!Next
  BY <1>7, CreateRecovers DEF WQ!Next
<1> QED
  BY <1>2, <1>3, <1>4, <1>5, <1>6, <1>7, Steps

LEMMA InitRefines == Init => Chained /\ WQ!Init
<1> SUFFICES ASSUME Init
             PROVE  Chained /\ WQ!Init
  OBVIOUS
<1>1. jobs = <<>> /\ saves = <<>> /\ disk.jobs = <<>>
  BY DEF Init, Snapshot
<1>2. DOMAIN saves = {} /\ Len(saves) + 1 = 1 /\ DOMAIN disk.jobs = {}
  BY <1>1
<1>3. Chained
  BY <1>1, <1>2 DEF Chained, Before
<1>4. StandingOnDisk = [k \in Keys |-> "absent"]
  BY <1>2 DEF StandingOnDisk, Standing
<1> QED
  BY <1>3, <1>4 DEF WQ!Init

\* What the module doc of engine.ts promises of the durable record, when no save is
\* refused: over overlapping calls of `tick`, saves that land late and deaths at any
\* instant the file takes the steps of a work queue, one job at a time.
THEOREM DiskIsWorkQueue ==
  ASSUME MaxFailures = 0
  PROVE  Spec => ImplementsWorkQueue
<1>1. Init => (IInv /\ Chained) /\ WQ!Init
  BY InitIInv, InitRefines
<1>2. (IInv /\ Chained) /\ [Next]_vars => (IInv /\ Chained)'
  BY NextIInv, ChainedStep
<1>3. (IInv /\ Chained) /\ [Next]_vars =>
        [StandingOnDisk' \in [Keys -> WQ!States] /\ WQ!Next]_StandingOnDisk
  BY DiskTakesOneStep
<1> QED
  BY <1>1, <1>2, <1>3, PTL DEF Spec, ImplementsWorkQueue, WQ!Spec
=============================================================================
