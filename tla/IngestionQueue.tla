--------------------------- MODULE IngestionQueue ---------------------------
(***************************************************************************)
(* The client-side ingestion queue: `IngestionQueueEngine`                 *)
(* (packages/core/src/ingestion/engine.ts), driven by the plugin host      *)
(* (packages/plugin/src/main.ts), which calls `tick` on a 30 s interval    *)
(* and from "process now" without waiting for the earlier call to settle,  *)
(* and stored by `ObsidianQueueStore` through the serializing data host.   *)
(*                                                                         *)
(* A call of `tick` is cut at its awaits: the save after a budget reset,   *)
(* the save of the in-flight record, the runner's answer, the save of the  *)
(* outcome.  Calls overlap, saves land later than they are asked for, and  *)
(* the process may die between any two steps.                              *)
(*                                                                         *)
(* Abstractions.  A payload is the content hash that names it.  Headroom   *)
(* is its band (`classifyHeadroom`).  Time is counted in units; a delay is *)
(* any member of Backoffs or Pacings (jitter, and the widening of the      *)
(* spacing, which `notAttemptedWaits` sizes, are sizes only).  A failure   *)
(* text is the kind of failure.  A debounced `enqueue`, and a `tick` that  *)
(* returns early with nothing changed, are stuttering steps.               *)
(***************************************************************************)
EXTENDS Integers, Sequences, FiniteSets

CONSTANTS
  Hash,         \* content hashes
  Version,      \* workflow versions a versioned caller supplies
  Unit,         \* source units
  NoVersion,    \* `workflowVersion` omitted
  NoUnit,       \* `sourceUnitId` omitted
  Inputs,       \* the inputs callers of `enqueue` present
  Transcripts,  \* hashes whose payload only the newer build's runner serves
  Builds,       \* the builds of the plugin that may have run first: see build
  Ticks,        \* the calls of `tick` that can be outstanding at once
  Rank,         \* the priority comparator: a lower rank runs first
  MaxAttempts,  \* MAX_ATTEMPTS
  Backoffs,     \* the delays `backoffDelayMs` can return
  Pacings,      \* the delays `pacingDelayMs` can return
  Day,          \* the length of a UTC day
  Outcomes,     \* the runner answers considered: see Answer
  Allowance,    \* `workflowAllowance.allowanceUsd`
  Ceiling,      \* `perAttemptCeilingUsd`, 0 when no allowance is configured
  NoJob,        \* what an idle tick holds
  \* Bounds.
  Horizon,      \* the last instant of the clock
  MaxCrashes,   \* process deaths
  MaxSaves,     \* saves outstanding when a caller enqueues
  MaxFailures   \* saves that reject

Status == {"queued", "in-flight", "done", "deferred", "failed"}

\* Why a job is deferred (`deferReason`) or failed (`failedReason`).
Why == {"none", "budget-exhausted", "transient-error",
        "superseded", "attempt-cap", "permanent", "unrecognised"}

\* The kinds of answer a runner can give.
AnswerKinds == {"ok", "retryable", "not-attempted", "permanent", "unrecognised"}

\* `undefined` in an answer, null in the engine: no reading.
Bands == {"none", "ample", "low", "exhausted"}

Answer == [kind : AnswerKinds, headroom : Bands]

Input == [hash : Hash, version : Version \cup {NoVersion}, unit : Unit \cup {NoUnit}]

Job == [hash : Hash, version : Version \cup {NoVersion}, unit : Unit \cup {NoUnit},
        status : Status, why : Why, attempts : Nat, resumeAt : Nat, remaining : Nat]

ASSUME NamesAssumption ==
  /\ NoVersion \notin Version
  /\ NoUnit \notin Unit
  /\ NoJob \notin Job
  /\ Inputs \subseteq Input
  /\ Transcripts \subseteq Hash
  /\ Builds \subseteq {"old", "new"}
  /\ Rank \in [Hash -> Nat]
  /\ Outcomes \subseteq Answer
  /\ "enqueue" \notin Ticks

ASSUME NumbersAssumption ==
  /\ MaxAttempts \in Nat \ {0}
  /\ Backoffs \subseteq Nat \ {0}
  /\ Pacings \subseteq Nat \ {0}
  /\ Day \in Nat \ {0}
  /\ Horizon \in Nat \ {0}
  /\ Allowance \in Nat
  /\ Ceiling \in Nat
  /\ MaxCrashes \in Nat
  /\ MaxSaves \in Nat
  /\ MaxFailures \in Nat

VARIABLES
  jobs,           \* the job records, in arrival order
  headroom,       \* the last headroom reading
  budgetResumeAt, \* when an exhausted budget resets; 0 is null
  pacingUntil,    \* no job starts before this instant; 0 is null
  paused,
  phase,          \* where each call of tick stands
  began,          \* the `now` read by each call of tick now saving a reset, else 0
  job,            \* the in-flight record each call of tick holds
  saves,          \* saves asked for and not landed, first asked first
  disk,           \* the queue in data.json
  up,             \* whether the plugin is loaded
  build,          \* "old" or "new": which payload kinds its runner serves
  now,            \* the clock
  crashes, failures,
  calls           \* history: per job, the runner calls an attempt stands for

memory == <<jobs, headroom, budgetResumeAt, pacingUntil>>
ticks == <<phase, began, job>>
store == <<saves, disk>>
process == <<up, build, crashes>>
vars == <<jobs, headroom, budgetResumeAt, pacingUntil, paused, phase, began, job,
          saves, disk, up, build, now, crashes, failures, calls>>

-----------------------------------------------------------------------------
(* Job records. *)

\* `sameStoredJob`: a job is known by its hash and its version.
Key(j) == <<j.hash, j.version>>

Keys == Hash \X (Version \cup {NoVersion})

\* `clearDefer`, with the new status: the defer keys go.
Undeferred(j, status) == [j EXCEPT !.status = status, !.why = "none", !.resumeAt = 0]

Deferred(j, reason, until) ==
  [j EXCEPT !.status = "deferred", !.why = reason, !.resumeAt = until]

Failed(j, reason) ==
  [j EXCEPT !.status = "failed", !.why = reason, !.resumeAt = 0]

\* `replace`: the record under the same identity is overwritten.
Replace(q, j) == [i \in DOMAIN q |-> IF Key(q[i]) = Key(j) THEN j ELSE q[i]]

\* A job that only waits for its backoff.
Transient(j) == j.status = "deferred" /\ j.why = "transient-error"
OverBudget(j) == j.status = "deferred" /\ j.why = "budget-exhausted"

Snapshot(q, h) == [jobs |-> q, headroom |-> h]

\* `persist`: asks the store to save what memory now holds.
Persist(owner) ==
  saves' = Append(saves, [owner |-> owner, snapshot |-> Snapshot(jobs', headroom')])

\* An instant the clock reaches: at the horizon every wait is over.
Later(n) == IF n > Horizon THEN Horizon ELSE n

\* `nextUtcMidnightMs`.
NextMidnight(n) == Later((n \div Day + 1) * Day)

-----------------------------------------------------------------------------
(* enqueue *)

\* Bug: a settled job no longer counts as a duplicate.
IsDuplicateOfPending(in) ==
  \E i \in DOMAIN jobs : /\ jobs[i].hash = in.hash
                         /\ in.version \in {NoVersion, jobs[i].version}
                         /\ jobs[i].status \notin {"done", "failed"}

\* A versioned caller matches its own version only, any other matches the hash.
IsDuplicate(in) ==
  \E i \in DOMAIN jobs : /\ jobs[i].hash = in.hash
                         /\ in.version \in {NoVersion, jobs[i].version}

\* Bug: every record of the source is retired, whatever its status.
SupersededWhatever(in) ==
  [i \in DOMAIN jobs |->
     IF in.unit # NoUnit /\ jobs[i].unit = in.unit THEN Failed(jobs[i], "superseded") ELSE jobs[i]]

\* Pending revisions of a source are retired when another is enqueued.
Superseded(in) ==
  IF in.unit = NoUnit THEN jobs
  ELSE [i \in DOMAIN jobs |->
          IF jobs[i].unit = in.unit /\ (jobs[i].status = "queued" \/ Transient(jobs[i]))
          THEN Failed(jobs[i], "superseded") ELSE jobs[i]]

NewJob(in) ==
  [hash |-> in.hash, version |-> in.version, unit |-> in.unit, status |-> "queued",
   why |-> "none", attempts |-> 0, resumeAt |-> 0, remaining |-> Allowance]

\* The call that adds a job.  The caller's await of the save changes nothing.
Enqueue(in) ==
  /\ up
  /\ Len(saves) < MaxSaves
  /\ ~IsDuplicate(in)
  /\ jobs' = Append(Superseded(in), NewJob(in))
  /\ UNCHANGED <<headroom, budgetResumeAt, pacingUntil, paused, ticks, disk,
                 process, now, failures, calls>>
  /\ Persist("enqueue")

\* `pause` gates new jobs only.
Pause ==
  /\ up /\ ~paused
  /\ paused' = TRUE
  /\ UNCHANGED <<memory, ticks, store, process, now, failures, calls>>

Resume ==
  /\ up /\ paused
  /\ paused' = FALSE
  /\ UNCHANGED <<memory, ticks, store, process, now, failures, calls>>

-----------------------------------------------------------------------------
(* tick *)

\* Bug: a deferred job is never looked at again.
IsEligibleOnce(j, n) == j.status = "queued"

IsEligible(j, n) == j.status = "queued" \/ (Transient(j) /\ j.resumeAt <= n)

\* `nextEligibleIndex`: the comparator's first, arrival order between equals.
NextEligible(n) ==
  {i \in DOMAIN jobs :
     /\ IsEligible(jobs[i], n)
     /\ \A k \in DOMAIN jobs :
          IsEligible(jobs[k], n) =>
            \/ Rank[jobs[i].hash] < Rank[jobs[k].hash]
            \/ Rank[jobs[i].hash] = Rank[jobs[k].hash] /\ i <= k}

ResetDue == budgetResumeAt # 0 /\ budgetResumeAt <= now

\* The call returns, or is abandoned because its save rejected.
Leave(t) ==
  /\ phase' = [phase EXCEPT ![t] = "idle"]
  /\ job' = [job EXCEPT ![t] = NoJob]

\* The budget says stop, or the pacing gate is shut: nothing runs.
HeldBack(n) == headroom = "exhausted" \/ n < pacingUntil

\* No job is eligible; a pacing gate that has been passed is cleared.
RunNothing(t, n) ==
  /\ ~HeldBack(n)
  /\ NextEligible(n) = {}
  /\ pacingUntil' = 0
  /\ Leave(t)
  /\ UNCHANGED <<jobs, headroom, budgetResumeAt, saves>>

\* Its allowance cannot cover another attempt: the job waits, unattempted.
RefuseForAllowance(t, n) ==
  /\ ~HeldBack(n)
  /\ \E i \in NextEligible(n), d \in Backoffs :
       /\ jobs[i].remaining < Ceiling
       /\ jobs' = Replace(jobs, Deferred(jobs[i], "transient-error", Later(n + d)))
  /\ pacingUntil' = 0
  /\ phase' = [phase EXCEPT ![t] = "recording"]
  /\ UNCHANGED <<headroom, budgetResumeAt, job>>
  /\ Persist(t)

\* Bug: the attempt is not counted before the call.
StartedUncounted(j) == Undeferred(j, "in-flight")

Started(j) == [Undeferred(j, "in-flight") EXCEPT !.attempts = j.attempts + 1]

\* Bug: the runner is called before the save has landed.
StartJobUnsaved(t, n) ==
  /\ ~HeldBack(n)
  /\ \E i \in NextEligible(n) :
       /\ jobs[i].remaining >= Ceiling
       /\ jobs' = Replace(jobs, Started(jobs[i]))
       /\ job' = [job EXCEPT ![t] = Started(jobs[i])]
  /\ pacingUntil' = 0
  /\ phase' = [phase EXCEPT ![t] = "running"]
  /\ UNCHANGED <<headroom, budgetResumeAt>>
  /\ Persist(t)

\* The attempt is counted and the record saved before the runner is called.
StartJob(t, n) ==
  /\ ~HeldBack(n)
  /\ \E i \in NextEligible(n) :
       /\ jobs[i].remaining >= Ceiling
       /\ jobs' = Replace(jobs, Started(jobs[i]))
       /\ job' = [job EXCEPT ![t] = Started(jobs[i])]
  /\ pacingUntil' = 0
  /\ phase' = [phase EXCEPT ![t] = "starting"]
  /\ UNCHANGED <<headroom, budgetResumeAt>>
  /\ Persist(t)

Proceed(t, n) == RunNothing(t, n) \/ RefuseForAllowance(t, n) \/ StartJob(t, n)

\* `applyResetIfDue`, and the save that follows it.
ResetBudget(t) ==
  /\ headroom' = "none"
  /\ budgetResumeAt' = 0
  /\ jobs' = [i \in DOMAIN jobs |-> IF OverBudget(jobs[i])
                                    THEN Undeferred(jobs[i], "queued") ELSE jobs[i]]
  /\ phase' = [phase EXCEPT ![t] = "resetting"]
  /\ began' = [began EXCEPT ![t] = now]
  /\ UNCHANGED <<pacingUntil, job>>
  /\ Persist(t)

TickBegins(t) ==
  /\ up /\ phase[t] = "idle" /\ ~paused
  /\ IF ResetDue THEN ResetBudget(t) ELSE Proceed(t, now) /\ UNCHANGED began
  /\ UNCHANGED <<paused, disk, process, now, failures, calls>>

\* After the reset's save: neither `paused` nor the clock is read again.
TickResumes(t) ==
  /\ up /\ phase[t] = "reset"
  /\ \/ Proceed(t, began[t])
     \/ HeldBack(began[t]) /\ Leave(t) /\ UNCHANGED <<memory, saves>>
  /\ began' = [began EXCEPT ![t] = 0]
  /\ UNCHANGED <<paused, disk, process, now, failures, calls>>

-----------------------------------------------------------------------------
(* recordOutcome *)

\* Bug: the attempt is not charged.
ChargedNothing(j) == j

\* The attempt spends its ceiling from the job's allowance.
Charged(j) ==
  [j EXCEPT !.remaining = IF j.remaining < Ceiling THEN 0 ELSE @ - Ceiling]

\* Bug: an attempt not made gives two attempts back.
SettledGivingTwo(j, kind, u) ==
  CASE kind = "ok" -> [j EXCEPT !.status = "done"]
    [] kind = "not-attempted" -> Deferred([j EXCEPT !.attempts = @ - 2], "transient-error", u)
    [] kind = "retryable" -> Deferred(j, "transient-error", u)
    [] kind \in {"permanent", "unrecognised"} -> Failed(j, kind)

\* Bug: there is no cap on attempts.
SettledUncapped(j, kind, u) ==
  CASE kind = "ok" -> [j EXCEPT !.status = "done"]
    [] kind = "not-attempted" ->
         Deferred([j EXCEPT !.attempts = IF @ > 0 THEN @ - 1 ELSE 0], "transient-error", u)
    [] kind = "retryable" -> Deferred(j, "transient-error", u)
    [] kind \in {"permanent", "unrecognised"} -> Failed(j, kind)

\* The record an answer leaves, the wait being until u.
Settled(j, kind, u) ==
  CASE kind = "ok" -> [j EXCEPT !.status = "done"]
    [] kind = "not-attempted" ->
         Deferred([j EXCEPT !.attempts = IF @ > 0 THEN @ - 1 ELSE 0], "transient-error", u)
    [] kind = "retryable" /\ j.attempts <= MaxAttempts -> Deferred(j, "transient-error", u)
    [] kind = "retryable" /\ j.attempts > MaxAttempts -> Failed(j, "attempt-cap")
    [] kind \in {"permanent", "unrecognised"} -> Failed(j, kind)

\* `applyHeadroom` on the records q, after the outcome is on them.
ApplyHeadroom(q, band) ==
  CASE band = "none" -> jobs' = q /\ UNCHANGED <<headroom, budgetResumeAt, pacingUntil>>
    [] band = "exhausted" ->
         LET midnight == NextMidnight(now)
         IN  /\ headroom' = band
             /\ pacingUntil' = 0
             /\ budgetResumeAt' = midnight
             /\ jobs' = [i \in DOMAIN q |->
                           IF q[i].status = "queued"
                           THEN Deferred(q[i], "budget-exhausted", midnight) ELSE q[i]]
    [] band = "low" ->
         /\ headroom' = band
         /\ \E d \in Pacings : pacingUntil' = Later(now + d)
         /\ jobs' = q
         /\ UNCHANGED budgetResumeAt
    [] band = "ample" ->
         /\ headroom' = band
         /\ pacingUntil' = 0
         /\ jobs' = q
         /\ UNCHANGED budgetResumeAt

\* What the runner of this build can answer for a hash.
CanAnswer(h, a) ==
  (a.kind = "unrecognised") <=> (build = "old" /\ h \in Transcripts)

\* The runner answers and the outcome is recorded; a permanent failure carries
\* no headroom reading.
RunnerAnswers(t) ==
  /\ up /\ phase[t] = "running"
  /\ \E a \in Outcomes, d \in Backoffs :
       /\ CanAnswer(job[t].hash, a)
       /\ ApplyHeadroom(Replace(jobs, Settled(Charged(job[t]), a.kind, Later(now + d))),
                        IF a.kind \in {"permanent", "unrecognised"} THEN "none" ELSE a.headroom)
       /\ calls' = IF a.kind = "not-attempted"
                   THEN [calls EXCEPT ![Key(job[t])] = @ - 1] ELSE calls
  /\ phase' = [phase EXCEPT ![t] = "recording"]
  /\ job' = [job EXCEPT ![t] = NoJob]
  /\ UNCHANGED <<paused, began, disk, process, now, failures>>
  /\ Persist(t)

-----------------------------------------------------------------------------
(* The store, the clock and the process. *)

\* The await a caller resumes from when its save lands.
AfterSave(t) ==
  CASE phase[t] = "resetting" -> "reset"
    [] phase[t] = "starting" -> "running"
    [] phase[t] = "recording" -> "idle"

\* Saves land in the order they were asked for; the runner is called when the
\* save of the in-flight record has landed.
SaveLands ==
  /\ up /\ saves # <<>>
  /\ disk' = Head(saves).snapshot
  /\ saves' = Tail(saves)
  /\ LET owner == Head(saves).owner
     IN  IF owner = "enqueue"
         THEN UNCHANGED <<phase, calls>>
         ELSE /\ phase' = [phase EXCEPT ![owner] = AfterSave(owner)]
              /\ calls' = IF phase[owner] = "starting"
                          THEN [calls EXCEPT ![Key(job[owner])] = @ + 1] ELSE calls
  /\ UNCHANGED <<memory, paused, began, job, process, now, failures>>

\* A save that rejects ends the call that awaits it.
SaveRejects ==
  /\ up /\ saves # <<>> /\ failures < MaxFailures
  /\ failures' = failures + 1
  /\ saves' = Tail(saves)
  /\ LET owner == Head(saves).owner
     IN  IF owner = "enqueue" THEN UNCHANGED <<phase, job>> ELSE Leave(owner)
  /\ UNCHANGED <<memory, paused, began, disk, process, now, calls>>

ClockAdvances ==
  /\ now < Horizon
  /\ now' = now + 1
  /\ UNCHANGED <<memory, paused, ticks, store, process, failures, calls>>

\* The process dies: memory, the calls in progress and the saves not landed go.
Crash ==
  /\ up /\ crashes < MaxCrashes
  /\ up' = FALSE
  /\ crashes' = crashes + 1
  /\ jobs' = <<>> /\ headroom' = "none" /\ budgetResumeAt' = 0 /\ pacingUntil' = 0
  /\ paused' = FALSE
  /\ phase' = [t \in Ticks |-> "idle"]
  /\ began' = [t \in Ticks |-> 0]
  /\ job' = [t \in Ticks |-> NoJob]
  /\ saves' = <<>>
  /\ UNCHANGED <<disk, build, now, failures, calls>>

\* Bug: an interrupted job is left as it was found.
RecoveredNone(j, b) == j

\* Bug: a job given up for want of a runner stays given up.
RecoveredInFlight(j, b) == IF j.status = "in-flight" THEN [j EXCEPT !.status = "queued"] ELSE j

\* `requeueStaleInFlight`, then `rearmFailedAsUnrecognised` by a build b.
Recovered(j, b) ==
  CASE j.status = "in-flight" -> [j EXCEPT !.status = "queued"]
    [] j.status = "failed" /\ j.why = "unrecognised" /\ b = "new" /\ j.hash \in Transcripts ->
         Undeferred(j, "queued")
    [] OTHER -> j

\* The reset instant on record: the first budget-deferred job's.
FirstOverBudget(q) ==
  {i \in DOMAIN q : OverBudget(q[i]) /\ \A k \in DOMAIN q : OverBudget(q[k]) => i <= k}

\* Bug: the reset instant is not reconstructed.
ResetForgotten(q) == 0

ResetOnRecord(q) ==
  IF FirstOverBudget(q) = {} THEN 0 ELSE q[CHOOSE i \in FirstOverBudget(q) : TRUE].resumeAt

\* `create`, possibly by a newer build.  Nobody holds the engine before its own
\* save has landed, so a death in between is a death before it.
Create(b) ==
  /\ ~up
  /\ up' = TRUE
  /\ build' = b
  /\ jobs' = [i \in DOMAIN disk.jobs |-> Recovered(disk.jobs[i], b)]
  /\ headroom' = disk.headroom
  /\ budgetResumeAt' = ResetOnRecord(jobs')
  /\ disk' = Snapshot(jobs', headroom')
  /\ UNCHANGED <<pacingUntil, paused, ticks, saves, now, crashes, failures, calls>>

Restart == Create(build) \/ Create("new")

-----------------------------------------------------------------------------
Init ==
  /\ jobs = <<>> /\ headroom = "none" /\ budgetResumeAt = 0 /\ pacingUntil = 0
  /\ paused = FALSE
  /\ phase = [t \in Ticks |-> "idle"]
  /\ began = [t \in Ticks |-> 0]
  /\ job = [t \in Ticks |-> NoJob]
  /\ saves = <<>>
  /\ disk = Snapshot(<<>>, "none")
  /\ up = TRUE
  /\ build \in Builds
  /\ now = 0
  /\ crashes = 0 /\ failures = 0
  /\ calls = [k \in Keys |-> 0]

Next ==
  \/ \E in \in Inputs : Enqueue(in)
  \/ Pause
  \/ Resume
  \/ \E t \in Ticks : TickBegins(t) \/ TickResumes(t) \/ RunnerAnswers(t)
  \/ SaveLands
  \/ SaveRejects
  \/ ClockAdvances
  \/ Crash
  \/ Restart

Spec == Init /\ [][Next]_vars

\* The host calls tick on an interval for as long as the plugin is loaded, a
\* runner answers, saves settle, the clock runs and the plugin is loaded again.
Fairness ==
  /\ \A t \in Ticks : /\ WF_vars(TickBegins(t))
                      /\ WF_vars(TickResumes(t))
                      /\ WF_vars(RunnerAnswers(t))
  /\ WF_vars(SaveLands)
  /\ WF_vars(ClockAdvances)
  /\ WF_vars(Restart)

FairSpec == Spec /\ Fairness

-----------------------------------------------------------------------------
(* Types *)

Phases == {"idle", "resetting", "reset", "starting", "running", "recording"}

Snapshots == [jobs : Seq(Job), headroom : Bands]

TypeOK ==
  /\ jobs \in Seq(Job)
  /\ headroom \in Bands
  /\ budgetResumeAt \in Nat
  /\ pacingUntil \in Nat
  /\ paused \in BOOLEAN
  /\ phase \in [Ticks -> Phases]
  /\ began \in [Ticks -> Nat]
  /\ job \in [Ticks -> Job \cup {NoJob}]
  /\ saves \in Seq([owner : Ticks \cup {"enqueue"}, snapshot : Snapshots])
  /\ disk \in Snapshots
  /\ up \in BOOLEAN
  /\ build \in {"old", "new"}
  /\ now \in Nat
  /\ crashes \in Nat
  /\ failures \in Nat
  /\ calls \in [Keys -> Int]

-----------------------------------------------------------------------------
(* Safety *)

OneRecordEach(q) == \A i, k \in DOMAIN q : Key(q[i]) = Key(q[k]) => i = k

\* A job has one record: in memory, on disk and in every save under way.  What
\* `replace` overwrites by identity is therefore one record, and `enqueue` is
\* idempotent over retries, restarts and workflow versions.
UniqueIdentity ==
  /\ OneRecordEach(jobs)
  /\ OneRecordEach(disk.jobs)
  /\ \A s \in DOMAIN saves : OneRecordEach(saves[s].snapshot.jobs)

Holds(t) == phase[t] \in {"starting", "running"}

\* Calls of tick overlap, yet no two of them run one job, and what a call holds
\* while it awaits is still the record in memory: the outcome it writes back
\* overwrites nothing another call or an enqueue has put there meanwhile.
OneTickPerJob ==
  \A t \in Ticks : Holds(t) =>
    /\ \E i \in DOMAIN jobs : jobs[i] = job[t]
    /\ \A u \in Ticks \ {t} : Holds(u) => Key(job[u]) # Key(job[t])

Stranded == {i \in DOMAIN jobs : /\ jobs[i].status = "in-flight"
                                 /\ \A t \in Ticks : ~(Holds(t) /\ job[t] = jobs[i])}

\* No job stays in flight with nobody running it, over any crash, but one for each save
\* that was refused.
InFlightIsHeld == Cardinality(Stranded) <= failures

\* "Persist-before-await": while a runner works, the file says so.  Across crashes, every
\* call of the runner that stands is an attempt on disk, of which a job has at most
\* MaxAttempts + 1, and one more for each time the process died under it.
CallsAreCounted ==
  /\ \A t \in Ticks : phase[t] = "running" =>
       \E i \in DOMAIN disk.jobs : disk.jobs[i] = job[t]
  /\ \A k \in Keys : calls[k] > 0 =>
       \E i \in DOMAIN disk.jobs : Key(disk.jobs[i]) = k /\ calls[k] <= disk.jobs[i].attempts
  /\ \A i \in DOMAIN jobs : jobs[i].attempts <= MaxAttempts + 1 + crashes

\* No job waits for what will not come, over exhausted budgets, days and restarts under
\* another build: while any is deferred for the budget a reset is set that releases them
\* all, by the next midnight and not before the instant one of them names
\* (engine.ts:411-417), and once the newer build runs none stays failed for want of its
\* runner (engine.ts:298-324).
NoneWaitsInVain ==
  /\ (\E i \in DOMAIN jobs : OverBudget(jobs[i])) =>
       /\ budgetResumeAt \in 1..NextMidnight(now)
       /\ \E i \in DOMAIN jobs : OverBudget(jobs[i]) /\ jobs[i].resumeAt <= budgetResumeAt
  /\ \A i \in DOMAIN jobs :
       up /\ build = "new" /\ jobs[i].hash \in Transcripts => jobs[i].why # "unrecognised"

\* "Err toward having spent more, never less": a job not in flight is charged
\* for every call of its runner but the ones a crash cut short.
EveryCallIsCharged ==
  \A i \in DOMAIN jobs : jobs[i].status # "in-flight" =>
    Allowance - jobs[i].remaining >= Ceiling * (calls[Key(jobs[i])] - crashes - failures)

(* Action properties *)

DoneOnDisk(k) == \E i \in DOMAIN disk.jobs : Key(disk.jobs[i]) = k /\ disk.jobs[i].status = "done"

\* A completion on record is never redone, whatever crashes and retries follow.
DoneNeverRunsAgain ==
  [][\A k \in Keys : DoneOnDisk(k) => calls'[k] = calls[k]]_vars

(* Refinement *)

\* Where the records q say each job stands.
Standing(q) ==
  [k \in Keys |->
     IF \A i \in DOMAIN q : Key(q[i]) # k THEN "absent"
     ELSE LET status == q[CHOOSE i \in DOMAIN q : Key(q[i]) = k].status
          IN CASE status \in {"queued", "deferred"} -> "pending"
               [] status = "in-flight" -> "running"
               [] OTHER -> status]

StandingOnDisk == Standing(disk.jobs)

WQ == INSTANCE WorkQueue WITH Work <- Keys, state <- StandingOnDisk

\* The file, save by save and crash by crash, is a work queue.
ImplementsWorkQueue == WQ!Spec

(* Liveness *)

Accepted(k) == \E i \in DOMAIN disk.jobs : Key(disk.jobs[i]) = k
AtRest(k) == \E i \in DOMAIN disk.jobs :
               Key(disk.jobs[i]) = k /\ disk.jobs[i].status \in {"done", "failed"}

\* A budget spent, and no instant on record at which it comes back.
SpentForGood == headroom = "exhausted" /\ budgetResumeAt = 0

\* Every job on record is settled in the end, over crashes, exhausted budgets,
\* retries and priorities, unless the queue is left paused or a restart finds
\* the budget spent with no job to say until when.
EveryJobSettles ==
  (<>[]~paused /\ ~<>[]SpentForGood) => \A k \in Keys : Accepted(k) ~> AtRest(k)

\* A spent budget comes back.
ExhaustedEnds == <>[]~paused => (headroom = "exhausted" ~> headroom # "exhausted")
=============================================================================
