----------------------- MODULE IngestionQueue_proofs -----------------------
(***************************************************************************)
(* Proofs about the ingestion queue, for every set of hashes, versions,    *)
(* units, overlapping calls of tick, delays, answers and bounds.           *)
(***************************************************************************)
EXTENDS IngestionQueue, TLAPS

-----------------------------------------------------------------------------
(* Job records and sequences of them. *)

\* A function on an initial segment of the naturals is a sequence.
LEMMA FunctionIsSequence ==
  ASSUME NEW S, NEW n \in Nat, NEW r \in [1..n -> S]
  PROVE  r \in Seq(S) /\ Len(r) = n /\ DOMAIN r = 1..n
OBVIOUS

\* What the engine does to one record keeps it a record under its identity.
LEMMA RecordSteps ==
  ASSUME NEW j \in Job, NEW n \in Nat
  PROVE  /\ \A s \in Status : Undeferred(j, s) \in Job /\ Key(Undeferred(j, s)) = Key(j)
         /\ \A w \in Why : Deferred(j, w, n) \in Job /\ Key(Deferred(j, w, n)) = Key(j)
         /\ \A w \in Why : Failed(j, w) \in Job /\ Key(Failed(j, w)) = Key(j)
         /\ \A s \in Status : [j EXCEPT !.status = s] \in Job /\ Key([j EXCEPT !.status = s]) = Key(j)
         /\ Key(j) \in Keys
<1>1. \A s \in Status : Undeferred(j, s) \in Job /\ Key(Undeferred(j, s)) = Key(j)
  BY DEF Job, Undeferred, Key, Why
<1>2. \A w \in Why : Deferred(j, w, n) \in Job /\ Key(Deferred(j, w, n)) = Key(j)
  BY DEF Job, Deferred, Key, Status
<1>3. \A w \in Why : Failed(j, w) \in Job /\ Key(Failed(j, w)) = Key(j)
  BY DEF Job, Failed, Key, Status
<1>4. \A s \in Status : [j EXCEPT !.status = s] \in Job /\ Key([j EXCEPT !.status = s]) = Key(j)
  BY DEF Job, Key
<1>5. Key(j) \in Keys
  BY DEF Job, Key, Keys
<1> QED
  BY <1>1, <1>2, <1>3, <1>4, <1>5

LEMMA StartedRecord ==
  ASSUME NEW j \in Job
  PROVE  /\ Started(j) \in Job /\ Key(Started(j)) = Key(j)
         /\ Started(j).status = "in-flight"
<1> DEFINE f == Undeferred(j, "in-flight")
<1>1. f \in Job /\ f.hash = j.hash /\ f.version = j.version /\ f.status = "in-flight"
  BY DEF Undeferred, Job, Status, Why
<1>2. j.attempts + 1 \in Nat
  BY DEF Job
<1>3. Started(j) = [f EXCEPT !.attempts = j.attempts + 1]
  BY DEF Started
<1> HIDE DEF f
<1> QED
  BY <1>1, <1>2, <1>3 DEF Job, Key

\* Rewriting a queue record by record, identities kept.
Rewrites(q, r) ==
  /\ r \in Seq(Job)
  /\ DOMAIN r = DOMAIN q
  /\ \A i \in DOMAIN q : Key(r[i]) = Key(q[i])

LEMMA RewriteKeepsIdentity ==
  ASSUME NEW q \in Seq(Job), NEW r, Rewrites(q, r), OneRecordEach(q)
  PROVE  OneRecordEach(r)
BY DEF Rewrites, OneRecordEach

\* A queue rewritten by a record-valued function of the index.
LEMMA RewriteByIndex ==
  ASSUME NEW q \in Seq(Job), NEW r, r = [i \in DOMAIN q |-> r[i]],
         \A i \in DOMAIN q : r[i] \in Job /\ Key(r[i]) = Key(q[i])
  PROVE  Rewrites(q, r)
<1>1. Len(q) \in Nat /\ DOMAIN q = 1..Len(q)
  OBVIOUS
<1>2. r \in [1..Len(q) -> Job]
  BY <1>1
<1>3. r \in Seq(Job) /\ DOMAIN r = 1..Len(q)
  BY <1>1, <1>2, FunctionIsSequence
<1> QED
  BY <1>1, <1>3 DEF Rewrites

\* `replace` by a record under the same identity.
LEMMA ReplaceRewrites ==
  ASSUME NEW q \in Seq(Job), NEW j \in Job
  PROVE  Rewrites(q, Replace(q, j))
<1> DEFINE r == Replace(q, j)
<1>1. r = [i \in DOMAIN q |-> r[i]] /\ \A i \in DOMAIN q : r[i] \in Job /\ Key(r[i]) = Key(q[i])
  BY DEF Replace
<1> QED
  BY <1>1, RewriteByIndex

-----------------------------------------------------------------------------
(* The inductive invariant. *)

\* What a call of tick holds while it awaits is an in-flight record.
HeldIsInFlight ==
  \A t \in Ticks : Holds(t) => job[t] \in Job /\ job[t].status = "in-flight"

Saving == {"resetting", "starting", "recording"}

\* A call of tick whose save is under way waits for it, and has no other.
SaversWait ==
  /\ \A s \in DOMAIN saves : saves[s].owner # "enqueue" => phase[saves[s].owner] \in Saving
  /\ \A s, r \in DOMAIN saves :
       saves[s].owner = saves[r].owner /\ saves[s].owner # "enqueue" => s = r

\* A plugin not loaded has no call and no save under way.
DownIsEmpty == ~up => saves = <<>> /\ \A t \in Ticks : phase[t] = "idle"

IInv ==
  /\ TypeOK
  /\ UniqueIdentity
  /\ OneTickPerJob
  /\ HeldIsInFlight
  /\ SaversWait
  /\ DownIsEmpty

LEMMA InitIInv == Init => IInv
<1> SUFFICES ASSUME Init PROVE IInv
  OBVIOUS
<1> USE NamesAssumption, NumbersAssumption
<1>1. <<>> \in Seq(Job) /\ DOMAIN <<>> = {}
  OBVIOUS
<1>2. TypeOK
  <2>1. disk \in Snapshots
    BY <1>1 DEF Init, Bands, Snapshots, Snapshot
  <2>2. saves \in Seq([owner : Ticks \cup {"enqueue"}, snapshot : Snapshots])
    BY DEF Init
  <2>3. headroom \in Bands /\ phase \in [Ticks -> Phases]
    BY DEF Init, Phases, Bands
  <2>4. jobs \in Seq(Job) /\ job \in [Ticks -> Job \cup {NoJob}]
    BY <1>1 DEF Init
  <2>5. began \in [Ticks -> Nat] /\ calls \in [Keys -> Int]
    BY DEF Init
  <2>6. paused \in BOOLEAN /\ up \in BOOLEAN /\ build \in {"old", "new"}
    BY NamesAssumption DEF Init
  <2>7. {budgetResumeAt, pacingUntil, now, crashes, failures} \subseteq Nat
    BY DEF Init
  <2> QED
    BY <2>1, <2>2, <2>3, <2>4, <2>5, <2>6, <2>7 DEF TypeOK
<1>3. UniqueIdentity
  BY <1>1 DEF Init, UniqueIdentity, OneRecordEach, Snapshot
<1>4. OneTickPerJob /\ HeldIsInFlight
  BY DEF Init, OneTickPerJob, HeldIsInFlight, Holds
<1>5. SaversWait /\ DownIsEmpty
  BY <1>1 DEF Init, SaversWait, DownIsEmpty
<1> QED
  BY <1>2, <1>3, <1>4, <1>5 DEF IInv

-----------------------------------------------------------------------------
(* Saves. *)

Save == [owner : Ticks \cup {"enqueue"}, snapshot : Snapshots]

LEMMA SavesTyped ==
  ASSUME TypeOK
  PROVE  \A s \in DOMAIN saves :
           saves[s] \in Save /\ saves[s].owner \in Ticks \cup {"enqueue"}
<1>1. saves \in Seq(Save)
  BY DEF TypeOK, Save
<1>2. \A s \in DOMAIN saves : saves[s] \in Save
  BY <1>1
<1> QED
  BY <1>2 DEF Save

\* Asking for a save adds it last; the saves stay sound and one to a caller.
LEMMA PersistAdds ==
  ASSUME TypeOK, UniqueIdentity, SaversWait,
         NEW o \in Ticks \cup {"enqueue"}, Persist(o),
         jobs' \in Seq(Job), headroom' \in Bands, OneRecordEach(jobs'),
         o \in Ticks => phase[o] \notin Saving
  PROVE  /\ saves' \in Seq(Save)
         /\ \A s \in DOMAIN saves' : OneRecordEach(saves'[s].snapshot.jobs)
         /\ \A s \in DOMAIN saves' :
              saves'[s].owner = o \/ \E r \in DOMAIN saves : saves'[s] = saves[r]
         /\ \A s, r \in DOMAIN saves' :
              saves'[s].owner = saves'[r].owner /\ saves'[s].owner # "enqueue" => s = r
<1> DEFINE e == [owner |-> o, snapshot |-> Snapshot(jobs', headroom')]
           n == Len(saves)
<1>1. e \in Save /\ e.owner = o /\ e.snapshot.jobs = jobs'
  BY DEF Save, Snapshots, Snapshot
<1>2. saves \in Seq(Save) /\ n \in Nat /\ DOMAIN saves = 1..n
  BY DEF TypeOK, Save
<1>3. saves' = Append(saves, e)
  BY DEF Persist
<1> HIDE DEF e
<1>4. /\ saves' \in Seq(Save) /\ DOMAIN saves' = 1..(n + 1)
      /\ saves'[n + 1] = e /\ \A s \in 1..n : saves'[s] = saves[s]
  BY <1>1, <1>2, <1>3
<1>5. \A s \in DOMAIN saves' : OneRecordEach(saves'[s].snapshot.jobs)
  BY <1>1, <1>2, <1>4 DEF UniqueIdentity
<1>6. \A s \in 1..n : saves[s].owner # "enqueue" => saves[s].owner # o
  BY <1>2 DEF SaversWait, TypeOK, Save
<1>7. \A s, r \in DOMAIN saves' :
        saves'[s].owner = saves'[r].owner /\ saves'[s].owner # "enqueue" => s = r
  BY <1>1, <1>2, <1>4, <1>6 DEF SaversWait
<1>8. \A s \in DOMAIN saves' :
        saves'[s].owner = o \/ \E r \in DOMAIN saves : saves'[s] = saves[r]
  BY <1>1, <1>2, <1>4
<1> QED
  BY <1>4, <1>5, <1>7, <1>8

-----------------------------------------------------------------------------
(* enqueue *)

LEMMA SupersededRewrites ==
  ASSUME TypeOK, NEW in \in Input
  PROVE  /\ Rewrites(jobs, Superseded(in))
         /\ \A i \in DOMAIN jobs : jobs[i].status = "in-flight" => Superseded(in)[i] = jobs[i]
<1> DEFINE r == Superseded(in)
<1>1. jobs \in Seq(Job)
  BY DEF TypeOK
<1>2. CASE in.unit = NoUnit
  BY <1>1, <1>2 DEF Superseded, Rewrites
<1>3. CASE in.unit # NoUnit
  <2>1. r = [i \in DOMAIN jobs |-> r[i]]
    BY <1>3 DEF Superseded
  <2>2. ASSUME NEW i \in DOMAIN jobs
        PROVE  /\ r[i] \in Job /\ Key(r[i]) = Key(jobs[i])
               /\ jobs[i].status = "in-flight" => r[i] = jobs[i]
    <3>1. jobs[i] \in Job
      BY <1>1
    <3>2. "superseded" \in Why /\ 0 \in Nat
      BY DEF Why
    <3>3. Failed(jobs[i], "superseded") \in Job
          /\ Key(Failed(jobs[i], "superseded")) = Key(jobs[i])
      BY <3>1, <3>2, RecordSteps
    <3> QED
      BY <1>3, <3>1, <3>3 DEF Superseded, Transient
  <2> HIDE DEF r
  <2>3. Rewrites(jobs, r)
    BY <1>1, <2>1, <2>2, RewriteByIndex
  <2> QED
    BY <2>2, <2>3 DEF r
<1> QED
  BY <1>2, <1>3

LEMMA EnqueueIInv ==
  ASSUME IInv, NEW in \in Inputs, Enqueue(in)
  PROVE  IInv'
<1> DEFINE q == Superseded(in)
           j == NewJob(in)
           n == Len(jobs)
<1> USE DEF IInv
<1>1. in \in Input
  BY NamesAssumption
<1>2. Rewrites(jobs, q) /\ \A i \in DOMAIN jobs : jobs[i].status = "in-flight" => q[i] = jobs[i]
  BY <1>1, SupersededRewrites
<1>3. j \in Job /\ Key(j) = <<in.hash, in.version>>
  BY <1>1, NumbersAssumption DEF NewJob, Job, Input, Status, Why, Key
<1>4. jobs \in Seq(Job) /\ n \in Nat /\ DOMAIN jobs = 1..n
  BY DEF TypeOK
<1>5. \A i \in DOMAIN jobs : Key(jobs[i]) # Key(j)
  BY <1>3 DEF Enqueue, IsDuplicate, Key
<1>6. jobs' = Append(q, j) /\ headroom' = headroom /\ Persist("enqueue")
  BY DEF Enqueue
<1> HIDE DEF q, j
<1>7. q \in Seq(Job) /\ Len(q) = n /\ DOMAIN q = 1..n
  BY <1>2, <1>4 DEF Rewrites
<1>8. /\ jobs' \in Seq(Job) /\ DOMAIN jobs' = 1..(n + 1)
      /\ jobs'[n + 1] = j /\ \A i \in 1..n : jobs'[i] = q[i]
  BY <1>3, <1>6, <1>7
<1>9. OneRecordEach(jobs')
  BY <1>2, <1>4, <1>5, <1>8 DEF UniqueIdentity, OneRecordEach, Rewrites
<1>10. "enqueue" \in Ticks \cup {"enqueue"} /\ "enqueue" \notin Ticks
  BY NamesAssumption
<1>12. headroom' \in Bands
  BY <1>6 DEF TypeOK
<1>13. /\ saves' \in Seq(Save)
       /\ \A s \in DOMAIN saves' : OneRecordEach(saves'[s].snapshot.jobs)
       /\ \A s \in DOMAIN saves' :
            saves'[s].owner = "enqueue" \/ \E r \in DOMAIN saves : saves'[s] = saves[r]
       /\ \A s, r \in DOMAIN saves' :
            saves'[s].owner = saves'[r].owner /\ saves'[s].owner # "enqueue" => s = r
  BY <1>6, <1>8, <1>9, <1>10, <1>12, PersistAdds
<1>14. UNCHANGED <<headroom, budgetResumeAt, pacingUntil, paused, phase, began, job, disk,
                   up, build, crashes, now, failures, calls>>
  BY DEF Enqueue, ticks, process
<1>15. TypeOK'
  BY <1>8, <1>13, <1>14 DEF TypeOK, Save
<1>16. UniqueIdentity'
  BY <1>9, <1>13, <1>14 DEF UniqueIdentity
<1>17. HeldIsInFlight'
  BY <1>14 DEF HeldIsInFlight, Holds
<1>18. OneTickPerJob'
  <2>1. ASSUME NEW t \in Ticks, Holds(t)
        PROVE  \E i \in DOMAIN jobs' : jobs'[i] = job[t]
    BY <2>1, <1>2, <1>4, <1>8 DEF OneTickPerJob, HeldIsInFlight
  <2> QED
    BY <2>1, <1>14 DEF OneTickPerJob, Holds
<1>19. SaversWait'
  BY <1>13, <1>14 DEF SaversWait
<1>20. DownIsEmpty'
  BY <1>14 DEF DownIsEmpty, Enqueue
<1> QED
  BY <1>15, <1>16, <1>17, <1>18, <1>19, <1>20

-----------------------------------------------------------------------------
(* A step of tick that ends in a save: what it must show of the records. *)

LEMMA TickPersists ==
  ASSUME IInv, NEW t \in Ticks, NEW p \in Saving, up,
         Rewrites(jobs, jobs'), Persist(t), phase[t] \notin Saving,
         phase' = [phase EXCEPT ![t] = p],
         job' \in [Ticks -> Job \cup {NoJob}],
         \A u \in Ticks \ {t} : job'[u] = job[u],
         \A u \in Ticks \ {t} : Holds(u) => \E i \in DOMAIN jobs : jobs'[i] = job[u],
         p = "starting" =>
           /\ job'[t] \in Job /\ job'[t].status = "in-flight"
           /\ \E i \in DOMAIN jobs : jobs'[i] = job'[t]
           /\ \A u \in Ticks \ {t} : Holds(u) => Key(job[u]) # Key(job'[t]),
         headroom' \in Bands, budgetResumeAt' \in Nat, pacingUntil' \in Nat,
         began' \in [Ticks -> Nat], calls' \in [Keys -> Int],
         UNCHANGED <<paused, disk, up, build, crashes, now, failures>>
  PROVE  IInv'
<1> USE DEF IInv
<1>1. jobs \in Seq(Job) /\ OneRecordEach(jobs) /\ phase \in [Ticks -> Phases]
  BY DEF TypeOK, UniqueIdentity
<1>2. jobs' \in Seq(Job) /\ DOMAIN jobs' = DOMAIN jobs /\ OneRecordEach(jobs')
  BY <1>1, RewriteKeepsIdentity DEF Rewrites
<1>3. /\ saves' \in Seq(Save)
      /\ \A s \in DOMAIN saves' : OneRecordEach(saves'[s].snapshot.jobs)
      /\ \A s \in DOMAIN saves' :
           saves'[s].owner = t \/ \E r \in DOMAIN saves : saves'[s] = saves[r]
      /\ \A s, r \in DOMAIN saves' :
           saves'[s].owner = saves'[r].owner /\ saves'[s].owner # "enqueue" => s = r
  BY <1>2, PersistAdds
<1>4. /\ phase' \in [Ticks -> Phases] /\ phase'[t] = p
      /\ \A u \in Ticks \ {t} : phase'[u] = phase[u]
  BY <1>1 DEF Saving, Phases
<1>5. TypeOK'
  BY <1>2, <1>3, <1>4 DEF TypeOK, Save
<1>6. UniqueIdentity'
  BY <1>2, <1>3 DEF UniqueIdentity
<1>7. \A u \in Ticks : Holds(u)' => (u # t /\ Holds(u)) \/ (u = t /\ p = "starting")
  BY <1>4 DEF Holds, Saving
<1>8. HeldIsInFlight'
  BY <1>7 DEF HeldIsInFlight
<1>9. OneTickPerJob'
  <2>1. ASSUME NEW u \in Ticks, Holds(u)'
        PROVE  \E i \in DOMAIN jobs' : jobs'[i] = job'[u]
    BY <2>1, <1>2, <1>7
  <2>2. ASSUME NEW u \in Ticks, Holds(u)', NEW w \in Ticks \ {u}, Holds(w)'
        PROVE  Key(job'[w]) # Key(job'[u])
    BY <2>2, <1>7 DEF OneTickPerJob
  <2> QED
    BY <2>1, <2>2 DEF OneTickPerJob, Key
<1>10. SaversWait'
  <2>1. ASSUME NEW s \in DOMAIN saves', saves'[s].owner # "enqueue"
        PROVE  phase'[saves'[s].owner] \in Saving
    <3>1. CASE saves'[s].owner = t
      BY <3>1, <1>4
    <3>2. CASE saves'[s].owner # t
      <4>1. PICK r \in DOMAIN saves : saves'[s] = saves[r]
        BY <3>2, <1>3
      <4>2. saves[r].owner \in Ticks /\ phase[saves[r].owner] \in Saving
        BY <2>1, <4>1, SavesTyped DEF SaversWait
      <4> QED
        BY <3>2, <4>1, <4>2, <1>4
    <3> QED
      BY <3>1, <3>2
  <2> QED
    BY <2>1, <1>3 DEF SaversWait
<1>11. DownIsEmpty'
  BY DEF DownIsEmpty
<1> QED
  BY <1>5, <1>6, <1>8, <1>9, <1>10, <1>11

-----------------------------------------------------------------------------
(* tick *)

\* A record overwritten under its identity: every other record stays.
LEMMA ReplaceOne ==
  ASSUME NEW q \in Seq(Job), OneRecordEach(q), NEW i \in DOMAIN q, NEW j \in Job,
         Key(j) = Key(q[i])
  PROVE  /\ Rewrites(q, Replace(q, j))
         /\ Replace(q, j)[i] = j
         /\ \A k \in DOMAIN q : k # i => Replace(q, j)[k] = q[k]
<1>1. \A k \in DOMAIN q : k # i => Key(q[k]) # Key(j)
  BY DEF OneRecordEach
<1> QED
  BY <1>1, ReplaceRewrites DEF Replace

\* Every wait ends at an instant.
LEMMA LaterIsNat ==
  ASSUME NEW n \in Nat
  PROVE  Later(n) \in Nat
BY NumbersAssumption DEF Later

LEMMA NextMidnightIsNat ==
  ASSUME NEW n \in Nat
  PROVE  NextMidnight(n) \in Nat
<1>1. n \div Day \in Nat
  BY NumbersAssumption
<1>2. (n \div Day + 1) * Day \in Nat
  BY <1>1, NumbersAssumption
<1> QED
  BY <1>2, LaterIsNat DEF NextMidnight

\* A call that returns with nothing to save.
LEMMA LeaveIInv ==
  ASSUME IInv, NEW t \in Ticks, up, phase[t] \notin Saving, Leave(t),
         pacingUntil' \in Nat, began' \in [Ticks -> Nat],
         UNCHANGED <<jobs, headroom, budgetResumeAt, saves, paused, disk, up, build,
                     crashes, now, failures, calls>>
  PROVE  IInv'
<1> USE DEF IInv
<1>1. phase' = [phase EXCEPT ![t] = "idle"] /\ job' = [job EXCEPT ![t] = NoJob]
  BY DEF Leave
<1>2. phase \in [Ticks -> Phases] /\ job \in [Ticks -> Job \cup {NoJob}]
  BY DEF TypeOK
<1>3. /\ phase' \in [Ticks -> Phases] /\ phase'[t] = "idle"
      /\ \A u \in Ticks \ {t} : phase'[u] = phase[u] /\ job'[u] = job[u]
  BY <1>1, <1>2 DEF Phases
<1>4. job' \in [Ticks -> Job \cup {NoJob}]
  BY <1>1, <1>2
<1>5. TypeOK'
  BY <1>3, <1>4 DEF TypeOK
<1>6. \A u \in Ticks : Holds(u)' => u # t /\ Holds(u)
  BY <1>3 DEF Holds
<1>7. UniqueIdentity'
  BY DEF UniqueIdentity
<1>8. HeldIsInFlight' /\ OneTickPerJob'
  BY <1>3, <1>6 DEF HeldIsInFlight, OneTickPerJob
<1>9. SaversWait'
  <2>1. \A s \in DOMAIN saves : saves[s].owner # "enqueue" => saves[s].owner \in Ticks \ {t}
    BY SavesTyped DEF SaversWait
  <2> QED
    BY <2>1, <1>3 DEF SaversWait
<1>10. DownIsEmpty'
  BY DEF DownIsEmpty
<1> QED
  BY <1>5, <1>7, <1>8, <1>9, <1>10

LEMMA ProceedIInv ==
  ASSUME IInv, NEW t \in Ticks, NEW n \in Nat, up, phase[t] \in {"idle", "reset"},
         Proceed(t, n), began' \in [Ticks -> Nat],
         UNCHANGED <<paused, disk, up, build, crashes, now, failures, calls>>
  PROVE  IInv'
<1> USE DEF IInv
<1>1. /\ jobs \in Seq(Job) /\ OneRecordEach(jobs) /\ phase \in [Ticks -> Phases]
      /\ job \in [Ticks -> Job \cup {NoJob}] /\ headroom \in Bands /\ budgetResumeAt \in Nat
      /\ calls \in [Keys -> Int]
  BY DEF TypeOK, UniqueIdentity
<1>2. phase[t] \notin Saving
  BY DEF Saving
<1>3. CASE RunNothing(t, n)
  BY <1>1, <1>2, <1>3, LeaveIInv DEF RunNothing
<1>4. CASE RefuseForAllowance(t, n)
  <2>1. PICK i \in NextEligible(n), d \in Backoffs :
          jobs' = Replace(jobs, Deferred(jobs[i], "transient-error", Later(n + d)))
    BY <1>4 DEF RefuseForAllowance
  <2> DEFINE j == Deferred(jobs[i], "transient-error", Later(n + d))
  <2>2. i \in DOMAIN jobs /\ jobs[i] \in Job /\ jobs[i].status # "in-flight"
    BY <1>1 DEF NextEligible, IsEligible, Transient
  <2>3. n + d \in Nat
    BY NumbersAssumption
  <2>4. Later(n + d) \in Nat /\ "transient-error" \in Why
    BY <2>3, LaterIsNat DEF Why
  <2>5. j \in Job /\ Key(j) = Key(jobs[i])
    BY <2>2, <2>4, RecordSteps
  <2> HIDE DEF j
  <2>6. /\ Rewrites(jobs, jobs')
        /\ \A k \in DOMAIN jobs : jobs[k].status = "in-flight" => jobs'[k] = jobs[k]
    BY <1>1, <2>1, <2>2, <2>5, ReplaceOne DEF j
  <2>7. \A u \in Ticks : Holds(u) => \E k \in DOMAIN jobs : jobs'[k] = job[u]
    BY <2>6 DEF OneTickPerJob, HeldIsInFlight
  <2>8. /\ phase' = [phase EXCEPT ![t] = "recording"] /\ pacingUntil' = 0 /\ Persist(t)
        /\ UNCHANGED <<headroom, budgetResumeAt, job>>
    BY <1>4 DEF RefuseForAllowance
  <2>9. "recording" \in Saving /\ "recording" # "starting"
    BY DEF Saving
  <2> QED
    BY <1>1, <1>2, <2>6, <2>7, <2>8, <2>9, TickPersists
<1>5. CASE StartJob(t, n)
  <2>1. PICK i \in NextEligible(n) :
          /\ jobs' = Replace(jobs, Started(jobs[i]))
          /\ job' = [job EXCEPT ![t] = Started(jobs[i])]
    BY <1>5 DEF StartJob
  <2> DEFINE j == Started(jobs[i])
  <2>2. i \in DOMAIN jobs /\ jobs[i] \in Job /\ jobs[i].status # "in-flight"
    BY <1>1 DEF NextEligible, IsEligible, Transient
  <2>3. j \in Job /\ Key(j) = Key(jobs[i]) /\ j.status = "in-flight"
    BY <2>2, StartedRecord
  <2> HIDE DEF j
  <2>4. /\ Rewrites(jobs, jobs') /\ jobs'[i] = j
        /\ \A k \in DOMAIN jobs : jobs[k].status = "in-flight" => jobs'[k] = jobs[k]
    <3>1. jobs' = Replace(jobs, j)
      BY <2>1 DEF j
    <3>2. /\ Rewrites(jobs, Replace(jobs, j)) /\ Replace(jobs, j)[i] = j
          /\ \A k \in DOMAIN jobs : k # i => Replace(jobs, j)[k] = jobs[k]
      BY <1>1, <2>2, <2>3, ReplaceOne
    <3> QED
      BY <3>1, <3>2, <2>2
  <2>5. \A u \in Ticks : Holds(u) => \E k \in DOMAIN jobs : jobs'[k] = job[u]
    BY <2>4 DEF OneTickPerJob, HeldIsInFlight
  <2>6. \A u \in Ticks : Holds(u) => Key(job[u]) # Key(j)
    BY <1>1, <2>2, <2>3 DEF OneTickPerJob, HeldIsInFlight, OneRecordEach
  <2>7. /\ phase' = [phase EXCEPT ![t] = "starting"] /\ pacingUntil' = 0 /\ Persist(t)
        /\ UNCHANGED <<headroom, budgetResumeAt>>
    BY <1>5 DEF StartJob
  <2>8. /\ job' \in [Ticks -> Job \cup {NoJob}] /\ job'[t] = j
        /\ \A u \in Ticks \ {t} : job'[u] = job[u]
    BY <1>1, <2>1, <2>3 DEF j
  <2>9. "starting" \in Saving
    BY DEF Saving
  <2> QED
    BY <1>1, <1>2, <2>2, <2>3, <2>4, <2>5, <2>6, <2>7, <2>8, <2>9, TickPersists
<1> QED
  BY <1>3, <1>4, <1>5 DEF Proceed

LEMMA TickBeginsIInv ==
  ASSUME IInv, NEW t \in Ticks, TickBegins(t)
  PROVE  IInv'
<1> USE DEF IInv
<1>1. /\ up /\ phase[t] = "idle" /\ phase[t] \notin Saving
      /\ UNCHANGED <<paused, disk, up, build, crashes, now, failures, calls>>
  BY DEF TickBegins, process, Saving
<1>2. /\ jobs \in Seq(Job) /\ job \in [Ticks -> Job \cup {NoJob}]
      /\ began \in [Ticks -> Nat] /\ now \in Nat /\ calls \in [Keys -> Int]
      /\ pacingUntil \in Nat
  BY DEF TypeOK
<1>3. CASE ResetDue
  <2>1. ResetBudget(t)
    BY <1>3 DEF TickBegins
  <2>2. /\ headroom' = "none" /\ budgetResumeAt' = 0 /\ Persist(t)
        /\ phase' = [phase EXCEPT ![t] = "resetting"]
        /\ began' = [began EXCEPT ![t] = now]
        /\ UNCHANGED <<pacingUntil, job>>
    BY <2>1 DEF ResetBudget
  <2>3. jobs' = [i \in DOMAIN jobs |-> IF OverBudget(jobs[i])
                                       THEN Undeferred(jobs[i], "queued") ELSE jobs[i]]
    BY <2>1 DEF ResetBudget
  <2>4. ASSUME NEW i \in DOMAIN jobs
        PROVE  /\ jobs'[i] \in Job /\ Key(jobs'[i]) = Key(jobs[i])
               /\ jobs[i].status = "in-flight" => jobs'[i] = jobs[i]
    <3>1. jobs[i] \in Job /\ "queued" \in Status
      BY <1>2 DEF Status
    <3>2. Undeferred(jobs[i], "queued") \in Job
          /\ Key(Undeferred(jobs[i], "queued")) = Key(jobs[i])
      BY <3>1, RecordSteps
    <3> QED
      BY <2>3, <3>1, <3>2 DEF OverBudget
  <2>5. jobs' = [i \in DOMAIN jobs |-> jobs'[i]]
    BY <2>3
  <2>6. Rewrites(jobs, jobs')
    BY <1>2, <2>4, <2>5, RewriteByIndex
  <2>7. \A u \in Ticks : Holds(u) => \E i \in DOMAIN jobs : jobs'[i] = job[u]
    BY <2>4 DEF OneTickPerJob, HeldIsInFlight
  <2>8. "resetting" \in Saving /\ "resetting" # "starting" /\ "none" \in Bands
    BY DEF Saving, Bands
  <2>9. began' \in [Ticks -> Nat]
    BY <1>2, <2>2
  <2> QED
    BY <1>1, <1>2, <2>2, <2>6, <2>7, <2>8, <2>9, TickPersists
<1>4. CASE ~ResetDue
  <2>1. Proceed(t, now) /\ began' = began
    BY <1>4 DEF TickBegins
  <2> QED
    BY <1>1, <1>2, <2>1, ProceedIInv
<1> QED
  BY <1>3, <1>4

LEMMA TickResumesIInv ==
  ASSUME IInv, NEW t \in Ticks, TickResumes(t)
  PROVE  IInv'
<1> USE DEF IInv
<1>1. /\ up /\ phase[t] = "reset" /\ phase[t] \notin Saving
      /\ UNCHANGED <<paused, disk, up, build, crashes, now, failures, calls>>
      /\ began' = [began EXCEPT ![t] = 0]
  BY DEF TickResumes, process, Saving
<1>2. began \in [Ticks -> Nat] /\ began[t] \in Nat /\ pacingUntil \in Nat
  BY DEF TypeOK
<1>3. began' \in [Ticks -> Nat]
  BY <1>1, <1>2
<1>4. CASE Proceed(t, began[t])
  BY <1>1, <1>2, <1>3, <1>4, ProceedIInv
<1>5. CASE HeldBack(began[t]) /\ Leave(t) /\ UNCHANGED <<memory, saves>>
  BY <1>1, <1>2, <1>3, <1>5, LeaveIInv DEF memory
<1> QED
  BY <1>4, <1>5 DEF TickResumes

-----------------------------------------------------------------------------
(* recordOutcome *)

LEMMA ChargedRecord ==
  ASSUME NEW j \in Job
  PROVE  Charged(j) \in Job /\ Key(Charged(j)) = Key(j)
<1>1. j.remaining \in Nat
  BY DEF Job
<1>2. (IF j.remaining < Ceiling THEN 0 ELSE j.remaining - Ceiling) \in Nat
  BY <1>1, NumbersAssumption
<1> QED
  BY <1>2 DEF Charged, Job, Key

LEMMA SettledRecord ==
  ASSUME NEW j \in Job, NEW kind \in AnswerKinds, NEW u \in Nat
  PROVE  Settled(j, kind, u) \in Job /\ Key(Settled(j, kind, u)) = Key(j)
<1> USE DEF AnswerKinds
<1>1. /\ {"transient-error", "attempt-cap", "permanent", "unrecognised"} \subseteq Why
      /\ "done" \in Status
  BY DEF Why, Status
<1>2. CASE kind = "ok"
  BY <1>1, <1>2, RecordSteps DEF Settled
<1>3. CASE kind = "not-attempted"
  <2> DEFINE g == [j EXCEPT !.attempts = IF @ > 0 THEN @ - 1 ELSE 0]
  <2>1. g \in Job /\ Key(g) = Key(j)
    BY DEF Job, Key
  <2> HIDE DEF g
  <2>2. Settled(j, kind, u) = Deferred(g, "transient-error", u)
    BY <1>3 DEF Settled, g
  <2> QED
    BY <1>1, <2>1, <2>2, RecordSteps
<1>4. CASE kind = "retryable" /\ j.attempts <= MaxAttempts
  BY <1>1, <1>4, RecordSteps DEF Settled
<1>5. CASE kind = "retryable" /\ j.attempts > MaxAttempts
  <2>1. ~(j.attempts <= MaxAttempts)
    BY <1>5, NumbersAssumption DEF Job
  <2> QED
    BY <1>1, <1>5, <2>1, RecordSteps DEF Settled
<1>6. CASE kind \in {"permanent", "unrecognised"}
  BY <1>1, <1>6, RecordSteps DEF Settled
<1>7. kind = "retryable" => j.attempts <= MaxAttempts \/ j.attempts > MaxAttempts
  BY NumbersAssumption DEF Job
<1> QED
  BY <1>2, <1>3, <1>4, <1>5, <1>6, <1>7

LEMMA ApplyHeadroomRewrites ==
  ASSUME TypeOK, NEW q \in Seq(Job), NEW band \in Bands, ApplyHeadroom(q, band)
  PROVE  /\ Rewrites(q, jobs')
         /\ \A i \in DOMAIN q : q[i].status = "in-flight" => jobs'[i] = q[i]
         /\ headroom' \in Bands /\ budgetResumeAt' \in Nat /\ pacingUntil' \in Nat
<1>1. headroom \in Bands /\ budgetResumeAt \in Nat /\ pacingUntil \in Nat /\ now \in Nat
  BY DEF TypeOK
<1>2. CASE band = "none"
  BY <1>1, <1>2 DEF ApplyHeadroom, Rewrites
<1>3. CASE band = "ample"
  BY <1>1, <1>3 DEF ApplyHeadroom, Rewrites
<1>4. CASE band = "low"
  <2>1. /\ headroom' = band /\ jobs' = q /\ budgetResumeAt' = budgetResumeAt
        /\ \E d \in Pacings : pacingUntil' = Later(now + d)
    BY <1>4 DEF ApplyHeadroom
  <2>2. pacingUntil' \in Nat
    BY <1>1, <2>1, NumbersAssumption, LaterIsNat
  <2> QED
    BY <1>1, <2>1, <2>2 DEF Rewrites
<1>5. CASE band = "exhausted"
  <2> DEFINE m == NextMidnight(now)
  <2>1. m \in Nat
    BY <1>1, NextMidnightIsNat
  <2>2. /\ headroom' = band /\ pacingUntil' = 0 /\ budgetResumeAt' = m
        /\ jobs' = [i \in DOMAIN q |-> IF q[i].status = "queued"
                                       THEN Deferred(q[i], "budget-exhausted", m) ELSE q[i]]
    BY <1>5 DEF ApplyHeadroom
  <2> HIDE DEF m
  <2>3. ASSUME NEW i \in DOMAIN q
        PROVE  /\ jobs'[i] \in Job /\ Key(jobs'[i]) = Key(q[i])
               /\ q[i].status = "in-flight" => jobs'[i] = q[i]
    <3>1. q[i] \in Job /\ "budget-exhausted" \in Why
      BY DEF Why
    <3>2. Deferred(q[i], "budget-exhausted", m) \in Job
          /\ Key(Deferred(q[i], "budget-exhausted", m)) = Key(q[i])
      BY <2>1, <3>1, RecordSteps
    <3> QED
      BY <2>2, <3>1, <3>2
  <2>4. jobs' = [i \in DOMAIN q |-> jobs'[i]]
    BY <2>2
  <2>5. Rewrites(q, jobs')
    BY <2>3, <2>4, RewriteByIndex
  <2> QED
    BY <2>1, <2>2, <2>3, <2>5
<1> QED
  BY <1>2, <1>3, <1>4, <1>5 DEF Bands

LEMMA RunnerAnswersIInv ==
  ASSUME IInv, NEW t \in Ticks, RunnerAnswers(t)
  PROVE  IInv'
<1> USE DEF IInv
<1>1. /\ up /\ phase[t] = "running" /\ phase[t] \notin Saving /\ Holds(t)
      /\ phase' = [phase EXCEPT ![t] = "recording"]
      /\ job' = [job EXCEPT ![t] = NoJob] /\ Persist(t)
      /\ UNCHANGED <<paused, began, disk, up, build, crashes, now, failures>>
  BY DEF RunnerAnswers, process, Saving, Holds
<1>2. PICK a \in Outcomes, d \in Backoffs, band \in Bands :
        /\ ApplyHeadroom(Replace(jobs, Settled(Charged(job[t]), a.kind, Later(now + d))), band)
        /\ calls' = IF a.kind = "not-attempted"
                    THEN [calls EXCEPT ![Key(job[t])] = @ - 1] ELSE calls
  <2>1. \A a \in Outcomes :
          (IF a.kind \in {"permanent", "unrecognised"} THEN "none" ELSE a.headroom) \in Bands
    BY NamesAssumption DEF Answer, Bands
  <2> QED
    BY <2>1 DEF RunnerAnswers
<1> DEFINE j == Settled(Charged(job[t]), a.kind, Later(now + d))
           q == Replace(jobs, j)
<1>3. /\ jobs \in Seq(Job) /\ OneRecordEach(jobs) /\ job \in [Ticks -> Job \cup {NoJob}]
      /\ began \in [Ticks -> Nat] /\ calls \in [Keys -> Int] /\ now \in Nat
  BY DEF TypeOK, UniqueIdentity
<1>4. job[t] \in Job /\ Key(job[t]) \in Keys
  BY <1>1, RecordSteps, NumbersAssumption DEF HeldIsInFlight
<1>5. a.kind \in AnswerKinds /\ now + d \in Nat
  BY <1>3, NamesAssumption, NumbersAssumption DEF Answer
<1>6. j \in Job /\ Key(j) = Key(job[t])
  BY <1>4, <1>5, ChargedRecord, SettledRecord, LaterIsNat
<1> HIDE DEF j
<1>7. Rewrites(jobs, q) /\ q \in Seq(Job)
  BY <1>3, <1>6, ReplaceRewrites DEF Rewrites
<1>8. /\ Rewrites(q, jobs')
      /\ \A i \in DOMAIN q : q[i].status = "in-flight" => jobs'[i] = q[i]
      /\ headroom' \in Bands /\ budgetResumeAt' \in Nat /\ pacingUntil' \in Nat
  BY <1>2, <1>7, ApplyHeadroomRewrites DEF j
<1>9. Rewrites(jobs, jobs')
  BY <1>7, <1>8 DEF Rewrites
<1>10. ASSUME NEW u \in Ticks \ {t}, Holds(u)
       PROVE  \E i \in DOMAIN jobs : jobs'[i] = job[u]
  <2>1. PICK i \in DOMAIN jobs : jobs[i] = job[u]
    BY <1>10 DEF OneTickPerJob
  <2>2. Key(job[u]) # Key(job[t]) /\ job[u].status = "in-flight"
    BY <1>1, <1>10 DEF OneTickPerJob, HeldIsInFlight
  <2>3. i \in DOMAIN q /\ q[i] = jobs[i]
    BY <1>6, <2>1, <2>2 DEF Replace
  <2> HIDE DEF q
  <2> QED
    BY <1>8, <2>1, <2>2, <2>3
<1>11. /\ job' \in [Ticks -> Job \cup {NoJob}] /\ began' \in [Ticks -> Nat]
       /\ \A u \in Ticks \ {t} : job'[u] = job[u]
  BY <1>1, <1>3
<1>12. calls' \in [Keys -> Int]
  BY <1>2, <1>3, <1>4
<1>13. "recording" \in Saving /\ "recording" # "starting"
  BY DEF Saving
<1> QED
  BY <1>1, <1>8, <1>9, <1>10, <1>11, <1>12, <1>13, TickPersists

-----------------------------------------------------------------------------
(* Saves land or reject, and the process dies and returns. *)

\* The first save leaves; its caller has no other.
LEMMA FirstSaveLeaves ==
  ASSUME TypeOK, UniqueIdentity, SaversWait, saves # <<>>, saves' = Tail(saves)
  PROVE  /\ Head(saves) \in Save /\ OneRecordEach(Head(saves).snapshot.jobs)
         /\ Head(saves).owner # "enqueue" =>
              Head(saves).owner \in Ticks /\ phase[Head(saves).owner] \in Saving
         /\ saves' \in Seq(Save)
         /\ \A s \in DOMAIN saves' :
              /\ s + 1 \in DOMAIN saves /\ s + 1 # 1 /\ saves'[s] = saves[s + 1]
              /\ saves'[s].owner # "enqueue" =>
                   saves'[s].owner \in Ticks /\ saves'[s].owner # Head(saves).owner
<1>1. saves \in Seq(Save) /\ Len(saves) \in Nat /\ DOMAIN saves = 1..Len(saves)
  BY DEF TypeOK, Save
<1>2. 1 \in DOMAIN saves /\ Head(saves) = saves[1]
  BY <1>1
<1>3. saves' \in Seq(Save) /\ \A s \in DOMAIN saves' :
        s + 1 \in DOMAIN saves /\ s + 1 # 1 /\ saves'[s] = saves[s + 1]
  BY <1>1
<1>4. \A r \in DOMAIN saves : saves[r] \in Save /\ saves[r].owner \in Ticks \cup {"enqueue"}
  BY SavesTyped
<1>5. ASSUME NEW s \in DOMAIN saves', saves'[s].owner # "enqueue"
      PROVE  saves'[s].owner \in Ticks /\ saves'[s].owner # Head(saves).owner
  <2>1. s + 1 \in DOMAIN saves /\ s + 1 # 1 /\ saves'[s] = saves[s + 1]
    BY <1>3
  <2>2. saves[s + 1].owner # saves[1].owner
    BY <1>2, <1>5, <2>1 DEF SaversWait
  <2> QED
    BY <1>2, <1>4, <1>5, <2>1, <2>2
<1>6. OneRecordEach(Head(saves).snapshot.jobs)
  BY <1>2 DEF UniqueIdentity
<1>7. Head(saves).owner # "enqueue" =>
        Head(saves).owner \in Ticks /\ phase[Head(saves).owner] \in Saving
  BY <1>2, <1>4 DEF SaversWait
<1> QED
  BY <1>2, <1>3, <1>4, <1>5, <1>6, <1>7

LEMMA SaveLandsIInv ==
  ASSUME IInv, SaveLands
  PROVE  IInv'
<1> USE DEF IInv
<1> DEFINE o == Head(saves).owner
<1>1. /\ up /\ saves # <<>> /\ disk' = Head(saves).snapshot /\ saves' = Tail(saves)
      /\ UNCHANGED <<jobs, headroom, budgetResumeAt, pacingUntil, paused, began, job, up,
                     build, crashes, now, failures>>
  BY DEF SaveLands, memory, process
<1>2. /\ Head(saves) \in Save /\ OneRecordEach(Head(saves).snapshot.jobs)
      /\ o # "enqueue" => o \in Ticks /\ phase[o] \in Saving
      /\ saves' \in Seq(Save)
      /\ \A s \in DOMAIN saves' :
           /\ s + 1 \in DOMAIN saves /\ s + 1 # 1 /\ saves'[s] = saves[s + 1]
           /\ saves'[s].owner # "enqueue" => saves'[s].owner \in Ticks /\ saves'[s].owner # o
  BY <1>1, FirstSaveLeaves
<1>3. disk' \in Snapshots /\ OneRecordEach(disk'.jobs)
  BY <1>1, <1>2 DEF Save
<1>4. phase \in [Ticks -> Phases] /\ calls \in [Keys -> Int] /\ job \in [Ticks -> Job \cup {NoJob}]
  BY DEF TypeOK
<1>5. o # "enqueue" => /\ phase' = [phase EXCEPT ![o] = AfterSave(o)]
                       /\ calls' = IF phase[o] = "starting"
                                   THEN [calls EXCEPT ![Key(job[o])] = @ + 1] ELSE calls
  BY DEF SaveLands
<1>6. o = "enqueue" => UNCHANGED <<phase, calls>>
  BY DEF SaveLands
<1> HIDE DEF o
<1>7. o # "enqueue" => AfterSave(o) \in {"reset", "running", "idle"}
                       /\ (AfterSave(o) = "running" => phase[o] = "starting")
  BY <1>2 DEF AfterSave, Saving
<1>8. /\ phase' \in [Ticks -> Phases]
      /\ \A u \in Ticks : u # o => phase'[u] = phase[u]
      /\ \A u \in Ticks : Holds(u)' => Holds(u)
  <2>1. CASE o = "enqueue"
    BY <2>1, <1>4, <1>6 DEF Holds
  <2>2. CASE o # "enqueue"
    BY <2>2, <1>2, <1>4, <1>5, <1>7 DEF Holds, Phases
  <2> QED
    BY <2>1, <2>2
<1>9. calls' \in [Keys -> Int]
  BY <1>4, <1>5, <1>6
<1>10. TypeOK'
  BY <1>1, <1>2, <1>3, <1>8, <1>9 DEF TypeOK, Save
<1>11. UniqueIdentity'
  BY <1>1, <1>2, <1>3 DEF UniqueIdentity
<1>12. HeldIsInFlight' /\ OneTickPerJob'
  BY <1>1, <1>8 DEF HeldIsInFlight, OneTickPerJob
<1>13. SaversWait'
  <2>1. \A s \in DOMAIN saves' : saves'[s].owner # "enqueue" =>
          phase'[saves'[s].owner] \in Saving
    BY <1>2, <1>8 DEF SaversWait
  <2>2. \A s, r \in DOMAIN saves' :
          saves'[s].owner = saves'[r].owner /\ saves'[s].owner # "enqueue" => s = r
    <3>1. saves' \in Seq(Save) /\ \A s \in DOMAIN saves' : s \in Int
      BY <1>2
    <3>2. \A s, r \in DOMAIN saves' : s + 1 = r + 1 => s = r
      BY <3>1
    <3> QED
      BY <1>2, <3>2 DEF SaversWait
  <2> QED
    BY <2>1, <2>2 DEF SaversWait
<1>14. DownIsEmpty'
  BY <1>1 DEF DownIsEmpty
<1> QED
  BY <1>10, <1>11, <1>12, <1>13, <1>14

LEMMA SaveRejectsIInv ==
  ASSUME IInv, SaveRejects
  PROVE  IInv'
<1> USE DEF IInv
<1> DEFINE o == Head(saves).owner
<1>1. /\ up /\ saves # <<>> /\ saves' = Tail(saves) /\ failures' = failures + 1
      /\ UNCHANGED <<jobs, headroom, budgetResumeAt, pacingUntil, paused, began, disk, up,
                     build, crashes, now, calls>>
  BY DEF SaveRejects, memory, process
<1>2. /\ o # "enqueue" => o \in Ticks /\ phase[o] \in Saving
      /\ saves' \in Seq(Save)
      /\ \A s \in DOMAIN saves' :
           /\ s + 1 \in DOMAIN saves /\ s + 1 # 1 /\ saves'[s] = saves[s + 1]
           /\ saves'[s].owner # "enqueue" => saves'[s].owner \in Ticks /\ saves'[s].owner # o
  BY <1>1, FirstSaveLeaves
<1>3. phase \in [Ticks -> Phases] /\ job \in [Ticks -> Job \cup {NoJob}]
  BY DEF TypeOK
<1>4. o # "enqueue" => phase' = [phase EXCEPT ![o] = "idle"] /\ job' = [job EXCEPT ![o] = NoJob]
  BY DEF SaveRejects, Leave
<1>5. o = "enqueue" => UNCHANGED <<phase, job>>
  BY DEF SaveRejects
<1> HIDE DEF o
<1>6. /\ phase' \in [Ticks -> Phases] /\ job' \in [Ticks -> Job \cup {NoJob}]
      /\ \A u \in Ticks : u # o => phase'[u] = phase[u] /\ job'[u] = job[u]
      /\ \A u \in Ticks : Holds(u)' => Holds(u) /\ job'[u] = job[u]
  <2>1. CASE o = "enqueue"
    BY <2>1, <1>3, <1>5 DEF Holds
  <2>2. CASE o # "enqueue"
    BY <2>2, <1>2, <1>3, <1>4 DEF Holds, Phases
  <2> QED
    BY <2>1, <2>2
<1>7. failures' \in Nat
  BY <1>1 DEF TypeOK
<1>8. TypeOK'
  BY <1>1, <1>2, <1>6, <1>7 DEF TypeOK, Save
<1>9. UniqueIdentity'
  BY <1>1, <1>2 DEF UniqueIdentity
<1>10. HeldIsInFlight' /\ OneTickPerJob'
  BY <1>1, <1>6 DEF HeldIsInFlight, OneTickPerJob
<1>11. SaversWait'
  <2>1. \A s \in DOMAIN saves' : saves'[s].owner # "enqueue" =>
          phase'[saves'[s].owner] \in Saving
    BY <1>2, <1>6 DEF SaversWait
  <2>2. \A s, r \in DOMAIN saves' :
          saves'[s].owner = saves'[r].owner /\ saves'[s].owner # "enqueue" => s = r
    <3>1. saves' \in Seq(Save) /\ \A s \in DOMAIN saves' : s \in Int
      BY <1>2
    <3>2. \A s, r \in DOMAIN saves' : s + 1 = r + 1 => s = r
      BY <3>1
    <3> QED
      BY <1>2, <3>2 DEF SaversWait
  <2> QED
    BY <2>1, <2>2 DEF SaversWait
<1>12. DownIsEmpty'
  BY <1>1 DEF DownIsEmpty
<1> QED
  BY <1>8, <1>9, <1>10, <1>11, <1>12

LEMMA CrashIInv ==
  ASSUME IInv, Crash
  PROVE  IInv'
<1> USE DEF IInv
<1>1. /\ up' = FALSE /\ crashes' = crashes + 1 /\ jobs' = <<>> /\ headroom' = "none"
      /\ budgetResumeAt' = 0 /\ pacingUntil' = 0 /\ paused' = FALSE
      /\ phase' = [t \in Ticks |-> "idle"] /\ began' = [t \in Ticks |-> 0]
      /\ job' = [t \in Ticks |-> NoJob] /\ saves' = <<>>
      /\ UNCHANGED <<disk, build, now, failures, calls>>
  BY DEF Crash
<1>2. jobs' \in Seq(Job) /\ saves' \in Seq(Save) /\ DOMAIN jobs' = {} /\ DOMAIN saves' = {}
  BY <1>1
<1>3. /\ phase' \in [Ticks -> Phases] /\ began' \in [Ticks -> Nat]
      /\ job' \in [Ticks -> Job \cup {NoJob}] /\ headroom' \in Bands
  BY <1>1 DEF Phases, Bands
<1>4. crashes' \in Nat
  BY <1>1 DEF TypeOK
<1>5. TypeOK'
  BY <1>1, <1>2, <1>3, <1>4 DEF TypeOK, Save
<1>6. UniqueIdentity'
  BY <1>1, <1>2 DEF UniqueIdentity, OneRecordEach
<1>7. HeldIsInFlight' /\ OneTickPerJob'
  BY <1>1 DEF HeldIsInFlight, OneTickPerJob, Holds
<1>8. SaversWait' /\ DownIsEmpty'
  BY <1>1, <1>2 DEF SaversWait, DownIsEmpty
<1> QED
  BY <1>5, <1>6, <1>7, <1>8

LEMMA CreateIInv ==
  ASSUME IInv, NEW b \in {"old", "new"}, Create(b)
  PROVE  IInv'
<1> USE DEF IInv
<1>1. /\ ~up /\ up' = TRUE /\ build' = b /\ headroom' = disk.headroom
      /\ jobs' = [i \in DOMAIN disk.jobs |-> Recovered(disk.jobs[i], b)]
      /\ budgetResumeAt' = ResetOnRecord(jobs') /\ disk' = Snapshot(jobs', headroom')
      /\ UNCHANGED <<pacingUntil, paused, phase, began, job, saves, now, crashes,
                     failures, calls>>
  BY DEF Create, ticks
<1>2. disk.jobs \in Seq(Job) /\ disk.headroom \in Bands /\ OneRecordEach(disk.jobs)
  BY DEF TypeOK, Snapshots, UniqueIdentity
<1>3. ASSUME NEW i \in DOMAIN disk.jobs
      PROVE  jobs'[i] \in Job /\ Key(jobs'[i]) = Key(disk.jobs[i])
  <2>1. disk.jobs[i] \in Job /\ "queued" \in Status
    BY <1>2 DEF Status
  <2> QED
    BY <1>1, <2>1, RecordSteps, NumbersAssumption DEF Recovered
<1>4. jobs' = [i \in DOMAIN disk.jobs |-> jobs'[i]]
  BY <1>1
<1>5. Rewrites(disk.jobs, jobs')
  BY <1>2, <1>3, <1>4, RewriteByIndex
<1>6. jobs' \in Seq(Job) /\ OneRecordEach(jobs')
  BY <1>2, <1>5, RewriteKeepsIdentity DEF Rewrites
<1>7. budgetResumeAt' \in Nat
  <2>1. \A i \in FirstOverBudget(jobs') : jobs'[i].resumeAt \in Nat
    <3>1. \A i \in DOMAIN jobs' : jobs'[i] \in Job
      BY <1>6
    <3> QED
      BY <3>1 DEF FirstOverBudget, Job
  <2>2. FirstOverBudget(jobs') # {} =>
          (CHOOSE i \in FirstOverBudget(jobs') : TRUE) \in FirstOverBudget(jobs')
    OBVIOUS
  <2> QED
    BY <1>1, <2>1, <2>2 DEF ResetOnRecord
<1>8. disk' \in Snapshots /\ disk'.jobs = jobs'
  BY <1>1, <1>2, <1>6 DEF Snapshot, Snapshots
<1>9. TypeOK'
  BY <1>1, <1>2, <1>6, <1>7, <1>8 DEF TypeOK
<1>10. UniqueIdentity'
  BY <1>1, <1>6, <1>8 DEF UniqueIdentity
<1>11. HeldIsInFlight' /\ OneTickPerJob'
  BY <1>1 DEF DownIsEmpty, HeldIsInFlight, OneTickPerJob, Holds
<1>12. SaversWait' /\ DownIsEmpty'
  BY <1>1 DEF SaversWait, DownIsEmpty
<1> QED
  BY <1>9, <1>10, <1>11, <1>12

\* A step that touches no record, no call of tick and no save.
LEMMA QuietIInv ==
  ASSUME IInv, paused' \in BOOLEAN, now' \in Nat,
         UNCHANGED <<jobs, headroom, budgetResumeAt, pacingUntil, phase, began, job, saves,
                     disk, up, build, crashes, failures, calls>>
  PROVE  IInv'
<1> USE DEF IInv
<1>1. TypeOK'
  BY DEF TypeOK
<1>2. UniqueIdentity'
  BY DEF UniqueIdentity
<1>3. HeldIsInFlight' /\ OneTickPerJob'
  BY DEF HeldIsInFlight, OneTickPerJob, Holds
<1>4. SaversWait' /\ DownIsEmpty'
  BY DEF SaversWait, DownIsEmpty
<1> QED
  BY <1>1, <1>2, <1>3, <1>4

LEMMA NextIInv == IInv /\ [Next]_vars => IInv'
<1> SUFFICES ASSUME IInv, [Next]_vars
             PROVE  IInv'
  OBVIOUS
<1>1. paused \in BOOLEAN /\ now \in Nat /\ build \in {"old", "new"}
  BY DEF IInv, TypeOK
<1>2. CASE \E in \in Inputs : Enqueue(in)
  BY <1>2, EnqueueIInv
<1>3. CASE \E t \in Ticks : TickBegins(t)
  BY <1>3, TickBeginsIInv
<1>4. CASE \E t \in Ticks : TickResumes(t)
  BY <1>4, TickResumesIInv
<1>5. CASE \E t \in Ticks : RunnerAnswers(t)
  BY <1>5, RunnerAnswersIInv
<1>6. CASE SaveLands
  BY <1>6, SaveLandsIInv
<1>7. CASE SaveRejects
  BY <1>7, SaveRejectsIInv
<1>8. CASE Crash
  BY <1>8, CrashIInv
<1>9. CASE Restart
  BY <1>1, <1>9, CreateIInv DEF Restart
<1>10. CASE Pause
  BY <1>1, <1>10, QuietIInv DEF Pause, memory, ticks, store, process
<1>11. CASE Resume
  BY <1>1, <1>11, QuietIInv DEF Resume, memory, ticks, store, process
<1>12. CASE ClockAdvances
  BY <1>1, <1>12, QuietIInv DEF ClockAdvances, memory, ticks, store, process
<1>13. CASE UNCHANGED vars
  BY <1>1, <1>13, QuietIInv DEF vars
<1> QED
  BY <1>2, <1>3, <1>4, <1>5, <1>6, <1>7, <1>8, <1>9, <1>10, <1>11, <1>12, <1>13 DEF Next

-----------------------------------------------------------------------------
(* Theorems. *)

THEOREM Invariance == Spec => []IInv
BY InitIInv, NextIInv, PTL DEF Spec

\* Every value the engine, the saves under way and the file ever hold is of its
\* type (engine.ts, `StoredJob` and the fields of `IngestionQueueEngine`).
THEOREM TypeCorrect == Spec => []TypeOK
<1>1. IInv => TypeOK
  BY DEF IInv
<1> QED
  BY <1>1, Invariance, PTL

\* One record per (contentHash, workflowVersion) in memory, on disk and in every
\* save under way, over overlapping ticks, enqueues, lost saves and restarts
\* (`sameStoredJob`, `enqueue`'s dedup, `replace`).
THEOREM IdentityIsUnique == Spec => []UniqueIdentity
<1>1. IInv => UniqueIdentity
  BY DEF IInv
<1> QED
  BY <1>1, Invariance, PTL

\* However many calls of `tick` overlap, no two run one job, and the record one
\* of them holds across its awaits is still the record in memory.
THEOREM NoJobRunsTwiceAtOnce == Spec => []OneTickPerJob
<1>1. IInv => OneTickPerJob
  BY DEF IInv
<1> QED
  BY <1>1, Invariance, PTL
=============================================================================
