-------------------------- MODULE CompositionWrites --------------------------
(***************************************************************************)
(* Writing the record of a composed study session: the recorder            *)
(* (packages/plugin/src/session/composition-recorder.ts), its journal of   *)
(* unresolved writes and the reconciliation a restart runs                 *)
(* (composition-write-reconciliation.ts), and the review tab that calls    *)
(* the recorder (packages/plugin/src/review/open-session.ts).              *)
(*                                                                         *)
(* A call of `openReviewSession` is cut at each vault access.  A write may *)
(* land, be refused, or land and report failure; the process may die.      *)
(*                                                                         *)
(* Abstractions.  A record is its id and its session's.  The daily files   *)
(* are one log, since they are read in the order of their dates.  The      *)
(* journal is kept folded, as `readUnresolvedCompositionWrites` reads it;  *)
(* a torn line reads as no line.  A call that joins the write in flight of *)
(* its session (`once`), or finds nothing to write, changes nothing.       *)
(***************************************************************************)
EXTENDS Integers, Sequences, FiniteSets, SequencesExt

CONSTANTS
  Object,        \* the session objects that can be referenced at once
  NoObject,      \* no sitting
  Calls,         \* the calls of `openReviewSession` that can overlap
  MaxAttempts,   \* MAX_COMPOSITION_WRITE_ATTEMPTS
  Alone,         \* whether "keep going" overlaps no other call
  \* Bounds.
  MaxRecords,    \* records built
  MaxFailures,   \* failures of the daily log
  MaxRefusals,   \* journal lines refused
  MaxCrashes     \* process deaths

ASSUME Assumption ==
  /\ NoObject \notin Object
  /\ MaxAttempts \in Nat \ {0}
  /\ Alone \in BOOLEAN
  /\ {MaxRecords, MaxFailures, MaxRefusals, MaxCrashes} \subseteq Nat

VARIABLES
  log,       \* the composition log
  open,      \* the journaled writes that are open, first journaled first
  resolved,  \* the ids the journal has marked resolved
  stamped,   \* the ids stamped on reviews
  sitting,   \* the session object the holder holds
  session,   \* per object: its record, and the records not written for it
  call,      \* where each call stands
  pass,      \* where reconciliation stands
  up, minted, failures, refusals, crashes

durable == <<log, open, resolved, stamped>>
counted == <<failures, refusals, crashes>>
vars == <<log, open, resolved, stamped, sitting, session, call, pass, up, minted,
          failures, refusals, crashes>>

-----------------------------------------------------------------------------
(* Records, sessions and their unwritten records. *)

Ids == 1..MaxRecords

Record == [id : Ids, session : Ids]

NoRecord == [id |-> 0, session |-> 0]

Unjournaled == [i \in Ids |-> "none"]

\* `UnwrittenRecords`; no records is no entry in `unwrittenBySession`.
Nothing == [records |-> <<>>, failed |-> 0, journaled |-> Unjournaled]

Unrecorded == [record |-> NoRecord, unwritten |-> Nothing]

Latest(s) ==
  IF s.unwritten.records = <<>> THEN s.record ELSE Last(s.unwritten.records)

\* `compositionIdentityOf`.
IdentityOf(s) == {Latest(s).id} \ {0}

ExhaustedState(failed) == IF failed >= MaxAttempts THEN "exhausted" ELSE "retrying"

Idle == [at |-> "idle", before |-> NoObject, base |-> NoObject, written |-> NoRecord,
         unwritten |-> Nothing, next |-> 1]

Referenced(s, c) == {s} \cup UNION {{c[k].before, c[k].base} : k \in Calls}

\* The WeakMaps: what no longer is referenced takes its records with it.
Collected(heap) ==
  [o \in Object |-> IF o \in Referenced(sitting', call') THEN heap[o] ELSE Unrecorded]

\* Objects for new sessions.
Free == Object \ Referenced(sitting, call)
Fresh == CHOOSE o \in Free : TRUE

InFlight(o) == \E k \in Calls : call[k].base = o

\* A call of "keep going" under way.
Growing(k) == call[k].before \notin {NoObject, call[k].base}

-----------------------------------------------------------------------------
(* The journal. *)

\* `journalUnresolvedCompositionWrite`, folded: a resolved id stays resolved,
\* an open one keeps its place.
JournalsUnresolved(r) ==
  open' = IF r.id \in resolved \/ Contains(open, r) THEN open ELSE Append(open, r)

\* `journalResolvedCompositionWrite`, folded.
JournalsResolved(r) ==
  /\ resolved' = resolved \cup {r.id}
  /\ open' = RemoveFirst(open, r)

\* A journal line lands or is refused; nobody throws.
Line(lands) ==
  \/ lands /\ UNCHANGED refusals
  \/ /\ refusals < MaxRefusals /\ refusals' = refusals + 1
     /\ UNCHANGED <<open, resolved>>

-----------------------------------------------------------------------------
(* The recorder. *)

\* The caller has its session: the holder takes it if it is another object, and
\* the reviews it serves are stamped.
Return(c, o, s) ==
  /\ call' = [call EXCEPT ![c] = Idle]
  /\ sitting' = IF o = call[c].before THEN sitting ELSE o
  /\ session' = Collected([session EXCEPT ![o] = s])
  /\ stamped' = stamped \cup IdentityOf(s)

\* Bug: a spent bound stops nothing.
FlushUnbounded(c, before, base, s, unwritten) ==
  /\ call' = [call EXCEPT ![c] =
                [Idle EXCEPT !.at = IF unwritten.failed > 0 THEN "checking" ELSE "appending",
                             !.before = before, !.base = base, !.written = s.record,
                             !.unwritten = unwritten]]
  /\ UNCHANGED <<sitting, stamped>>
  /\ session' = Collected([session EXCEPT ![base] = s])

\* `flush`: nothing is written once the attempts are spent.
Flush(c, before, base, s, unwritten) ==
  IF unwritten.failed >= MaxAttempts
  THEN Return(c, base, [s EXCEPT !.unwritten = unwritten])
  ELSE /\ call' = [call EXCEPT ![c] =
                     [Idle EXCEPT !.at = IF unwritten.failed > 0 THEN "checking" ELSE "appending",
                                  !.before = before, !.base = base, !.written = s.record,
                                  !.unwritten = unwritten]]
       /\ UNCHANGED <<sitting, stamped>>
       /\ session' = Collected([session EXCEPT ![base] = s])

Queue(u, r) == [u EXCEPT !.records = Append(@, r)]

\* `recordStart` on the sitting: what is unwritten is tried again, a session
\* without a record gets its first.
Retry(c, o) ==
  /\ session[o].unwritten.records # <<>>
  /\ Flush(c, o, o, session[o], session[o].unwritten)
  /\ UNCHANGED minted

First(c, before, base) ==
  /\ minted < MaxRecords
  /\ minted' = minted + 1
  /\ Flush(c, before, base, Unrecorded, Queue(Nothing, [id |-> minted', session |-> minted']))

StartOn(c, o) ==
  /\ ~InFlight(o)
  /\ \/ Retry(c, o)
     \/ session[o] = Unrecorded /\ First(c, o, o)

\* The tab opens onto the sitting, or composes one.
Opens(c) ==
  /\ up /\ call[c].at = "idle"
  /\ Alone => \A k \in Calls : ~Growing(k)
  /\ \/ sitting # NoObject /\ StartOn(c, sitting)
     \/ sitting = NoObject /\ Free # {} /\ First(c, NoObject, Fresh)
  /\ UNCHANGED <<log, open, resolved, pass, up, counted>>

\* "Keep going": the extension of the sitting is composed, then recorded.
KeepsGoing(c) ==
  /\ up /\ call[c].at = "idle" /\ sitting # NoObject
  /\ Alone => call = [k \in Calls |-> Idle]
  /\ call' = [call EXCEPT ![c] = [Idle EXCEPT !.at = "extending", !.before = sitting]]
  /\ UNCHANGED <<durable, sitting, session, pass, up, minted, counted>>

\* No extension came: the sitting is opened as it is.
ExtendsNothing(c) ==
  LET o == call[c].before IN
  /\ up /\ call[c].at = "extending"
  /\ \/ StartOn(c, o)
     \/ /\ session[o].unwritten.records = <<>> /\ session[o].record # NoRecord
        /\ Return(c, o, session[o])
        /\ UNCHANGED minted
  /\ UNCHANGED <<log, open, resolved, pass, up, counted>>

\* `recordExtension`, the list grown: its record is built on the latest one and
\* queued behind what is unwritten.
ExtendsGrown(c) ==
  LET s == session[call[c].before]
  IN  /\ up /\ call[c].at = "extending" /\ Free # {}
      /\ Latest(s) # NoRecord
      /\ minted < MaxRecords
      /\ minted' = minted + 1
      /\ Flush(c, call[c].before, Fresh, [s EXCEPT !.unwritten = Nothing],
               Queue(s.unwritten, [id |-> minted', session |-> Latest(s).session]))
      /\ UNCHANGED <<log, open, resolved, pass, up, counted>>

\* The list is the same: only what is unwritten is tried again.
ExtendsSame(c) ==
  LET s == session[call[c].before]
  IN  /\ up /\ call[c].at = "extending" /\ Free # {}
      /\ Latest(s) # NoRecord
      /\ IF s.unwritten.records = <<>>
         THEN Return(c, Fresh, s)
         ELSE Flush(c, call[c].before, Fresh, [s EXCEPT !.unwritten = Nothing], s.unwritten)
      /\ UNCHANGED <<log, open, resolved, pass, up, minted, counted>>

\* There is no parent, or no record can be built: what is unwritten goes with
\* the extended session.
ExtendsUnrecorded(c) ==
  /\ up /\ call[c].at = "extending" /\ Free # {}
  /\ Return(c, Fresh, session[call[c].before])
  /\ UNCHANGED <<log, open, resolved, pass, up, minted, counted>>

Extends(c) ==
  ExtendsNothing(c) \/ ExtendsGrown(c) \/ ExtendsSame(c) \/ ExtendsUnrecorded(c)

Current(c) == Head(call[c].unwritten.records)

\* The record is in the log: the next one, or the session with its records.
Written(c) ==
  LET w == [call[c] EXCEPT !.written = Current(c), !.unwritten.records = Tail(@)]
  IN  IF w.unwritten.records = <<>>
      THEN Return(c, Fresh, [record |-> w.written, unwritten |-> Nothing])
      ELSE /\ call' = [call EXCEPT ![c] =
                         [w EXCEPT !.at = IF w.unwritten.failed > 0 THEN "checking" ELSE "appending"]]
           /\ UNCHANGED <<sitting, session, stamped>>

Landed(c) ==
  IF call[c].unwritten.journaled[Current(c).id] = "none"
  THEN Written(c)
  ELSE /\ call' = [call EXCEPT ![c].at = "marking"]
       /\ UNCHANGED <<sitting, session, stamped>>

Fails ==
  /\ failures < MaxFailures /\ failures' = failures + 1
  /\ UNCHANGED <<refusals, crashes>>

FailsToWrite(c) ==
  /\ Fails
  /\ call' = [call EXCEPT ![c].at = "journaling", ![c].next = 1, ![c].unwritten.failed = @ + 1]
  /\ UNCHANGED <<sitting, session, stamped>>

InLog(r) == Contains(log, r)

\* Bug: a retry does not look whether its record is in the log.
ChecksNothing(c) ==
  /\ up /\ call[c].at = "checking"
  /\ call' = [call EXCEPT ![c].at = "appending"]
  /\ UNCHANGED <<durable, sitting, session, pass, up, minted, counted>>

\* `writeOnce`, on a retry.
Checks(c) ==
  /\ up /\ call[c].at = "checking"
  /\ \/ InLog(Current(c)) /\ Free # {} /\ Landed(c) /\ UNCHANGED counted
     \/ /\ ~InLog(Current(c))
        /\ call' = [call EXCEPT ![c].at = "appending"]
        /\ UNCHANGED <<sitting, session, stamped, counted>>
     \/ FailsToWrite(c)
  /\ UNCHANGED <<log, open, resolved, pass, up, minted>>

\* `appendCompositionRecord`, one task on the file's queue.
Appends(c) ==
  /\ up /\ call[c].at = "appending"
  /\ \/ log' = Append(log, Current(c)) /\ Free # {} /\ Landed(c) /\ UNCHANGED counted
     \/ log' = Append(log, Current(c)) /\ FailsToWrite(c)
     \/ log' = log /\ FailsToWrite(c)
  /\ UNCHANGED <<open, resolved, pass, up, minted>>

MarksResolved(c) ==
  /\ up /\ call[c].at = "marking" /\ Free # {}
  /\ Line(JournalsResolved(Current(c)))
  /\ Written(c)
  /\ UNCHANGED <<log, pass, up, minted, failures, crashes>>

\* `journalUnresolved`: the records the journal does not have in this state.
ToJournal(c) ==
  LET u == call[c].unwritten
  IN  {i \in call[c].next..Len(u.records) :
         u.journaled[u.records[i].id] # ExhaustedState(u.failed)}

\* Bug: a line is taken for journaled whether or not it landed.
JournalsLineUnheeding(c) ==
  /\ up /\ call[c].at = "journaling"
  /\ \E i \in ToJournal(c) :
       LET r == call[c].unwritten.records[i] IN
       /\ \A k \in ToJournal(c) : i <= k
       /\ Line(JournalsUnresolved(r) /\ UNCHANGED resolved)
       /\ call' = [call EXCEPT ![c].next = i + 1,
                     ![c].unwritten.journaled[r.id] = ExhaustedState(call[c].unwritten.failed)]
  /\ UNCHANGED <<log, stamped, sitting, session, pass, up, minted, failures, crashes>>

JournalsLine(c) ==
  /\ up /\ call[c].at = "journaling"
  /\ \E i \in ToJournal(c) :
       LET r == call[c].unwritten.records[i] IN
       /\ \A k \in ToJournal(c) : i <= k
       /\ \/ /\ JournalsUnresolved(r)
             /\ call' = [call EXCEPT ![c].next = i + 1,
                           ![c].unwritten.journaled[r.id] = ExhaustedState(call[c].unwritten.failed)]
             /\ UNCHANGED <<resolved, refusals>>
          \/ /\ Line(FALSE)
             /\ call' = [call EXCEPT ![c].next = i + 1]
  /\ UNCHANGED <<log, stamped, sitting, session, pass, up, minted, failures, crashes>>

\* What is left is queued against the session returned.
GivesUp(c) ==
  LET w == call[c]
      s == [record |-> w.written, unwritten |-> w.unwritten]
  IN  /\ up /\ w.at = "journaling" /\ ToJournal(c) = {} /\ Free # {}
      /\ IF w.written = session[w.base].record
         THEN Return(c, w.base, s) ELSE Return(c, Fresh, s)
      /\ UNCHANGED <<log, open, resolved, pass, up, minted, counted>>

-----------------------------------------------------------------------------
(* The holder: a sitting is entered without a record (Start on Home, or a  *)
(* composition that cannot be recorded), or ends.                          *)

Enters ==
  /\ up /\ Free # {}
  /\ sitting' = Fresh
  /\ call' = call
  /\ session' = Collected([session EXCEPT ![sitting'] = Unrecorded])
  /\ UNCHANGED <<durable, pass, up, minted, counted>>

Exits ==
  /\ up
  /\ sitting' = NoObject
  /\ call' = call
  /\ session' = Collected(session)
  /\ UNCHANGED <<durable, pass, up, minted, counted>>

-----------------------------------------------------------------------------
(* The process, and reconciliation at plugin start. *)

NoPass == [at |-> "checking", todo |-> <<>>, held |-> {}]

Crashes ==
  /\ up /\ crashes < MaxCrashes
  /\ crashes' = crashes + 1
  /\ up' = FALSE
  /\ sitting' = NoObject
  /\ session' = [o \in Object |-> Unrecorded]
  /\ call' = [k \in Calls |-> Idle]
  /\ pass' = NoPass
  /\ UNCHANGED <<durable, minted, failures, refusals>>

\* The journal is read as the plugin loads, before a sitting of this run can
\* have failed a write; one that cannot be read is left for the next start.
Restarts ==
  /\ ~up
  /\ up' = TRUE
  /\ \/ pass' = [NoPass EXCEPT !.todo = open] /\ UNCHANGED counted
     \/ pass' = NoPass /\ Fails
  /\ UNCHANGED <<durable, sitting, session, call, minted>>

Reconciling == up /\ pass.todo # <<>>
Write == Head(pass.todo)

Done == pass' = [pass EXCEPT !.at = "checking", !.todo = Tail(@)]

\* Bug: a session whose earlier record did not land is not held back.
DoesNotHold == Done

\* A session whose earlier record did not land holds back its later ones.
Holds ==
  pass' = [at |-> "checking", todo |-> Tail(pass.todo), held |-> pass.held \cup {Write.session}]

ReconcileSkips ==
  /\ Reconciling /\ pass.at = "checking"
  /\ Write.session \in pass.held
  /\ Done
  /\ UNCHANGED <<durable, sitting, session, call, up, minted, counted>>

ReconcileChecks ==
  /\ Reconciling /\ pass.at = "checking"
  /\ Write.session \notin pass.held
  /\ \/ /\ pass' = [pass EXCEPT !.at = IF InLog(Write) THEN "marking" ELSE "appending"]
        /\ UNCHANGED counted
     \/ Holds /\ Fails
  /\ UNCHANGED <<durable, sitting, session, call, up, minted>>

\* Bug: a write whose append failed is marked all the same.
ReconcileAppendsAnyhow ==
  /\ Reconciling /\ pass.at = "appending"
  /\ pass' = [pass EXCEPT !.at = "marking"]
  /\ \/ log' = Append(log, Write) /\ UNCHANGED counted
     \/ log' = log /\ Fails
  /\ UNCHANGED <<open, resolved, stamped, sitting, session, call, up, minted>>

ReconcileAppends ==
  /\ Reconciling /\ pass.at = "appending"
  /\ \/ /\ log' = Append(log, Write)
        /\ \/ pass' = [pass EXCEPT !.at = "marking"] /\ UNCHANGED counted
           \/ Holds /\ Fails
     \/ log' = log /\ Holds /\ Fails
  /\ UNCHANGED <<open, resolved, stamped, sitting, session, call, up, minted>>

ReconcileMarks ==
  /\ Reconciling /\ pass.at = "marking"
  /\ Line(JournalsResolved(Write))
  /\ Done
  /\ UNCHANGED <<log, stamped, sitting, session, call, up, minted, failures, crashes>>

-----------------------------------------------------------------------------
Init ==
  /\ log = <<>> /\ open = <<>> /\ resolved = {} /\ stamped = {}
  /\ sitting = NoObject
  /\ session = [o \in Object |-> Unrecorded]
  /\ call = [k \in Calls |-> Idle]
  /\ pass = NoPass
  /\ up = TRUE
  /\ minted = 0 /\ failures = 0 /\ refusals = 0 /\ crashes = 0

Next ==
  \/ \E c \in Calls :
       \/ Opens(c) \/ KeepsGoing(c) \/ Extends(c)
       \/ Checks(c) \/ Appends(c) \/ MarksResolved(c)
       \/ JournalsLine(c) \/ GivesUp(c)
  \/ Enters \/ Exits
  \/ Crashes \/ Restarts
  \/ ReconcileSkips \/ ReconcileChecks \/ ReconcileAppends \/ ReconcileMarks

Spec == Init /\ [][Next]_vars

-----------------------------------------------------------------------------
(* Types *)

Unwritten ==
  [records : Seq(Record), failed : 0..MaxAttempts,
   journaled : [Ids -> {"none", "retrying", "exhausted"}]]

TypeOK ==
  /\ log \in Seq(Record) /\ open \in Seq(Record)
  /\ resolved \subseteq Ids /\ stamped \subseteq Ids
  /\ sitting \in Object \cup {NoObject}
  /\ session \in [Object -> [record : Record \cup {NoRecord}, unwritten : Unwritten]]
  /\ call \in [Calls ->
       [at : {"idle", "extending", "checking", "appending", "marking", "journaling"},
        before : Object \cup {NoObject}, base : Object \cup {NoObject},
        written : Record \cup {NoRecord}, unwritten : Unwritten, next : Nat]]
  /\ pass \in [at : {"checking", "appending", "marking"}, todo : Seq(Record), held : SUBSET Ids]
  /\ up \in BOOLEAN
  /\ minted \in Nat /\ failures \in Nat /\ refusals \in Nat /\ crashes \in Nat

(* Safety *)

\* "An id must resolve to exactly one record": over retries of writes that
\* landed and reported failure, crashes and reconciliations, none lands twice.
LandsOnce == \A i, k \in DOMAIN log : log[i] = log[k] => i = k

\* "An extension is never written ahead of the record it grew": while the journal takes every
\* line, the records of a session are in the log in the order they were built.
InOrder ==
  refusals = 0 =>
    \A k \in DOMAIN log :
      /\ \A i \in DOMAIN log : log[i].session = log[k].session /\ log[i].id < log[k].id => i < k
      /\ \E i \in DOMAIN log : log[i].id = log[k].session

\* The journal can be trusted: what it marks resolved is in the log, so an open write stays
\* open until its record is there, over any number of restarts; and a record the session
\* still has to write, and believes journaled, is found by the restart should the process
\* die now.
JournalIsTrue ==
  /\ \A id \in resolved : \E i \in DOMAIN log : log[i].id = id
  /\ \A o \in Object, r \in Record :
       /\ Contains(session[o].unwritten.records, r)
       /\ session[o].unwritten.journaled[r.id] # "none"
       => Contains(open, r) \/ InLog(r)

(* What the code's own documentation says, and the code does otherwise. *)

\* "Exhausted retries leave an explicit unresolved write, never a dangling id":
\* a stamped id names a record, or an unresolved write.
NeverDangling ==
  \A id \in stamped :
    \/ \E i \in DOMAIN log : log[i].id = id
    \/ \E i \in DOMAIN open : open[i].id = id
    \/ \E o \in Referenced(sitting, call) \ {NoObject} :
         \E i \in DOMAIN session[o].unwritten.records : session[o].unwritten.records[i].id = id
=============================================================================
