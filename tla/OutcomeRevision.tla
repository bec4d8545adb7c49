----------------------------- MODULE OutcomeRevision -----------------------------
(***************************************************************************)
(* The outcomes a document states, as its versions come and go: the store  *)
(* of its unit manifest (packages/plugin/src/grove/unit-manifest-store.ts),*)
(* the deliveries of its pages and the extraction of their outcomes        *)
(* (plugin/src/ingestion/wiring.ts, vision-page-runner.ts), and the        *)
(* outcome records they stamp, reinstate and retire                        *)
(* (core/src/outcome/store.ts, retire-on-revision.ts).                     *)
(*                                                                         *)
(* Several deliveries run at once, each between two awaits; the tasks of   *)
(* the store go one at a time, and read the file before they write.  The   *)
(* file changes at any instant, and its events come later.                 *)
(*                                                                         *)
(* Abstractions.  An outcome is one wording on one block.  A delivery of   *)
(* a version brings its text pages together, or one page read from its     *)
(* image; any may be made again, as the job queue makes them.  The outcome *)
(* folder's task is one step.  Left out: concept extraction, several       *)
(* devices, a log that cannot be loaded, a call the service was never set  *)
(* up for.                                                                 *)
(***************************************************************************)
EXTENDS UnitManifest

CONSTANTS
  Outcomes,
  States,   \* States[v][d]: the outcomes delivery d of version v states
  Calls,    \* the deliveries under way at once
  First,    \* the version the file starts with
  \* Bounds.
  MaxEdits, MaxDeliveries, MaxMishaps,
  MaxMoves   \* of the three together

Text == 0  \* the delivery of the text pages; the others are named by their page

\* The pages whose text a version's text delivery brings, and those that owe an image.
TextPages(v) == {p \in DOMAIN Route[v] : Route[v][p] \in {"text", "both"}}
ImagePages(v) == {p \in DOMAIN Route[v] : Route[v][p] \in {"image", "both"}}

Deliveries(v) == (IF TextPages(v) = {} THEN {} ELSE {Text}) \cup ImagePages(v)

ASSUME OutcomeRevisionAssumption ==
  /\ DOMAIN States = Versions
  /\ \A v \in Versions : States[v] \in [{Text} \cup DOMAIN Route[v] -> SUBSET Outcomes]
  /\ First \in Versions
  /\ {MaxEdits, MaxDeliveries, MaxMishaps, MaxMoves} \subseteq Nat

VARIABLES
  file,       \* the version the file is; None while it is gone
  events,     \* the vault's events not yet delivered
  disk,       \* the log of the manifest
  fold,       \* the records of it the store holds
  verified, unenumerable,
  tasks,      \* the store's queue
  call,       \* the deliveries
  outcome,    \* the outcome records
  edits, made, mishaps,
  missed,     \* history: a modify event came while a listing held the older bytes
  borrowed,   \* history: versions with marks a delivery could not vouch for
  late,       \* history: outcomes last written by a delivery of a version no longer live
  skipped     \* history: versions with a retire pass that was lost, and no complete one since

store == <<disk, fold, verified, unenumerable, tasks>>
vars == <<file, events, store, call, outcome, edits, made, mishaps, missed, borrowed, late, skipped>>

NoCall == [at |-> "idle", brings |-> Text, how |-> "text", of |-> None, found |-> {},
           standing |-> "unplaced", current |-> None, listed |-> 0, known |-> {}]

\* A task of the store: a listing for the census, a reading of a page, the questions and the
\* marks of a delivery, a removal.
Task(do) == [do |-> do, call |-> None, page |-> Text, how |-> "image", from |-> None,
             at |-> "waiting", bytes |-> None]

Reading(c, how) == [Task("reading") EXCEPT !.page = call[c].brings, !.how = how, !.from = call[c].of]

For(do, c) == [Task(do) EXCEPT !.call = c]

\* Bug: a task starts at once.
AsksFirst(task) == tasks' = <<task>> \o tasks

\* `run`: one task at a time, in the order asked.
Asks(task) == tasks' = Append(tasks, task)

Moves(c, at) == call' = [call EXCEPT ![c] = IF at = "idle" THEN NoCall ELSE [@ EXCEPT !.at = at]]

Moved == edits + made + mishaps

Mishap == mishaps < MaxMishaps /\ Moved < MaxMoves /\ mishaps' = mishaps + 1

-----------------------------------------------------------------------------
(* The file, and the events of the vault. *)

Edits ==
  /\ edits < MaxEdits /\ Moved < MaxMoves /\ edits' = edits + 1
  /\ \E v \in (Versions \cup {None}) \ {file} :
       /\ file' = v
       /\ events' = Append(events, CASE v = None    -> "delete"
                                     [] file = None -> "create"
                                     [] OTHER       -> "modify")
  /\ UNCHANGED <<store, call, outcome, made, mishaps, missed, borrowed, late, skipped>>

\* A task is at work on bytes the file no longer holds.
ListsOldBytes == tasks # <<>> /\ Head(tasks).at = "hashed" /\ Head(tasks).bytes # file

\* Bug: changed bytes stay trusted.
StillTrusts == unenumerable' = FALSE /\ UNCHANGED verified

\* A modify event withdraws the trust in a source.
Distrusts == unenumerable' = FALSE /\ verified' = FALSE

\* `observe`.
Observes ==
  /\ events # <<>> /\ events' = Tail(events)
  /\ CASE Head(events) = "modify" ->
            /\ Distrusts
            /\ missed' = (missed \/ ListsOldBytes)
            /\ UNCHANGED tasks
       [] Head(events) = "create" ->
            unenumerable' = FALSE /\ UNCHANGED <<verified, tasks, missed>>
       [] Head(events) = "delete" ->
            Asks(Task("remove")) /\ UNCHANGED <<verified, unenumerable, missed>>
  /\ UNCHANGED <<file, disk, fold, call, outcome, edits, made, mishaps, borrowed, late, skipped>>

-----------------------------------------------------------------------------
(* The store: one task at a time. *)

\* `manifestsFor`: a reader asks for a source that is not verified.
Census ==
  /\ ~verified /\ ~unenumerable
  /\ tasks = <<>>
  /\ Asks(Task("list"))
  /\ UNCHANGED <<file, events, disk, fold, verified, unenumerable, call, outcome, edits, made,
                 mishaps, missed, borrowed, late, skipped>>

\* A removal looks at nothing, and a reading goes under the live revision when it is verified;
\* any other task hashes the file.
Rehashes(t) ==
  CASE t.do = "remove"  -> FALSE
    [] t.do = "reading" -> Live(fold) = None \/ ~verified
    [] OTHER            -> TRUE

\* Nothing is asked of a source the store could not list.
Barred(t) == unenumerable /\ t.do \in {"reading", "place", "mark", "settle"}

\* The task under way.
Underway == Head(tasks)
Hashed == tasks # <<>> /\ Underway.at = "hashed"

MustHash(t) == t.at = "waiting" /\ ~Barred(t) /\ Rehashes(t) /\ file # None

\* `ensureEnumerated`, to the hash of the bytes.
Hashes ==
  /\ tasks # <<>> /\ MustHash(Underway)
  /\ tasks' = [tasks EXCEPT ![1].at = "hashed", ![1].bytes = file]
  /\ UNCHANGED <<file, events, disk, fold, verified, unenumerable, call, outcome, edits, made,
                 mishaps, missed, borrowed, late, skipped>>

\* The retirement of the live revision, if there is one.
Retiring == IF Live(fold) = None THEN <<>> ELSE <<Retirement(Live(fold))>>

\* What a look at the file leaves: the records it writes, and whether the source is verified and
\* could not be listed.
Look(records, ok, barred) == [records |-> records, verified |-> ok, unenumerable |-> barred]

\* `ensureEnumerated`, from the hash on: bytes already live write nothing, a file that is gone
\* is not enumerated.
Looked(t) ==
  CASE t.at = "hashed" /\ Live(fold) = t.bytes -> Look(<<>>, TRUE, unenumerable)
    [] t.at = "hashed" /\ Live(fold) # t.bytes -> Look(Retiring \o Enumeration(t.bytes), TRUE, FALSE)
    [] t.at # "hashed" /\ (Barred(t) \/ ~Rehashes(t)) -> Look(<<>>, verified, unenumerable)
    [] OTHER -> Look(<<>>, FALSE, TRUE)

\* The extractor threw: the older revision is retired, and nothing new is claimed.
Unlisted == Look(Retiring, FALSE, TRUE)

\* `sameReading`.
SameReading(log, v, p, reading) == Entry(log, v, p).reading = {reading}

\* `applyReading`: without a live revision a reading has no place.
ReadingRecords(t, log) ==
  LET v == Live(log)  reading == [how |-> t.how, bytes |-> t.from] IN
  IF v = None \/ Barred(t) THEN <<>>
  ELSE <<Unit(v, t.page, reading, SameReading(log, v, t.page, reading) /\ Entry(log, v, t.page).marked)>>

\* The pages a delivery carries.
Carried(c) == IF call[c].brings = Text THEN TextPages(call[c].of) ELSE {call[c].brings}

\* Only a page read in full, not already marked for its reading.
Markable(log, v, p) ==
  LET e == Entry(log, v, p) IN (\E r \in e.reading : InFull(r)) /\ ~e.marked

\* The delivery is of the bytes the file has, as this task hashed them.
StillLive(c, v) == v = call[c].of

\* `applyOutcomeExtraction`, of the version this task verified.
MarkRecords(c, log, v) ==
  IF v = None \/ ~StillLive(c, v) THEN <<>>
  ELSE LET due == {p \in Carried(c) \cap Named(log, v) : Markable(log, v, p)}
           pages == SetToSeq(due)
       IN [n \in 1..Cardinality(due) |->
             Unit(v, pages[n], CHOOSE r \in Entry(log, v, pages[n]).reading : TRUE, TRUE)]

\* `currentOutcomeRevision`: the live revision, when this task could verify it.
Current(t, look) ==
  IF look.verified /\ ~Barred(t) THEN Live(fold \o look.records) ELSE None

\* What a task writes once the file was looked at.
Work(t, look) ==
  LET log == fold \o look.records IN
  CASE t.do = "reading" -> ReadingRecords(t, log)
    [] t.do = "mark"    -> MarkRecords(t.call, log, Current(t, look))
    [] t.do = "remove"  -> Retiring
    [] OTHER            -> <<>>

\* The versions whose marks a delivery cannot vouch for: a page's reading is not the one it was
\* extracted from, or the version was listed again since it was placed.
Borrows(t, look, work) ==
  IF t.do # "mark" \/ work = <<>> THEN {}
  ELSE LET v == Current(t, look) IN
       {w \in {v} : \/ \E n \in DOMAIN work : work[n].reading # [how |-> call[t.call].how, bytes |-> v]
                    \/ Threshold(fold \o look.records, v) # call[t.call].listed}

\* The version a delivery that marks its pages, or settles, runs the retire pass for.
PassOf(t) == IF t.do \in {"mark", "settle"} THEN {call[t.call].of} ELSE {}

\* The versions whose pass ends since the current one is not known.
Skips(t, v) == IF t.do = "settle" /\ v = None THEN PassOf(t) ELSE {}

\* Bug: a version no longer current is open to its late deliveries.
StandingAny(log, v, of) == IF v = None THEN "unplaced" ELSE "open"

\* `outcomeDeliveryStanding`.
Standing(log, v, of) ==
  CASE v = None             -> "unplaced"
    [] v # None /\ v # of   -> "late"
    [] v = of /\ v # None   -> IF ReadInFull(log, v) THEN "reread" ELSE "open"

\* Where a delivery goes on when the store has answered it, and what it asks next: a late one
\* writes nothing, marked pages are followed by the retire pass, and that pass refuses while
\* the current version is not read in full.
Answers(t, log, v) ==
  LET c == t.call IN
  CASE t.do = "place" ->
         /\ IF Standing(log, v, call[c].of) = "late" THEN Moves(c, "idle")
            ELSE call' = [call EXCEPT ![c].at = "resolves", ![c].current = v,
                                      ![c].listed = IF v = None THEN 0 ELSE Threshold(log, v),
                                      ![c].standing = Standing(log, v, call[c].of)]
         /\ tasks' = Tail(tasks)
    [] t.do = "mark" ->
         /\ Moves(c, "settles")
         /\ tasks' = Append(Tail(tasks), For("settle", c))
    [] t.do = "settle" ->
         /\ IF v = None \/ ~ReadInFull(log, v) THEN Moves(c, "idle")
            ELSE call' = [call EXCEPT ![c] = [NoCall EXCEPT !.at = "retires", !.of = v, !.current = v,
                                                            !.known = Known(log)]]
         /\ tasks' = Tail(tasks)
    [] OTHER -> tasks' = Tail(tasks) /\ UNCHANGED call

\* The rest of the first task; a removal forgets what was verified.  It still waits for the
\* hash, the extractor and its appends, but reads nothing after them that changed meanwhile.
Ends(look) ==
  LET work == Work(Underway, look)  log == fold \o look.records \o work IN
  /\ fold' = log /\ disk' = disk \o look.records \o work
  /\ borrowed' = borrowed \cup Borrows(Underway, look, work)
  /\ skipped' = skipped \cup Skips(Underway, Current(Underway, look))
  /\ Answers(Underway, log, Current(Underway, look))
  /\ verified' = (look.verified /\ Underway.do # "remove")
  /\ unenumerable' = (look.unenumerable /\ Underway.do # "remove")
  /\ missed' = (missed /\ (Hashed => ListsOldBytes))

Works ==
  /\ tasks # <<>> /\ ~MustHash(Underway)
  /\ Ends(Looked(Underway))
  /\ UNCHANGED <<file, events, outcome, edits, made, mishaps, late>>

CannotList ==
  /\ Mishap
  /\ Hashed /\ Underway.bytes # Live(fold)
  /\ Ends(Unlisted)
  /\ UNCHANGED <<file, events, outcome, edits, made, late>>

\* What becomes of a delivery whose question the store rejects: it is placed nowhere, or ends.
Rejected(t) ==
  CASE t.do = "place" -> call' = [call EXCEPT ![t.call].at = "resolves", ![t.call].standing = "unplaced"]
    [] t.do \in {"mark", "settle"} -> Moves(t.call, "idle")
    [] OTHER -> UNCHANGED call

\* The append of a listing fails, before or after it reached the disk; the fold does not take it.
ListingFails ==
  LET look == Looked(Underway) IN
  /\ look.records # <<>>
  /\ disk' \in {disk, disk \o look.records}
  /\ UNCHANGED <<fold, verified, unenumerable, missed, borrowed>>

\* The append of what the task writes then fails in the same way.
WorkFails ==
  LET look == Looked(Underway)  work == Work(Underway, look) IN
  /\ work # <<>>
  /\ fold' = fold \o look.records
  /\ disk' \in {disk \o look.records, disk \o look.records \o work}
  /\ verified' = (look.verified /\ Underway.do # "remove")
  /\ unenumerable' = (look.unenumerable /\ Underway.do # "remove")
  /\ missed' = (missed /\ (Hashed => ListsOldBytes))
  /\ borrowed' = borrowed \cup Borrows(Underway, look, work)

AppendFails ==
  /\ Mishap
  /\ tasks # <<>> /\ ~MustHash(Underway)
  /\ ListingFails \/ WorkFails
  /\ tasks' = Tail(tasks)
  /\ Rejected(Underway)
  /\ skipped' = skipped \cup PassOf(Underway)
  /\ UNCHANGED <<file, events, outcome, edits, made, late>>

-----------------------------------------------------------------------------
(* The deliveries. *)

\* A job reads the file: its text, or a page some version owes an image of.
Starts(c) ==
  /\ call[c].at = "idle" /\ file # None
  /\ made < MaxDeliveries /\ Moved < MaxMoves /\ made' = made + 1
  /\ \E d \in (Deliveries(file) \cap {Text})
              \cup (DOMAIN Route[file] \cap UNION {ImagePages(v) : v \in Versions}) :
       call' = [call EXCEPT ![c] = [NoCall EXCEPT !.of = file, !.brings = d, !.found = States[file][d],
                                      !.how = IF d = Text THEN "text" ELSE "image",
                                      !.at = IF d = Text THEN "extracts" ELSE "reads"]]
  /\ UNCHANGED <<file, events, store, outcome, edits, mishaps, missed, borrowed, late, skipped>>

\* The reading of a page goes to the store; one with text goes on to extraction, a blank page or
\* a lone figure does not.
ReadsPage(c) ==
  /\ call[c].at = "reads"
  /\ \/ Asks(Reading(c, "image")) /\ Moves(c, "extracts")
     \/ /\ call[c].found = {} /\ call[c].brings \notin TextPages(call[c].of)
        /\ \E how \in {"image", "nothing"} : Asks(Reading(c, how))
        /\ Moves(c, "idle")
  /\ UNCHANGED <<file, events, disk, fold, verified, unenumerable, outcome, edits, made, mishaps,
                 missed, borrowed, late, skipped>>

\* A page read in part, or not legible: its outcomes are not in that part, or it has no text at all.
ReadsInPart(c) ==
  /\ Mishap
  /\ call[c].at = "reads"
  /\ Asks(Reading(c, "partial"))
  /\ call' \in {[call EXCEPT ![c].at = "extracts", ![c].how = "partial", ![c].found = {}],
               [call EXCEPT ![c] = NoCall]}
  /\ UNCHANGED <<file, events, disk, fold, verified, unenumerable, outcome, edits, made, missed,
                 borrowed, late, skipped>>

\* The service does not answer, or its answer is not taken.
CallFails(c) ==
  /\ Mishap
  /\ call[c].at \in {"reads", "extracts"}
  /\ Moves(c, "idle")
  /\ UNCHANGED <<file, events, store, outcome, edits, made, missed, borrowed, late, skipped>>

\* The outcomes are in: `planOutcomeRevision` asks where the delivery stands.
Extracts(c) ==
  /\ call[c].at = "extracts"
  /\ Asks(For("place", c)) /\ Moves(c, "places")
  /\ UNCHANGED <<file, events, disk, fold, verified, unenumerable, outcome, edits, made, mishaps,
                 missed, borrowed, late, skipped>>

\* `resolveOutcomes`: a new outcome is minted; an open delivery also restamps and reinstates.
Resolved(c, o) ==
  IF o \in call[c].found /\ (outcome[o].status = "none" \/ call[c].standing = "open")
  THEN [status |-> "active", stamp |-> call[c].of]
  ELSE outcome[o]

\* The outcomes a delivery placed when its version was current, or nowhere, wrote when it was not;
\* one is no longer among them once a current delivery states it again.
Late(c) ==
  LET changed == {o \in Outcomes : outcome'[o] # outcome[o]} IN
  IF Live(fold) # call[c].of /\ call[c].current \in {call[c].of, None} THEN late \cup changed
  ELSE late \ {o \in changed : outcome'[o] = [status |-> "active", stamp |-> call[c].of]}

Resolves(c) ==
  /\ call[c].at = "resolves"
  /\ outcome' = [o \in Outcomes |-> Resolved(c, o)]
  /\ late' = Late(c)
  /\ IF call[c].standing = "unplaced"
     THEN Moves(c, "settles") /\ Asks(For("settle", c))
     ELSE Moves(c, "marks") /\ Asks(For("mark", c))
  /\ UNCHANGED <<file, events, disk, fold, verified, unenumerable, edits, made, mishaps,
                 missed, borrowed, skipped>>

\* One of the records cannot be written.
ResolveFails(c) ==
  /\ Mishap
  /\ call[c].at = "resolves"
  /\ \E o \in call[c].found : outcome' = [outcome EXCEPT ![o] = Resolved(c, o)]
  /\ late' = Late(c)
  /\ Moves(c, "idle")
  /\ UNCHANGED <<file, events, store, edits, made, missed, borrowed, skipped>>

\* `isRetiredByRevision`.
RetiredBy(c, o) ==
  /\ outcome[o].status = "active"
  /\ outcome[o].stamp \in call[c].known \ {call[c].of}

\* `retireOutcomesOnRevision`, of the version the settled delivery found current.
Retires(c) ==
  /\ call[c].at = "retires"
  /\ outcome' = [o \in Outcomes |->
                   IF RetiredBy(c, o) THEN [outcome[o] EXCEPT !.status = "retired"] ELSE outcome[o]]
  /\ late' = Late(c)
  /\ skipped' = IF Known(fold) \subseteq call[c].known THEN skipped \ {call[c].of} ELSE skipped
  /\ Moves(c, "idle")
  /\ UNCHANGED <<file, events, store, edits, made, mishaps, missed, borrowed>>

\* A delivery is to run the retire pass for a version, or to ask whether it may.
PassToCome(v) == \E c \in Calls : call[c].of = v /\ call[c].at \in {"settles", "retires"}

\* The process dies and is started again; the events of its time are gone.
Restarts ==
  /\ Mishap
  /\ disk' \in {disk} \cup (IF Hashed THEN {disk \o Looked(Underway).records} ELSE {})
  /\ fold' = disk'
  /\ verified' = FALSE /\ unenumerable' = FALSE
  /\ tasks' = <<>> /\ events' = <<>>
  /\ call' = [c \in Calls |-> NoCall]
  /\ missed' = FALSE
  /\ skipped' = skipped \cup {v \in Versions : PassToCome(v)}
  /\ UNCHANGED <<file, outcome, edits, made, borrowed, late>>

-----------------------------------------------------------------------------

\* What a version's owed deliveries state.
Stated(v) == UNION {States[v][d] : d \in Deliveries(v)}

\* What each page was read as; an image that states nothing was a blank page.
ReadAs(v, p) ==
  CASE p \in Settled(v)                            -> SettledAs(v, p).how
    [] Route[v][p] = "both"                        -> "image"
    [] Route[v][p] = "image" /\ States[v][p] # {}  -> "image"
    [] Route[v][p] = "image" /\ States[v][p] = {}  -> "nothing"

\* The log of a version read in full.
FullLog(v) ==
  LET pages == SetToSeq(DOMAIN Route[v]) IN
  Enumeration(v) \o
    [n \in 1..Cardinality(DOMAIN Route[v]) |->
       Unit(v, pages[n], [how |-> ReadAs(v, pages[n]), bytes |-> v], ReadAs(v, pages[n]) # "nothing")]

\* A document nothing was read of, or one read in full.
Init ==
  /\ file = First /\ events = <<>>
  /\ \/ disk = <<>> /\ outcome = [o \in Outcomes |-> [status |-> "none", stamp |-> None]]
     \/ /\ disk = FullLog(First)
        /\ outcome = [o \in Outcomes |-> IF o \in Stated(First) THEN [status |-> "active", stamp |-> First]
                                         ELSE [status |-> "none", stamp |-> None]]
  /\ fold = disk /\ verified = FALSE /\ unenumerable = FALSE
  /\ tasks = <<>> /\ call = [c \in Calls |-> NoCall]
  /\ edits = 0 /\ made = 0 /\ mishaps = 0
  /\ missed = FALSE /\ borrowed = {} /\ late = {} /\ skipped = {}

Next ==
  \/ Edits \/ Observes \/ Census
  \/ Hashes \/ CannotList \/ Works \/ AppendFails \/ Restarts
  \/ \E c \in Calls : Starts(c) \/ ReadsPage(c) \/ ReadsInPart(c) \/ CallFails(c) \/ Extracts(c)
                      \/ Resolves(c) \/ ResolveFails(c) \/ Retires(c)

Spec == Init /\ [][Next]_vars

-----------------------------------------------------------------------------
(* Properties. *)

TypeOK ==
  /\ file \in Versions \cup {None}
  /\ events \in Seq({"modify", "create", "delete"})
  /\ disk \in Seq(Records) /\ fold \in Seq(Records)
  /\ {verified, unenumerable, missed} \subseteq BOOLEAN
  /\ tasks \in Seq([do : {"list", "reading", "place", "mark", "settle", "remove"},
                    call : Calls \cup {None}, page : {Text} \cup Pages,
                    how : {"image", "partial", "nothing"}, from : Versions \cup {None},
                    at : {"waiting", "hashed"}, bytes : Versions \cup {None}])
  /\ \A n \in DOMAIN tasks : tasks[n].at = "hashed" => n = 1
  /\ call \in [Calls -> [at : {"idle", "reads", "extracts", "places", "resolves", "marks", "settles",
                               "retires"},
                         brings : {Text} \cup Pages, how : {"text", "image", "partial"},
                         of : Versions \cup {None}, found : SUBSET Outcomes,
                         standing : {"open", "reread", "unplaced"},
                         current : Versions \cup {None}, listed : Nat, known : SUBSET Versions]]
  /\ outcome \in [Outcomes -> [status : {"none", "active", "retired"}, stamp : Versions \cup {None}]]
  /\ {edits, made, mishaps} \subseteq Nat
  /\ borrowed \subseteq Versions
  /\ late \subseteq Outcomes
  /\ skipped \subseteq Versions

\* The readings of a version are those it asked for: of its bytes, of its pages, and of a page its
\* text layer settles nothing but that.
NoStray(v) ==
  \A n \in Of(fold, "unit", v) :
    LET r == fold[n] IN
    /\ r.reading.bytes = v
    /\ r.page \in DOMAIN Route[v]
    /\ r.page \in Settled(v) => r.reading = SettledAs(v, r.page)

\* Every version was retired before another listing came; not so in a log that holds a listing
\* whose append was reported failed.
WellListed(log) ==
  \A n, m \in 1..Len(log) :
    n < m /\ log[n].kind = "enumerated" /\ log[m].kind = "enumerated" =>
      \E k \in (n + 1)..(m - 1) : log[k] = Retirement(log[n].of)

\* The deliveries a page read in full vouches for: that of the text only when a page needs
\* nothing but its text, since a page of both is marked for its image.
Vouched(v) == {d \in Deliveries(v) : d = Text => \E p \in DOMAIN Route[v] : Route[v][p] = "text"}

\* The rule the retirement rests on (retire-on-revision.ts, rules 2 to 6): when the current version
\* has been read in full, every outcome its deliveries state is active under it, whatever the
\* edits, rereads, older deliveries, failures and restarts on the way; so none of them is retired
\* as an older version's. Excused: readings of other bytes on its record, marks a delivery could
\* not vouch for, outcomes last written by a delivery whose version was replaced after it was
\* placed, those of the text of pages that all owe an image too, and a log with a listing the
\* store did not know of when it listed the next. README, "Disagreements", tells each.
FullIsKept ==
  Live(fold) # None /\ WellListed(fold) =>
    LET v == Live(fold) IN
    ReadInFull(fold, v) /\ NoStray(v) /\ v \notin borrowed =>
      \A o \in (UNION {States[v][d] : d \in Vouched(v)}) \ late :
        outcome[o] = [status |-> "active", stamp |-> v]

\* No page of a version was found blank, but those its text layer settles so and nothing else was
\* ever read of.
NoBlank(v) ==
  \A n, m \in Of(fold, "unit", v) :
    fold[n].reading.how = "nothing" /\ fold[m].page = fold[n].page
      => fold[n].page \in Settled(v) /\ fold[m].reading.how = "nothing"

\* The other half (settleOutcomeRevision runs the pass after every delivery): when the current
\* version has been read in full and no delivery has its pass to come, none of another version's
\* outcomes is active, whatever the edits, rereads, late deliveries, failures and restarts on the
\* way. Excused: a version a pass of which was lost, until a pass of its that knows every version
\* listed; a page that was blank, which brings no delivery; outcomes last written by a delivery
\* whose version was replaced after it was placed; and a log with a listing the store did not know
\* of when it listed the next.
StaleIsRetired ==
  Live(fold) # None /\ WellListed(fold) =>
    LET v == Live(fold) IN
    ReadInFull(fold, v) /\ NoBlank(v) /\ v \notin skipped /\ ~PassToCome(v) =>
      \A o \in Outcomes \ late : outcome[o].status = "active" => outcome[o].stamp = v

\* "Once true it stays true" (outcomeRevisionReadInFull): no record reopens a version read in full
\* while its listing stands, once each of its pages has a record since that listing; but for a
\* record of a page not named before, and a restart that finds on disk a record the store does not
\* hold, since its append was reported failed.
StaysFull ==
  [][\A v \in Versions :
       /\ fold' # fold /\ Live(fold) = v /\ Live(fold') = v
       /\ Threshold(fold, v) = Threshold(fold', v)
       /\ \A p \in Named(fold, v) : Latest(fold, v, p, Len(fold)) > Threshold(fold, v)
       /\ Named(fold', v) = Named(fold, v)
       /\ fold' = disk' => fold = disk
       => (ReadInFull(fold, v) => ReadInFull(fold', v))]_fold

\* What a reader of a verified source is told is the manifest of the bytes the file holds, once the
\* events of its changes came and a removal is done (manifestsFor, observe); but for a change whose
\* event came while a listing held the older bytes.
TrustIsFresh ==
  verified /\ events = <<>> /\ ~missed /\ (\A n \in DOMAIN tasks : tasks[n].do # "remove")
    => Live(fold) = file
================================================================================
