---------------------------- MODULE PaperJournal ----------------------------
(***************************************************************************)
(* Composing a practice paper through its resumable journal                *)
(* (packages/core/src/oracle/paper-journal.ts, driven by                   *)
(* packages/plugin/src/paper/journal-composition.ts): each part's outcome  *)
(* is recorded as it lands, an outage leaves the journal open, and the     *)
(* next request resumes it if what it was opened on still stands.          *)
(*                                                                         *)
(* A request is cut at its vault accesses and at each answer of the        *)
(* service.  Between any two the process may die, her notes, the settings, *)
(* her past-paper reading and the service's prompts may change, and an     *)
(* access may fail.  A composer is an instance of the plugin; it runs one  *)
(* request of a course at a time (provider.ts, `inFlight`).                *)
(*                                                                         *)
(* Abstractions.  One course.  A composition is the version of her         *)
(* material and scope, the authoring settings and the shape of the paper;  *)
(* its fingerprint is all three.  A shape fixes the parts and what each is *)
(* built on; parts empty before any call are left out, and a composition   *)
(* can always be planned again on a shape.  An item is the prompt version  *)
(* and the composition it was written on.  Two updates of journals never   *)
(* bear one timestamp.                                                     *)
(***************************************************************************)
EXTENDS Integers, Sequences, FiniteSets, SequencesExt, FiniteSetsExt

CONSTANTS
  Composers,    \* the instances of the plugin that may compose at once
  Material,     \* versions of her sources and the scope
  Settings,     \* versions of the authoring settings
  Shape,        \* the shapes her past-paper reading can give a paper
  Flat,         \* the shapes without structure
  Slot,         \* parts
  Plan,         \* the parts of each shape, in dependency order
  Needs,        \* what each part of a structured paper is built on
  Task,         \* the generator task of each part
  Version,      \* prompt versions
  Retries,      \* PAPER_SLOT_RETRIES_DECLARED
  None,         \* no version, no composition
  \* Bounds.
  MaxJournals,  \* journals opened
  MaxChanges,   \* changes of her notes, settings and reading, and of the prompts
  MaxFailures,  \* vault accesses that fail
  MaxCrashes    \* process deaths

Composition == [material : Material, settings : Settings, shape : Shape]

ASSUME Assumption ==
  /\ Material # {} /\ Settings # {} /\ Version # {}
  /\ Flat \subseteq Shape
  /\ Plan \in [Shape -> Seq(Slot)]
  /\ Needs \in [Slot -> SUBSET Slot]
  /\ \A h \in Shape : IsInjective(Plan[h])
  /\ \A h \in Shape \ Flat : \A i \in DOMAIN Plan[h] :
       Needs[Plan[h][i]] \subseteq {Plan[h][k] : k \in 1..(i - 1)}
  /\ None \notin Version \cup Composition
  /\ {Retries, MaxJournals, MaxChanges, MaxFailures, MaxCrashes} \subseteq Nat

Tasks == {Task[s] : s \in Slot}

VARIABLES
  world,     \* the composition a request made now would find
  prompt,    \* per task, the prompt version the service runs
  journals,  \* the journal files, in the order they were opened
  recent,    \* the journals by their last update, the latest last
  papers,    \* the papers, in the order they were written
  request,   \* where each composer's request stands
  written,   \* history: the items the service wrote for each journal
  skipped,   \* history: the papers that could not be read when their journal was finished
  changes, failures, crashes

files == <<journals, recent, papers>>
vars == <<world, prompt, journals, recent, papers, request, written, skipped, changes, failures,
          crashes>>

-----------------------------------------------------------------------------
(* Journals. *)

Unattempted == [status |-> "none", version |-> None, on |-> None]
Owed == [Unattempted EXCEPT !.status = "owed"]
Refused == [Unattempted EXCEPT !.status = "refused"]
Depends == [Unattempted EXCEPT !.status = "depends"]
Landed(v, comp) == [status |-> "landed", version |-> v, on |-> comp]

\* Bug: work owed counts as settled.
IsFinalOrOwed(o) == o.status # "none"

IsFinal(o) == o.status \in {"landed", "refused", "depends"}
IsEmpty(o) == o.status \in {"refused", "depends"}

Opened(comp) ==
  [on |-> comp, outcomes |-> [s \in Slot |-> Unattempted], status |-> "open", why |-> "none"]

\* Bug: a discard leaves the reason out.
FoldedWithoutReason(j, e) ==
  CASE j.status # "open" -> j
    [] j.status = "open" /\ e.kind \in {"completed", "discarded"} -> [j EXCEPT !.status = e.kind]
    [] j.status = "open" /\ e.kind = "slot" -> [j EXCEPT !.outcomes[e.slot] = e.outcome]

Slots(j) == ToSet(Plan[j.on.shape])
NeedsIn(j, s) == IF j.on.shape \in Flat THEN {} ELSE Needs[s]

\* `paperJournalOwedSlotIds`.
OwedSlots(j) == {s \in Slots(j) : ~IsFinal(j.outcomes[s])}

\* `applyPaperJournalEvent`: a closed journal and a final outcome stay as they are.
Folded(j, e) ==
  CASE j.status # "open" -> j
    [] j.status = "open" /\ e.kind = "completed" -> [j EXCEPT !.status = "completed"]
    [] j.status = "open" /\ e.kind = "discarded" -> [j EXCEPT !.status = "discarded", !.why = e.why]
    [] j.status = "open" /\ e.kind = "slot" ->
         IF IsFinal(j.outcomes[e.slot]) THEN j ELSE [j EXCEPT !.outcomes[e.slot] = e.outcome]

NoEvent == [kind |-> "none"]
Completed == [kind |-> "completed"]
Discarded(why) == [kind |-> "discarded", why |-> why]
Ends(s, outcome) == [kind |-> "slot", slot |-> s, outcome |-> outcome]

IsOpen(j) == journals[j].status = "open"
OpenJournals == {j \in DOMAIN journals : IsOpen(j)}

\* The journal of a set that comes last in an order.
Latest(order, seen) == order[Max({n \in DOMAIN order : order[n] \in seen})]

Updated(j) == recent' = Append(RemoveFirst(recent, j), j)

-----------------------------------------------------------------------------
(* Requests. *)

Idle == [at |-> "idle", on |-> None, chosen |-> 0, todo |-> {}, order |-> <<>>, missed |-> {},
         journal |-> 0, copy |-> None, pos |-> 1, tries |-> 0, target |-> 0, event |-> NoEvent,
         next |-> "idle"]

\* The request is at another point, with the changes of r.
Goes(c, r) == request' = [request EXCEPT ![c] = r]

\* An event is to be appended to journal j, and then the request goes on at `next`.
WillAppend(r, j, e, next) ==
  [r EXCEPT !.at = "folding", !.target = j, !.event = e, !.next = next]

Fails == failures < MaxFailures /\ failures' = failures + 1

\* The request throws.
Throws(c) == Goes(c, Idle) /\ Fails

\* She asks: the blueprint is made of what the vault now holds.
Asks(c) ==
  /\ request[c].at = "idle"
  /\ Len(journals) < MaxJournals
  /\ Goes(c, [Idle EXCEPT !.at = "choosing", !.on = world])
  /\ UNCHANGED <<world, prompt, files, written, skipped, changes, failures, crashes>>

\* A listing: a file that cannot be read is skipped.
Listing(all, seen) ==
  /\ failures + Cardinality(all \ seen) <= MaxFailures
  /\ failures' = failures + Cardinality(all \ seen)

\* Bug: the open journal is compared with the composition of now.
PlannedAgainNever(comp, j) == comp

\* `recordedComposition`: this request's composition on the shape of journal j.
PlannedAgain(comp, j) == [comp EXCEPT !.shape = journals[j].on.shape]

\* `compositionForRequest`.
Chooses(c) ==
  LET r == request[c] IN
  /\ r.at = "choosing"
  /\ \/ \E seen \in SUBSET OpenJournals :
          LET j == Latest(recent, seen)
              x == [r EXCEPT !.at = "opening", !.chosen = IF seen = {} THEN 0 ELSE j]
              again == PlannedAgain(r.on, j)
          IN  /\ Listing(OpenJournals, seen)
              /\ Goes(c, CASE seen = {} -> x
                            [] seen # {} /\ again = journals[j].on -> [x EXCEPT !.on = again]
                            [] seen # {} /\ again # journals[j].on /\ again = r.on /\ r.on.shape \in Flat -> x
                            [] OTHER -> WillAppend(x, j, Discarded("reuse-incompatible"), "opening"))
     \/ Throws(c)
  /\ UNCHANGED <<world, prompt, files, written, skipped, changes, crashes>>

\* Bug: any open journal is taken up again.
ReusableWhatever(seen, comp) == seen

\* The open journals made of this composition.
Reusable(seen, comp) == {j \in seen : journals[j].on = comp}

\* Bug: the other open journals are left open.
OthersLeft(seen, kept) == {}

\* The open journals to set aside.
Others(seen, kept) == seen \ {kept}

\* `openPaperJournal`: one journal is resumed, every other is set aside, the latest first.
Opens(c) ==
  LET r == request[c] IN
  /\ r.at = "opening"
  /\ \/ \E seen \in SUBSET OpenJournals :
          LET kept == IF Reusable(seen, r.on) = {} THEN 0 ELSE Latest(recent, Reusable(seen, r.on))
          IN  /\ Listing(OpenJournals, seen)
              /\ Goes(c, [r EXCEPT !.at = "discarding", !.todo = Others(seen, kept),
                                   !.order = recent, !.missed = OpenJournals \ seen,
                                   !.journal = kept])
     \/ Throws(c)
  /\ UNCHANGED <<world, prompt, files, written, skipped, changes, crashes>>

DiscardsNext(c) ==
  LET r == request[c]
      j == Latest(r.order, r.todo)
  IN
  /\ r.at = "discarding" /\ r.todo # {}
  /\ Goes(c, WillAppend([r EXCEPT !.todo = @ \ {j}], j,
                        Discarded(IF journals[j].on = r.on THEN "abandoned" ELSE "reuse-incompatible"),
                        "discarding"))
  /\ UNCHANGED <<world, prompt, files, written, skipped, changes, failures, crashes>>

Resumes(c) ==
  LET r == request[c] IN
  /\ r.at = "discarding" /\ r.todo = {} /\ r.journal # 0
  /\ Goes(c, [r EXCEPT !.at = "loading", !.order = <<>>])
  /\ UNCHANGED <<world, prompt, files, written, skipped, changes, failures, crashes>>

\* A fresh journal is written; a write that fails may have landed.
Begins(c) ==
  LET r == request[c] IN
  /\ r.at = "discarding" /\ r.todo = {} /\ r.journal = 0
  /\ \/ /\ journals' = Append(journals, Opened(r.on))
        /\ Updated(Len(journals'))
        /\ written' = Append(written, 0)
        /\ \/ Goes(c, [r EXCEPT !.at = "loading", !.order = <<>>, !.journal = Len(journals')]) /\ UNCHANGED failures
           \/ Throws(c)
     \/ Throws(c) /\ UNCHANGED <<journals, recent, written>>
  /\ UNCHANGED <<world, prompt, papers, skipped, changes, crashes>>

\* `runPaperJournal` reads its journal, which must be open.
Loads(c) ==
  LET r == request[c] IN
  /\ r.at = "loading"
  /\ \/ /\ IF IsOpen(r.journal)
           THEN Goes(c, [r EXCEPT !.at = "drafting", !.copy = journals[r.journal]])
           ELSE Goes(c, Idle)
        /\ UNCHANGED failures
     \/ Throws(c)
  /\ UNCHANGED <<world, prompt, files, written, skipped, changes, crashes>>

\* Bug: a resumed run asks for every part again.
NoneSettled(r) == r.pos..Len(Plan[r.copy.on.shape])

\* The parts at or after the request's position that are not settled.
Unsettled(r) ==
  {i \in r.pos..Len(Plan[r.copy.on.shape]) : ~IsFinal(r.copy.outcomes[Plan[r.copy.on.shape][i]])}

At(r, i) == Plan[r.copy.on.shape][i]

\* Bug: a part is asked for whether or not those it is built on are settled.
EmptyNeedsNone(r, s) == {}

EmptyNeeds(r, s) == {n \in NeedsIn(r.copy, s) : IsEmpty(r.copy.outcomes[n])}
OwedNeeds(r, s) == {n \in NeedsIn(r.copy, s) : ~IsFinal(r.copy.outcomes[n])}

\* The next part: empty with one it is built on, out of reach, or asked for.
Drafts(c) ==
  LET r == request[c] IN
  /\ r.at = "drafting"
  /\ \/ Unsettled(r) = {} /\ Goes(c, [r EXCEPT !.at = "ended"])
     \/ \E i \in Unsettled(r) :
          LET s == At(r, i) IN
          /\ \A k \in Unsettled(r) : i <= k
          /\ Goes(c, CASE EmptyNeeds(r, s) # {} ->
                            WillAppend([r EXCEPT !.pos = i + 1], r.journal, Ends(s, Depends), "drafting")
                       [] EmptyNeeds(r, s) = {} /\ OwedNeeds(r, s) # {} ->
                            [r EXCEPT !.at = "ended"]
                       [] OTHER -> [r EXCEPT !.at = "asking", !.pos = i, !.tries = 0])
  /\ UNCHANGED <<world, prompt, files, written, skipped, changes, failures, crashes>>

\* Bug: prompt versions are not compared.
MixesNever(r, s) == FALSE

\* An item of the journal was written by another prompt of the same task.
Mixes(r, s) ==
  \E n \in Slots(r.copy) : /\ r.copy.outcomes[n].status = "landed"
                           /\ Task[n] = Task[s]
                           /\ r.copy.outcomes[n].version # prompt[Task[s]]

\* The service writes the part.
IsWritten(c) ==
  LET r == request[c]
      s == At(r, r.pos)
  IN  /\ r.at = "asking"
      /\ Goes(c, IF Mixes(r, s)
                 THEN WillAppend(r, r.journal, Discarded("authoring-spec-changed"), "idle")
                 ELSE WillAppend([r EXCEPT !.pos = @ + 1], r.journal,
                                 Ends(s, Landed(prompt[Task[s]], r.on)), "drafting"))
      /\ written' = [written EXCEPT ![r.journal] = @ + 1]
      /\ UNCHANGED <<world, prompt, files, skipped, changes, failures, crashes>>

\* The service, or the port before it, declines.
IsRefused(c) ==
  LET r == request[c] IN
  /\ r.at = "asking"
  /\ Goes(c, WillAppend([r EXCEPT !.pos = @ + 1], r.journal, Ends(At(r, r.pos), Refused), "drafting"))
  /\ UNCHANGED <<world, prompt, files, written, skipped, changes, failures, crashes>>

\* Bug: the count of tries starts over when a retry fails too.
TriedAnew(tries) == (tries + 1) % (Retries + 1)

Tried(tries) == tries + 1

\* The service cannot be reached, or answers unusably: one retry, then the part
\* is owed and the run stops.
IsUnavailable(c) ==
  LET r == request[c] IN
  /\ r.at = "asking"
  /\ Goes(c, IF Tried(r.tries) <= Retries
             THEN [r EXCEPT !.tries = Tried(@)]
             ELSE WillAppend([r EXCEPT !.tries = 0], r.journal, Ends(At(r, r.pos), Owed), "ended"))
  /\ UNCHANGED <<world, prompt, files, written, skipped, changes, failures, crashes>>

\* The run is over: unfinished, or ready to be finished.
RunEnds(c) ==
  LET r == request[c] IN
  /\ r.at = "ended"
  /\ Goes(c, IF OwedSlots(r.copy) = {} THEN [r EXCEPT !.at = "finishing"] ELSE Idle)
  /\ UNCHANGED <<world, prompt, files, written, skipped, changes, failures, crashes>>

PapersOf(j) == {p \in DOMAIN papers : papers[p].journal = j}

\* Bug: a paper written for the journal is not looked for.
NotLookedFor(seen) == FALSE

\* A paper listed bears the journal's id.
IsFinished(seen) == seen # {}

\* `finalizePaperFromJournal`, up to the write of the paper.
Finishes(c) ==
  LET r == request[c]
      j == journals[r.journal]
      all == PapersOf(r.journal)
  IN  /\ r.at = "finishing"
      /\ \/ \E seen \in SUBSET all :
              /\ Listing(all, seen)
              /\ skipped' = skipped + Cardinality(all \ seen)
              /\ Goes(c, CASE j.status = "discarded" -> Idle
                            [] j.status = "open" /\ IsFinished(seen) ->
                                 WillAppend(r, r.journal, Completed, "idle")
                            [] j.status = "completed" /\ IsFinished(seen) -> Idle
                            [] j.status # "discarded" /\ ~IsFinished(seen) ->
                                 IF OwedSlots(j) # {} THEN Idle
                                 ELSE [r EXCEPT !.at = "creating", !.copy = j])
         \/ Throws(c) /\ UNCHANGED skipped
      /\ UNCHANGED <<world, prompt, files, written, changes, crashes>>

\* `createPaper`, then the journal is completed.
Creates(c) ==
  LET r == request[c] IN
  /\ r.at = "creating"
  /\ \/ /\ papers' = Append(papers, [journal |-> r.journal, asked |-> r.on,
                                      outcomes |-> r.copy.outcomes])
        /\ \/ Goes(c, WillAppend(r, r.journal, Completed, "idle")) /\ UNCHANGED failures
           \/ Throws(c)
     \/ Throws(c) /\ UNCHANGED papers
  /\ UNCHANGED <<world, prompt, journals, recent, written, skipped, changes, crashes>>

\* `appendJournalEvent` folds the event onto the file as it now reads ...
Folds(c) ==
  LET r == request[c]
      folded == Folded(journals[r.target], r.event)
  IN  /\ r.at = "folding"
      /\ \/ /\ Goes(c, [r EXCEPT !.copy = folded, !.event = NoEvent,
                                 !.at = IF folded = journals[r.target] THEN r.next ELSE "writing"])
            /\ UNCHANGED failures
         \/ Throws(c)
      /\ UNCHANGED <<world, prompt, files, written, skipped, changes, crashes>>

\* ... and writes it back.
Writes(c) ==
  LET r == request[c] IN
  /\ r.at = "writing"
  /\ \/ /\ journals' = [journals EXCEPT ![r.target] = r.copy]
        /\ Updated(r.target)
        /\ \/ /\ Goes(c, IF r.next = "idle" THEN Idle ELSE [r EXCEPT !.at = r.next, !.target = 0])
              /\ UNCHANGED failures
           \/ Throws(c)
     \/ Throws(c) /\ UNCHANGED <<journals, recent>>
  /\ UNCHANGED <<world, prompt, papers, written, skipped, changes, crashes>>

-----------------------------------------------------------------------------
(* What changes around a request. *)

Changes ==
  /\ changes < MaxChanges /\ changes' = changes + 1
  /\ \/ \E w \in Composition : w # world /\ world' = w /\ UNCHANGED prompt
     \/ \E t \in Tasks, v \in Version :
          v # prompt[t] /\ prompt' = [prompt EXCEPT ![t] = v] /\ UNCHANGED world
  /\ UNCHANGED <<files, request, written, skipped, failures, crashes>>

Busy == {c \in Composers : request[c].at # "idle"}

\* The process dies, and is started again.
Crashes ==
  /\ Busy # {} /\ crashes < MaxCrashes
  /\ crashes' = crashes + 1
  /\ request' = [c \in Composers |-> Idle]
  /\ UNCHANGED <<world, prompt, files, written, skipped, changes, failures>>

\* Versions are alike: the first of each is any one.
Init ==
  /\ world \in [material : {CHOOSE m \in Material : TRUE}, settings : {CHOOSE g \in Settings : TRUE},
                shape : Shape]
  /\ prompt = [t \in Tasks |-> CHOOSE v \in Version : TRUE]
  /\ journals = <<>> /\ recent = <<>> /\ papers = <<>> /\ written = <<>> /\ skipped = 0
  /\ request = [c \in Composers |-> Idle]
  /\ changes = 0 /\ failures = 0 /\ crashes = 0

Steps(c) ==
  \/ Chooses(c) \/ Opens(c) \/ DiscardsNext(c) \/ Resumes(c) \/ Begins(c)
  \/ Loads(c) \/ Drafts(c) \/ IsWritten(c) \/ IsRefused(c) \/ IsUnavailable(c)
  \/ RunEnds(c) \/ Finishes(c) \/ Creates(c) \/ Folds(c) \/ Writes(c)

Next ==
  \/ \E c \in Composers : Asks(c) \/ Steps(c)
  \/ Changes
  \/ Crashes

\* The service answers or the call throws, and vault accesses settle.
Fairness == \A c \in Composers : WF_vars(Steps(c))

Spec == Init /\ [][Next]_vars /\ Fairness

-----------------------------------------------------------------------------
(* Types *)

Outcome ==
  [status : {"none", "owed", "refused", "depends", "landed"}, version : Version \cup {None},
   on : Composition \cup {None}]

Journal ==
  [on : Composition, outcomes : [Slot -> Outcome], status : {"open", "completed", "discarded"},
   why : {"none", "reuse-incompatible", "abandoned", "authoring-spec-changed"}]

\* Types; a discarded journal, and no other, says why; files and histories agree in length.
TypeOK ==
  /\ world \in Composition /\ prompt \in [Tasks -> Version]
  /\ journals \in Seq(Journal)
  /\ \A j \in DOMAIN journals : journals[j].why # "none" <=> journals[j].status = "discarded"
  /\ ToSet(recent) = DOMAIN journals /\ Len(recent) = Len(journals)
  /\ papers \in Seq([journal : DOMAIN journals, asked : Composition, outcomes : [Slot -> Outcome]])
  /\ written \in Seq(Nat) /\ Len(written) = Len(journals)
  /\ \A c \in Composers : request[c].journal \in 0..Len(journals)
  /\ skipped \in Nat /\ changes \in Nat /\ failures \in Nat /\ crashes \in Nat

(* Safety *)

Drafting == {"loading", "drafting", "asking", "ended", "finishing", "creating"}

\* "Turns a finished journal into the paper, exactly once" (paper-journal.ts:866), over
\* deaths between the paper and the journal's completion: only a paper that could not be read
\* when its journal was finished has a second; a completed journal has its paper. "One course has
\* one open journal" (paper-journal.ts:526): while a request drafts, the others open are those
\* its listing could not read.
OnePaperPerJournal ==
  /\ \A j \in DOMAIN journals : Cardinality(PapersOf(j)) <= 1 + skipped
  /\ \A j \in DOMAIN journals : journals[j].status = "completed" => PapersOf(j) # {}
  /\ \A c \in Composers : request[c].at \in Drafting =>
       \A j \in OpenJournals : j = request[c].journal \/ j \in request[c].missed

\* A paper is one piece, however many requests it took and whatever failed, changed or was
\* deployed between them.  It has no holes "because the service was down"
\* (paper-journal.ts:29), and no part of it is written without those it is built on
\* (paper-journal.ts:727-729).  Each item is composed from what she had at the request that
\* finished it, and "prompt versions never mix inside one paper" (paper-journal.ts:48).
PaperIsWhole ==
  \A p \in DOMAIN papers :
    LET paper == papers[p]
        j == journals[paper.journal]
        landed == {s \in Slots(j) : paper.outcomes[s].status = "landed"}
    IN  /\ \A s \in Slots(j) : paper.outcomes[s].status \in {"landed", "refused", "depends"}
        /\ \A s \in landed :
             /\ NeedsIn(j, s) \subseteq landed
             /\ paper.outcomes[s].on = paper.asked
             /\ \A n \in landed : Task[s] = Task[n] =>
                  paper.outcomes[s].version = paper.outcomes[n].version

LandedIn(j) == Cardinality({s \in Slots(j) : j.outcomes[s].status = "landed"})

\* The item of a journal that was written and is not yet recorded.
InHand(j) ==
  {c \in Composers : request[c].journal = j /\ request[c].at \in {"folding", "writing"}}

\* "A crash loses at most the call in flight", and "a resume never regenerates"
\* (paper-journal.ts:722-726): what the service wrote is in the journal but for one item
\* per crash or failure, and the one that closed it.
WrittenOnce ==
  \A j \in DOMAIN journals :
    written[j] <= LandedIn(journals[j]) + crashes + failures + Cardinality(InHand(j))
                  + (IF journals[j].why = "authoring-spec-changed" THEN 1 ELSE 0)

(* Action properties *)

\* "An unfinished paper resumes on its own structure, even if her past-paper reading
\* changes" (journal-composition.ts:82-85): the journal whose composition a request chose, the latest
\* open one it could read, is set aside for another composition only if her material or the settings
\* are no longer that journal's.
ReadingDiscardsNothing ==
  [][\A j \in OpenJournals :
       journals'[j].why = "reuse-incompatible" =>
         \E c \in Composers :
           /\ request[c].at = "writing" /\ request[c].target = j
           /\ \/ request[c].chosen # j
              \/ [request[c].on EXCEPT !.shape = journals[j].on.shape] # journals[j].on]_vars

(* Liveness *)

\* A request ends, whatever the service answers and whichever access fails.
RequestEnds == \A c \in Composers : request[c].at # "idle" ~> request[c].at = "idle"
=============================================================================
