------------------------------ MODULE DraftAccept ------------------------------
(***************************************************************************)
(* One cached draft, from its offer to its verdict: the calls of the port  *)
(* that accepts or rejects it (packages/plugin/src/generation/accept.ts),  *)
(* the materialiser that writes its question into her note                 *)
(* (generation/materialize-mcq.ts), the draft cache, and the route that    *)
(* holds drafts and questions a lecturer corrected                         *)
(* (ingestion/slide-correction.ts), over one citation store                *)
(* (ingestion/materiality/citation-hash-store.ts).                         *)
(*                                                                         *)
(* A call's `at` is the access to the vault or to the settings file it     *)
(* makes next: anything may happen between two of them.                    *)
(*                                                                         *)
(* Abstractions.  The note is her edits and the blocks written from this   *)
(* draft; a hold is the key it stands under, always current; the sidecars  *)
(* and the target record are one; `edited` is `accepted`.  The correction  *)
(* is judged to concern the draft.  The guards over the cited notes read   *)
(* at the instant the note is read.  A rejection looks for its hold and    *)
(* removes it in one access: a hold written between the two goes as one    *)
(* written before.  Nothing lifts the hold of an instrument here.          *)
(***************************************************************************)
EXTENDS Integers, Sequences, SequencesExt

CONSTANTS
  Calls,        \* the calls of the port, one at a time each
  Kinds,        \* what the note may be: "ordinary" or one of Olea's "home" notes
  \* Bounds.
  MaxEdits,     \* her edits of the note
  MaxBlocks,    \* blocks written, after which no call starts
  MaxRuns,      \* runs of the route
  MaxFailures,  \* accesses that fail
  MaxCrashes    \* deaths of the process

ASSUME Assumption ==
  /\ Kinds # {} /\ Kinds \subseteq {"ordinary", "home"}
  /\ {MaxEdits, MaxBlocks, MaxRuns, MaxFailures, MaxCrashes} \subseteq Nat

VARIABLES
  kind,          \* what the note is
  note,          \* the note
  sourceMoved,   \* a note the draft was drawn from changed since
  sidecar,       \* the citation of the instrument
  status,        \* of the draft in the cache; an accepted draft names its instrument
  verdicts,      \* the verdicts appended for the draft
  holds,         \* the keys of the citation store with a hold on this question
  call,          \* the calls
  route,         \* the run of the route
  runs, failures, crashes,
  promised,      \* history: a run counted the draft, or what became of it, as held
  unprotected,   \* history: a block was written unheld by a call that had read the hold
  kept           \* history: an accept returned the instrument

port == <<kind, note, sourceMoved, sidecar, status, verdicts>>
histories == <<promised, unprotected, kept>>
vars == <<port, holds, call, route, runs, failures, crashes, histories>>

Untouched == [edits |-> 0, blocks |-> 0]

Idle == [at |-> "idle", does |-> "accept", saw |-> Untouched, held |-> FALSE]
NoRun == [at |-> "idle", todo |-> {}, shown |-> {}, sure |-> TRUE]

\* Bug: the verdict is appended before the record is accepted.
AfterVerdictFirst(at) ==
  CASE at = "carry" -> "cite" [] at = "cite" -> "write" [] at = "write" -> "verdict"
    [] at = "verdict" -> "put" [] at = "put" -> "settle"

\* Bug: the citation is written once the note is.
AfterNoteFirst(at) ==
  CASE at = "carry" -> "write" [] at = "write" -> "cite" [] at = "cite" -> "put"
    [] at = "put" -> "verdict" [] at = "verdict" -> "settle"

\* The writes of an accept, in order.
After(at) ==
  CASE at = "carry" -> "cite" [] at = "cite" -> "write" [] at = "write" -> "put"
    [] at = "put" -> "verdict" [] at = "verdict" -> "settle"

Goes(c, at) == call' = [call EXCEPT ![c].at = at]
Ends(c) == call' = [call EXCEPT ![c] = Idle]

Fails == failures < MaxFailures /\ failures' = failures + 1

-----------------------------------------------------------------------------
(* Accepting and rejecting. *)

\* She answers the question, keeps it, or rejects it, in a session or in the list of
\* drafts; one offered before its hold landed may be kept after it.
Asks(c) ==
  /\ call[c].at = "idle" /\ note.blocks < MaxBlocks
  /\ \E does \in {"accept", "reject"} :
       call' = [call EXCEPT ![c].at = "get", ![c].does = does]
  /\ UNCHANGED <<port, holds, route, runs, failures, crashes, histories>>

\* Bug: the status of the record is not looked at.
AfterGetAnyway(c) == IF call[c].does = "accept" THEN "hold" ELSE "refuse"

\* What a call does about the record it read.
AfterGet(c) ==
  CASE status = "pending" /\ call[c].does = "accept" -> "hold"
    [] status = "pending" /\ call[c].does = "reject" -> "refuse"
    [] status = "accepted" /\ call[c].does = "accept" -> "settle"
    [] OTHER -> "idle"

Gets(c) ==
  /\ call[c].at = "get"
  /\ Goes(c, AfterGet(c))
  /\ UNCHANGED <<port, holds, route, runs, failures, crashes, histories>>

\* `readDraftHold`.
ReadsHold(c) ==
  /\ call[c].at = "hold"
  /\ call' = [call EXCEPT ![c].at = "note", ![c].held = "draft" \in holds]
  /\ UNCHANGED <<port, holds, route, runs, failures, crashes, histories>>

\* Bug: only the notes the draft was drawn from are compared.
StaleBySource == sourceMoved

\* `sourceRevisionMatches` and the guards over the cited notes: of a home note only the
\* paragraph she does not edit counts.
Stale == sourceMoved \/ (kind = "ordinary" /\ note # Untouched)

\* Bug: the hold waits for the settling of the draft.
FirstWriteUnheld(c) == After("carry")

\* Bug: a hold is carried whether or not there was one.
FirstWriteHeldAnyway(c) == "carry"

\* `beforeWrite` carries the hold before the first write.
FirstWrite(c) == IF call[c].held THEN "carry" ELSE After("carry")

ReadsNote(c) ==
  /\ call[c].at = "note"
  /\ call' = [call EXCEPT ![c].saw = note, ![c].at = IF Stale THEN "refuse" ELSE FirstWrite(c)]
  /\ UNCHANGED <<port, holds, route, runs, failures, crashes, histories>>

\* A cited file that cannot be read counts as changed.
SourceUnread(c) ==
  /\ call[c].at = "note"
  /\ Fails
  /\ Goes(c, "refuse")
  /\ UNCHANGED <<port, holds, route, runs, crashes, histories>>

\* `carryDraftHold`.
Carries(c) ==
  /\ call[c].at = "carry"
  /\ holds' = holds \cup {"instrument"}
  /\ Goes(c, After("carry"))
  /\ UNCHANGED <<port, route, runs, failures, crashes, histories>>

Cites(c) ==
  /\ call[c].at = "cite"
  /\ sidecar' = TRUE
  /\ Goes(c, After("cite"))
  /\ UNCHANGED <<kind, note, sourceMoved, status, verdicts, holds, route, runs, failures,
                 crashes, histories>>

\* The whole note is written from what was read of it.
WritesNote(c) ==
  /\ call[c].at = "write"
  /\ note' = [call[c].saw EXCEPT !.blocks = @ + 1]
  /\ unprotected' = (unprotected \/ (call[c].held /\ "instrument" \notin holds))
  /\ Goes(c, After("write"))
  /\ UNCHANGED <<kind, sourceMoved, sidecar, status, verdicts, holds, route, runs, failures,
                 crashes, promised, kept>>

Puts(c) ==
  /\ call[c].at = "put"
  /\ status' = "accepted"
  /\ Goes(c, After("put"))
  /\ UNCHANGED <<kind, note, sourceMoved, sidecar, verdicts, holds, route, runs, failures,
                 crashes, histories>>

Judges(c) ==
  /\ call[c].at = "verdict"
  /\ verdicts' = Append(verdicts, "accepted")
  /\ Goes(c, After("verdict"))
  /\ UNCHANGED <<kind, note, sourceMoved, sidecar, status, holds, route, runs, failures,
                 crashes, histories>>

Returns(c) == Ends(c) /\ kept' = TRUE /\ UNCHANGED <<promised, unprotected>>

\* Bug: the hold read at the start decides what is released.
LateUnread(c) == FALSE

\* `settleDraftHold` finds a hold on the draft.
Late(c) == "draft" \in holds

Settles(c) ==
  /\ call[c].at = "settle"
  /\ \/ Late(c) /\ Goes(c, "carryLate") /\ UNCHANGED histories
     \/ ~Late(c) /\ call[c].held /\ Goes(c, "release") /\ UNCHANGED histories
     \/ ~Late(c) /\ ~call[c].held /\ Returns(c)
  /\ UNCHANGED <<port, holds, route, runs, failures, crashes>>

CarriesLate(c) ==
  /\ call[c].at = "carryLate"
  /\ holds' = holds \cup {"instrument"}
  /\ Goes(c, "release")
  /\ UNCHANGED <<port, route, runs, failures, crashes, histories>>

Releases(c) ==
  /\ call[c].at = "release"
  /\ holds' = holds \ {"draft"}
  /\ Returns(c)
  /\ UNCHANGED <<port, route, runs, failures, crashes>>

\* `rejectRecord`, of a rejection or of an accept whose note or sources changed.
Refuses(c) ==
  /\ call[c].at = "refuse"
  /\ status' = "rejected"
  /\ Goes(c, "unhold")
  /\ UNCHANGED <<kind, note, sourceMoved, sidecar, verdicts, holds, route, runs, failures,
                 crashes, histories>>

Unholds(c) ==
  /\ call[c].at = "unhold"
  /\ holds' = holds \ {"draft"}
  /\ Goes(c, "reverdict")
  /\ UNCHANGED <<port, route, runs, failures, crashes, histories>>

Rejects(c) ==
  /\ call[c].at = "reverdict"
  /\ verdicts' = Append(verdicts, "rejected")
  /\ Ends(c)
  /\ UNCHANGED <<kind, note, sourceMoved, sidecar, status, holds, route, runs, failures,
                 crashes, histories>>

\* An access fails and the call with it.
Throws(c) ==
  /\ call[c].at \notin {"idle", "release", "unhold"}
  /\ Fails
  /\ Ends(c)
  /\ UNCHANGED <<port, holds, route, runs, crashes, histories>>

\* The draft's file is written and its index is not.
IndexFails(c) ==
  /\ call[c].at \in {"put", "refuse"}
  /\ Fails
  /\ status' = IF call[c].at = "put" THEN "accepted" ELSE "rejected"
  /\ Ends(c)
  /\ UNCHANGED <<kind, note, sourceMoved, sidecar, verdicts, holds, route, runs, crashes,
                 histories>>

\* A key that cannot be removed stays, and the call goes on.
StaysHeld(c) ==
  /\ Fails
  /\ \/ call[c].at = "release" /\ Returns(c)
     \/ call[c].at = "unhold" /\ Goes(c, "reverdict") /\ UNCHANGED histories
  /\ UNCHANGED <<port, holds, route, runs, crashes>>

-----------------------------------------------------------------------------
(* The route of a correction. *)

\* `candidatesOn`: the questions in her notes are listed first, then the drafts.
Lists ==
  /\ route.at = "idle" /\ runs < MaxRuns
  /\ route' = [NoRun EXCEPT !.at = "drafts",
                            !.todo = IF note.blocks > 0 THEN {"instrument"} ELSE {}]
  /\ runs' = runs + 1
  /\ UNCHANGED <<port, holds, call, failures, crashes, histories>>

ListsDrafts ==
  /\ route.at = "drafts"
  /\ LET todo == route.todo \cup (IF status = "pending" THEN {"draft"} ELSE {})
     IN  route' = IF todo = {} THEN NoRun ELSE [route EXCEPT !.at = "holds", !.todo = todo]
  /\ UNCHANGED <<port, holds, call, runs, failures, crashes, histories>>

\* The hold on a question in her notes.
HoldsInstrument ==
  /\ route.at = "holds" /\ "instrument" \in route.todo
  /\ holds' = holds \cup {"instrument"}
  /\ route' = [route EXCEPT !.todo = @ \ {"instrument"}, !.shown = @ \cup {"instrument"}]
  /\ UNCHANGED <<port, call, runs, failures, crashes, histories>>

\* `holdDraft` reads the draft again before it writes.
HoldsDraft ==
  /\ route.at = "holds" /\ route.todo = {"draft"}
  /\ route' = [route EXCEPT !.todo = {}, !.at = CASE status = "pending"  -> "mark"
                                                  [] status = "accepted" -> "follow"
                                                  [] status = "rejected" -> "holds"]
  /\ UNCHANGED <<port, holds, call, runs, failures, crashes, histories>>

Marks ==
  /\ route.at = "mark"
  /\ holds' = holds \cup {"draft"}
  /\ route' = [route EXCEPT !.at = "again"]
  /\ UNCHANGED <<port, call, runs, failures, crashes, histories>>

\* Bug: the draft is not read again once its hold is written.
BecameUnread == FALSE

\* The draft became a question meanwhile.
Became == status = "accepted"

ReadsAgain ==
  /\ route.at = "again"
  /\ route' = IF Became THEN [route EXCEPT !.at = "follow"]
              ELSE [route EXCEPT !.at = "holds", !.shown = @ \cup {"draft"}]
  /\ UNCHANGED <<port, holds, call, runs, failures, crashes, histories>>

\* The hold follows the draft to its question.
Follows ==
  /\ route.at = "follow"
  /\ holds' = holds \cup {"instrument"}
  /\ route' = [route EXCEPT !.at = "holds", !.shown = @ \cup {"instrument"}]
  /\ UNCHANGED <<port, call, runs, failures, crashes, histories>>

\* Bug: what was written is counted unread.
CountedUnread == route.shown

\* Of the keys written, those the store shows when it is read back.
Counted == route.shown \cap holds

ReadsBack ==
  /\ route.at = "holds" /\ route.todo = {}
  /\ promised' = (promised \/ (Counted # {} /\ route.sure))
  /\ route' = NoRun
  /\ UNCHANGED <<port, holds, call, runs, failures, crashes, unprotected, kept>>

\* A read or a write of one hold fails and the next is tried; a failure of the lists, or of
\* the read-back, ends the run, which a later landing of the transcript starts again.
RouteFails ==
  /\ Fails
  /\ route' =
       CASE route.at = "drafts" -> NoRun
         [] route.at = "holds" /\ "instrument" \in route.todo ->
              [route EXCEPT !.todo = @ \ {"instrument"}, !.shown = @ \cup {"instrument"}]
         [] route.at = "holds" /\ route.todo = {"draft"} ->
              [route EXCEPT !.todo = {}, !.shown = @ \cup {"draft"}]
         [] route.at \in {"mark", "again", "follow"} ->
              [route EXCEPT !.at = "holds", !.shown = @ \cup {"draft"},
                            !.sure = @ /\ route.at = "mark"]
         [] OTHER -> NoRun
  /\ route.at # "idle"
  /\ UNCHANGED <<port, holds, call, runs, crashes, histories>>

-----------------------------------------------------------------------------
(* Her edits, and deaths of the process. *)

EditsNote ==
  /\ note.edits < MaxEdits
  /\ note' = [note EXCEPT !.edits = @ + 1]
  /\ UNCHANGED <<kind, sourceMoved, sidecar, status, verdicts, holds, call, route, runs,
                 failures, crashes, histories>>

EditsSource ==
  /\ ~sourceMoved
  /\ sourceMoved' = TRUE
  /\ UNCHANGED <<kind, note, sidecar, status, verdicts, holds, call, route, runs, failures,
                 crashes, histories>>

Crash ==
  /\ crashes < MaxCrashes
  /\ crashes' = crashes + 1
  /\ call' = [c \in Calls |-> Idle]
  /\ route' = NoRun
  /\ UNCHANGED <<port, holds, runs, failures, histories>>

Init ==
  /\ kind \in Kinds
  /\ note = Untouched
  /\ sourceMoved = FALSE
  /\ sidecar = FALSE
  /\ status = "pending"
  /\ verdicts = <<>>
  /\ holds = {}
  /\ call = [c \in Calls |-> Idle]
  /\ route = NoRun
  /\ runs = 0 /\ failures = 0 /\ crashes = 0
  /\ promised = FALSE /\ unprotected = FALSE /\ kept = FALSE

Accepts(c) == ReadsHold(c) \/ ReadsNote(c) \/ SourceUnread(c) \/ Carries(c) \/ Cites(c)
              \/ WritesNote(c) \/ Puts(c) \/ Judges(c)
Converts(c) == Settles(c) \/ CarriesLate(c) \/ Releases(c)
Refusal(c) == Refuses(c) \/ Unholds(c) \/ Rejects(c)

Next ==
  \/ \E c \in Calls : Asks(c) \/ Gets(c) \/ Accepts(c) \/ Converts(c) \/ Refusal(c)
                      \/ Throws(c) \/ IndexFails(c) \/ StaysHeld(c)
  \/ Lists \/ ListsDrafts \/ HoldsInstrument \/ HoldsDraft \/ Marks \/ ReadsAgain
  \/ Follows \/ ReadsBack \/ RouteFails
  \/ EditsNote \/ EditsSource \/ Crash

Spec == Init /\ [][Next]_vars

-----------------------------------------------------------------------------
(* Properties. *)

Call == [at : {"idle", "get", "hold", "note", "carry", "cite", "write", "put", "verdict",
               "settle", "carryLate", "release", "refuse", "unhold", "reverdict"},
         does : {"accept", "reject"},
         saw : [edits : 0..MaxEdits, blocks : Nat], held : BOOLEAN]

Keys == {"draft", "instrument"}

\* Types; a call carries or releases only a hold there was (accept.ts:515-523, 394-398).
TypeOK ==
  /\ kind \in Kinds
  /\ note \in [edits : 0..MaxEdits, blocks : Nat]
  /\ {sourceMoved, sidecar, promised, unprotected, kept} \subseteq BOOLEAN
  /\ status \in {"pending", "accepted", "rejected"}
  /\ verdicts \in Seq({"accepted", "rejected"})
  /\ holds \subseteq Keys
  /\ \A c \in Calls : call[c] \in Call /\ (call[c].at = "carry" => call[c].held)
  /\ route.at \in {"idle", "drafts", "holds", "mark", "again", "follow"}
  /\ route.todo \subseteq Keys /\ route.shown \subseteq Keys
  /\ runs \in 0..MaxRuns /\ failures \in 0..MaxFailures /\ crashes \in 0..MaxCrashes

\* A draft she keeps while it is held reaches her note only once its question is held too
\* (accept.ts:96-100, materialize-mcq.ts:576-577); and a correction the route counted on the draft, and an accept that returned, in whatever
\* order their steps ran, leave the question held; unless the route could not read the
\* draft a second time (slide-correction.ts:583-589, accept.ts:390-405).
KeptIsHeld ==
  /\ ~unprotected
  /\ kept /\ promised => "instrument" \in holds

\* The files agree at any instant, a crash or a failure between two writes included: a
\* question in her notes has its citation (materialize-mcq.ts:580-593), and a verdict
\* describes what already happened, whatever fails or dies after it (accept.ts:5-11).
WritesAgree ==
  /\ note.blocks > 0 => sidecar
  /\ Contains(verdicts, "accepted") => status = "accepted" /\ note.blocks > 0
  /\ Contains(verdicts, "rejected") => status = "rejected"

\* However often she asks, one verdict is appended; and into a note of hers a draft is
\* inserted once, even when the accept is retried after a write that failed or a crash
\* (accept.ts:16-20).
KeptOnce ==
  /\ Len(verdicts) <= 1
  /\ kind = "ordinary" => note.blocks <= 1

\* "a rating click that lands twice (a double render, a retried failed write) does not
\* insert a second MCQ block" (accept.ts:16-19).
InsertsOnce == note.blocks <= 1
================================================================================
