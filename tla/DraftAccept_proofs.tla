--------------------------- MODULE DraftAccept_proofs --------------------------
(***************************************************************************)
(* Proofs about DraftAccept.  Its types hold for any number of calls of    *)
(* the port.  What is claimed of the draft, KeptIsHeld, WritesAgree and    *)
(* KeptOnce, is proved for every number of edits, runs of the route,       *)
(* failures and deaths of the process, of calls that never overlap, as the *)
(* module's header says of the port: two of them on one draft at once      *)
(* break it.                                                               *)
(***************************************************************************)
EXTENDS DraftAccept, TLAPS

Run == [at : {"idle", "drafts", "holds", "mark", "again", "follow"},
        todo : SUBSET Keys, shown : SUBSET Keys, sure : BOOLEAN]

\* The conjuncts of TypeOK, in groups; the calls are a function, the run a record.
PortTypes ==
  /\ kind \in Kinds
  /\ note \in [edits : 0..MaxEdits, blocks : Nat]
  /\ sourceMoved \in BOOLEAN /\ sidecar \in BOOLEAN
  /\ status \in {"pending", "accepted", "rejected"}
  /\ verdicts \in Seq({"accepted", "rejected"})

CallTypes ==
  /\ call \in [Calls -> Call]
  /\ \A c \in Calls : call[c].at = "carry" => call[c].held

RouteTypes == route \in Run /\ holds \subseteq Keys

CountTypes == runs \in 0..MaxRuns /\ failures \in 0..MaxFailures /\ crashes \in 0..MaxCrashes

HistoryTypes == promised \in BOOLEAN /\ unprotected \in BOOLEAN /\ kept \in BOOLEAN

Types == PortTypes /\ CallTypes /\ RouteTypes /\ CountTypes /\ HistoryTypes

-----------------------------------------------------------------------------
(* Types. *)

\* The Boolean variables of TypeOK, one by one.
LEMMA Booleans ==
  ASSUME NEW a \in BOOLEAN, NEW b \in BOOLEAN, NEW c \in BOOLEAN, NEW d \in BOOLEAN,
         NEW e \in BOOLEAN
  PROVE  {a, b, c, d, e} \subseteq BOOLEAN
  BY Zenon

\* The groups are TypeOK.
LEMMA TypesOK == Types => TypeOK
<1>. SUFFICES ASSUME Types
              PROVE  TypeOK
  OBVIOUS
<1>1. {sourceMoved, sidecar, promised, unprotected, kept} \subseteq BOOLEAN
  BY Booleans, Zenon DEF Types, PortTypes, HistoryTypes
<1>. QED
  BY <1>1 DEF Types, TypeOK, PortTypes, CallTypes, RouteTypes, CountTypes, Run

\* Each bound is a number.
LEMMA Bounds ==
  /\ MaxEdits \in Nat /\ MaxBlocks \in Nat /\ MaxRuns \in Nat
  /\ MaxFailures \in Nat /\ MaxCrashes \in Nat
  BY Assumption, Zenon

\* A call starts from, and ends in, what is of their types.
LEMMA IdleTypes == Idle \in Call /\ Idle.at = "idle" /\ ~Idle.held
  BY Bounds DEF Idle, Call, Untouched

LEMMA NoRunTypes == NoRun \in Run
  BY DEF NoRun, Run, Keys

\* The types hold at first.
LEMMA InitTypes == Init => Types
<1>. SUFFICES ASSUME Init
              PROVE  Types
  OBVIOUS
<1>1. PortTypes
  <2>1. note \in [edits : 0..MaxEdits, blocks : Nat]
    BY Bounds DEF Init, Untouched
  <2>2. verdicts \in Seq({"accepted", "rejected"})
    BY DEF Init
  <2>. QED
    BY <2>1, <2>2 DEF Init, PortTypes
<1>2. CallTypes
  BY IdleTypes DEF Init, CallTypes
<1>3. RouteTypes
  BY NoRunTypes DEF Init, RouteTypes, Keys
<1>4. CountTypes
  BY Bounds DEF Init, CountTypes
<1>5. HistoryTypes
  BY DEF Init, HistoryTypes
<1>. QED
  BY <1>1, <1>2, <1>3, <1>4, <1>5 DEF Types

\* A call that only moves on, or only ends, keeps the types of the calls.
LEMMA GoesTypes ==
  ASSUME CallTypes, NEW c \in Calls, NEW at, Goes(c, at),
         at \in {"idle", "get", "hold", "note", "cite", "write", "put", "verdict",
                 "settle", "carryLate", "release", "refuse", "unhold", "reverdict"}
  PROVE  CallTypes'
  BY DEF CallTypes, Goes, Call

LEMMA EndsTypes ==
  ASSUME CallTypes, NEW c \in Calls, Ends(c)
  PROVE  CallTypes'
  BY IdleTypes DEF CallTypes, Ends

\* So does one that takes a record of their type.
LEMMA TakesTypes ==
  ASSUME CallTypes, NEW c \in Calls, NEW r \in Call, r.at # "carry",
         call' = [call EXCEPT ![c] = r]
  PROVE  CallTypes'
  BY DEF CallTypes

\* A step of a call keeps the types.
LEMMA CallStepTypes ==
  ASSUME Types, NEW c \in Calls,
         Asks(c) \/ Gets(c) \/ Accepts(c) \/ Converts(c) \/ Refusal(c)
         \/ Throws(c) \/ IndexFails(c) \/ StaysHeld(c)
  PROVE  Types'
<1>. USE DEF Types, PortTypes, CallTypes, RouteTypes, CountTypes, HistoryTypes, Call, Keys,
             port, histories
<1>1. CASE Asks(c)
  <2>1. PortTypes' /\ RouteTypes' /\ CountTypes' /\ HistoryTypes'
    BY <1>1, Bounds DEF Asks
  <2>2. CallTypes'
    <3>1. PICK does \in {"accept", "reject"} :
               call' = [call EXCEPT ![c].at = "get", ![c].does = does]
      BY <1>1 DEF Asks
    <3>. DEFINE r == [call[c] EXCEPT !.at = "get", !.does = does]
    <3>2. r \in Call /\ r.at # "carry"
      OBVIOUS
    <3>3. call' = [call EXCEPT ![c] = r]
      BY <3>1
    <3>. QED
      BY <3>2, <3>3, TakesTypes
  <2>. QED
    BY <2>1, <2>2
<1>2. CASE Gets(c)
  <2>1. PortTypes' /\ RouteTypes' /\ CountTypes' /\ HistoryTypes'
    BY <1>2, Bounds DEF Gets
  <2>2. CallTypes'
    BY <1>2, GoesTypes DEF Gets, AfterGet
  <2>. QED
    BY <2>1, <2>2
<1>3. CASE ReadsHold(c)
  <2>1. PortTypes' /\ RouteTypes' /\ CountTypes' /\ HistoryTypes'
    BY <1>3, Bounds DEF ReadsHold
  <2>2. CallTypes'
    <3>. DEFINE h == "draft" \in holds
                r == [call[c] EXCEPT !.at = "note", !.held = h]
    <3>1. h \in BOOLEAN
      OBVIOUS
    <3>2. r \in Call /\ r.at # "carry"
      <4>. HIDE DEF h
      <4>. QED
        BY <3>1
    <3>3. call' = [call EXCEPT ![c] = r]
      BY <1>3 DEF ReadsHold
    <3>. QED
      BY <3>2, <3>3, TakesTypes
  <2>. QED
    BY <2>1, <2>2
<1>4. CASE ReadsNote(c)
  <2>1. PortTypes' /\ RouteTypes' /\ CountTypes' /\ HistoryTypes'
    BY <1>4, Bounds DEF ReadsNote
  <2>2. CallTypes'
    BY <1>4 DEF ReadsNote, FirstWrite, After
  <2>. QED
    BY <2>1, <2>2
<1>5. CASE SourceUnread(c)
  <2>1. PortTypes' /\ RouteTypes' /\ CountTypes' /\ HistoryTypes'
    BY <1>5, Bounds DEF SourceUnread, Fails
  <2>2. CallTypes'
    BY <1>5, GoesTypes DEF SourceUnread
  <2>. QED
    BY <2>1, <2>2
<1>6. CASE Carries(c)
  <2>1. PortTypes' /\ RouteTypes' /\ CountTypes' /\ HistoryTypes'
    BY <1>6, Bounds DEF Carries
  <2>2. CallTypes'
    BY <1>6, GoesTypes DEF Carries, After
  <2>. QED
    BY <2>1, <2>2
<1>7. CASE Cites(c)
  <2>1. PortTypes' /\ RouteTypes' /\ CountTypes' /\ HistoryTypes'
    BY <1>7, Bounds DEF Cites
  <2>2. CallTypes'
    BY <1>7, GoesTypes DEF Cites, After
  <2>. QED
    BY <2>1, <2>2
<1>8. CASE WritesNote(c)
  <2>1. PortTypes' /\ RouteTypes' /\ CountTypes' /\ HistoryTypes'
    BY <1>8, Bounds DEF WritesNote
  <2>2. CallTypes'
    BY <1>8, GoesTypes DEF WritesNote, After
  <2>. QED
    BY <2>1, <2>2
<1>9. CASE Puts(c)
  <2>1. PortTypes' /\ RouteTypes' /\ CountTypes' /\ HistoryTypes'
    BY <1>9, Bounds DEF Puts
  <2>2. CallTypes'
    BY <1>9, GoesTypes DEF Puts, After
  <2>. QED
    BY <2>1, <2>2
<1>10. CASE Judges(c)
  <2>1. PortTypes' /\ RouteTypes' /\ CountTypes' /\ HistoryTypes'
    BY <1>10, Bounds DEF Judges
  <2>2. CallTypes'
    BY <1>10, GoesTypes DEF Judges, After
  <2>. QED
    BY <2>1, <2>2
<1>11. CASE Settles(c)
  <2>1. PortTypes' /\ RouteTypes' /\ CountTypes' /\ HistoryTypes'
    BY <1>11, Bounds DEF Settles, Returns
  <2>2. CallTypes'
    BY <1>11, GoesTypes, EndsTypes DEF Settles, Late, Returns
  <2>. QED
    BY <2>1, <2>2
<1>12. CASE CarriesLate(c)
  <2>1. PortTypes' /\ RouteTypes' /\ CountTypes' /\ HistoryTypes'
    BY <1>12, Bounds DEF CarriesLate
  <2>2. CallTypes'
    BY <1>12, GoesTypes DEF CarriesLate
  <2>. QED
    BY <2>1, <2>2
<1>13. CASE Releases(c)
  <2>1. PortTypes' /\ RouteTypes' /\ CountTypes' /\ HistoryTypes'
    BY <1>13, Bounds DEF Releases, Returns
  <2>2. CallTypes'
    BY <1>13, EndsTypes DEF Releases, Returns
  <2>. QED
    BY <2>1, <2>2
<1>14. CASE Refuses(c)
  <2>1. PortTypes' /\ RouteTypes' /\ CountTypes' /\ HistoryTypes'
    BY <1>14, Bounds DEF Refuses
  <2>2. CallTypes'
    BY <1>14, GoesTypes DEF Refuses
  <2>. QED
    BY <2>1, <2>2
<1>15. CASE Unholds(c)
  <2>1. PortTypes' /\ RouteTypes' /\ CountTypes' /\ HistoryTypes'
    BY <1>15, Bounds DEF Unholds
  <2>2. CallTypes'
    BY <1>15, GoesTypes DEF Unholds
  <2>. QED
    BY <2>1, <2>2
<1>16. CASE Rejects(c)
  <2>1. PortTypes' /\ RouteTypes' /\ CountTypes' /\ HistoryTypes'
    BY <1>16, Bounds DEF Rejects
  <2>2. CallTypes'
    BY <1>16, EndsTypes DEF Rejects
  <2>. QED
    BY <2>1, <2>2
<1>17. CASE Throws(c)
  <2>1. PortTypes' /\ RouteTypes' /\ CountTypes' /\ HistoryTypes'
    BY <1>17, Bounds DEF Throws, Fails
  <2>2. CallTypes'
    BY <1>17, EndsTypes DEF Throws
  <2>. QED
    BY <2>1, <2>2
<1>18. CASE IndexFails(c)
  <2>1. PortTypes' /\ RouteTypes' /\ CountTypes' /\ HistoryTypes'
    BY <1>18, Bounds DEF IndexFails, Fails
  <2>2. CallTypes'
    BY <1>18, EndsTypes DEF IndexFails
  <2>. QED
    BY <2>1, <2>2
<1>19. CASE StaysHeld(c)
  <2>1. PortTypes' /\ RouteTypes' /\ CountTypes' /\ HistoryTypes'
    <3>1. UNCHANGED histories \/ (kept' = TRUE /\ UNCHANGED <<promised, unprotected>>)
      BY <1>19 DEF StaysHeld, Returns
    <3>2. UNCHANGED <<port, holds, route, runs, crashes>> /\ failures' \in 0..MaxFailures
      BY <1>19, Bounds DEF StaysHeld, Fails
    <3>. QED
      BY <3>1, <3>2
  <2>2. CallTypes'
    BY <1>19, GoesTypes, EndsTypes DEF StaysHeld, Returns
  <2>. QED
    BY <2>1, <2>2
<1>. QED
  BY <1>1, <1>2, <1>3, <1>4, <1>5, <1>6, <1>7, <1>8, <1>9, <1>10,
     <1>11, <1>12, <1>13, <1>14, <1>15, <1>16, <1>17, <1>18, <1>19
  DEF Accepts, Converts, Refusal

\* So does one of the route, of hers or of the process.
LEMMA OtherStepTypes ==
  ASSUME Types,
         Lists \/ ListsDrafts \/ HoldsInstrument \/ HoldsDraft \/ Marks \/ ReadsAgain
         \/ Follows \/ ReadsBack \/ RouteFails \/ EditsNote \/ EditsSource \/ Crash
  PROVE  Types'
<1>. USE DEF Types, PortTypes, CallTypes, RouteTypes, CountTypes, HistoryTypes, Run, Keys,
             port, histories
<1>1. CASE Lists
  <2>1. PortTypes' /\ CallTypes' /\ HistoryTypes'
    BY <1>1 DEF Lists
  <2>2. RouteTypes'
    BY <1>1, NoRunTypes DEF Lists, NoRun
  <2>3. CountTypes'
    BY <1>1, Bounds DEF Lists
  <2>. QED
    BY <2>1, <2>2, <2>3
<1>2. CASE ListsDrafts
  BY <1>2, NoRunTypes DEF ListsDrafts, NoRun
<1>3. CASE HoldsInstrument
  BY <1>3 DEF HoldsInstrument
<1>4. CASE HoldsDraft
  BY <1>4 DEF HoldsDraft
<1>5. CASE Marks
  BY <1>5 DEF Marks
<1>6. CASE ReadsAgain
  BY <1>6 DEF ReadsAgain, Became
<1>7. CASE Follows
  BY <1>7 DEF Follows
<1>8. CASE ReadsBack
  BY <1>8, NoRunTypes DEF ReadsBack, Counted
<1>9. CASE RouteFails
  <2>1. PortTypes' /\ CallTypes' /\ HistoryTypes'
    BY <1>9 DEF RouteFails
  <2>2. RouteTypes'
    BY <1>9, NoRunTypes DEF RouteFails
  <2>3. CountTypes'
    BY <1>9, Bounds DEF RouteFails, Fails
  <2>. QED
    BY <2>1, <2>2, <2>3
<1>10. CASE EditsNote
  BY <1>10, Bounds DEF EditsNote
<1>11. CASE EditsSource
  BY <1>11 DEF EditsSource
<1>12. CASE Crash
  BY <1>12, IdleTypes, NoRunTypes, Bounds DEF Crash
<1>. QED
  BY <1>1, <1>2, <1>3, <1>4, <1>5, <1>6, <1>7, <1>8, <1>9, <1>10, <1>11, <1>12

-----------------------------------------------------------------------------
(* The inductive invariant, of calls that never overlap. *)

OneCall == \A c, d \in Calls : c = d

\* What a call that stands at each access has found and done.
CallsKnow ==
  \A c \in Calls :
    /\ call[c].at \in {"hold", "note", "carry", "cite", "write", "put", "refuse"}
         => status = "pending"
    /\ call[c].at \in {"verdict", "settle", "carryLate", "release"} => status = "accepted"
    /\ call[c].at \in {"unhold", "reverdict"} => status = "rejected"
    /\ call[c].at \in {"verdict", "unhold", "reverdict"} => verdicts = <<>>
    /\ call[c].at = "write" => sidecar
    /\ call[c].at = "put" => note.blocks > 0

\* The note has the question before its record is accepted, and the verdict comes last.
FilesFollow ==
  /\ note.blocks > 0 => sidecar
  /\ status = "accepted" => note.blocks > 0
  /\ verdicts \in {<<>>, <<"accepted">>, <<"rejected">>}
  /\ status = "pending" => verdicts = <<>>
  /\ verdicts = <<"accepted">> => status = "accepted"
  /\ verdicts = <<"rejected">> => status = "rejected"
  /\ kept => status = "accepted"

\* A call writes into a note of hers only if it read it untouched.
NoteUntouched ==
  kind = "ordinary" =>
    /\ note.blocks <= 1
    /\ \A c \in Calls : call[c].at \in {"carry", "cite", "write"} => call[c].saw = Untouched

\* A call that read the hold has carried it from its first write on.
CarriedFirst ==
  /\ ~unprotected
  /\ \A c \in Calls :
       /\ call[c].at \in {"idle", "get", "hold"} => ~call[c].held
       /\ call[c].held /\ call[c].at \in {"cite", "write", "put", "verdict", "settle"}
            => "instrument" \in holds
       /\ call[c].at = "release" => "instrument" \in holds

\* The run shows a draft only after it is done with it.
RunInOrder ==
  /\ route.at \in {"idle", "drafts"} => "draft" \notin route.todo \cup route.shown
  /\ route.at \in {"mark", "again", "follow"} => route.todo = {} /\ "draft" \notin route.shown
  /\ "draft" \in route.todo => "draft" \notin route.shown

\* What a run promised, and what it is about to, of a draft she kept.
PromiseHeld ==
  /\ promised /\ status # "rejected" => holds # {}
  /\ promised /\ kept => "instrument" \in holds
  /\ /\ route.sure /\ kept /\ "draft" \in holds
     /\ "draft" \in route.todo \cup route.shown \/ route.at = "mark"
     => "instrument" \in holds

IInv == Types /\ CallsKnow /\ FilesFollow /\ NoteUntouched /\ CarriedFirst /\ RunInOrder
        /\ PromiseHeld

\* The types, from one state to the next.
LEMMA StepTypes == Types /\ [Next]_vars => Types'
<1>1. CASE UNCHANGED vars
  BY <1>1 DEF vars, port, histories, Types, PortTypes, CallTypes, RouteTypes, CountTypes,
              HistoryTypes
<1>. QED
  BY <1>1, CallStepTypes, OtherStepTypes DEF Next

\* The verdicts of a draft are one, or none yet.
LEMMA OneVerdict ==
  /\ Append(<<>>, "accepted") = <<"accepted">> /\ Append(<<>>, "rejected") = <<"rejected">>
  /\ Len(<<>>) = 0 /\ Len(<<"accepted">>) = 1 /\ Len(<<"rejected">>) = 1
  /\ <<"accepted">> # <<>> /\ <<"rejected">> # <<>> /\ <<"accepted">> # <<"rejected">>
  OBVIOUS

\* The only call, after a step that moves it on, or ends it.
LEMMA MovedOn ==
  ASSUME CallTypes, OneCall, NEW c \in Calls, NEW at, Goes(c, at)
  PROVE  /\ \A d \in Calls : d = c
         /\ call'[c].at = at /\ call'[c].held = call[c].held /\ call'[c].saw = call[c].saw
  BY DEF CallTypes, OneCall, Goes, Call

LEMMA Ended ==
  ASSUME CallTypes, OneCall, NEW c \in Calls, Ends(c)
  PROVE  /\ \A d \in Calls : d = c
         /\ call'[c].at = "idle" /\ ~call'[c].held
  BY IdleTypes DEF CallTypes, OneCall, Ends

\* The part of IInv that is not about types.
Facts == CallsKnow /\ FilesFollow /\ NoteUntouched /\ CarriedFirst /\ RunInOrder /\ PromiseHeld

\* A step of the only call keeps it.
LEMMA CallStepFacts ==
  ASSUME Types, Facts, OneCall, NEW c \in Calls,
         Asks(c) \/ Gets(c) \/ Accepts(c) \/ Converts(c) \/ Refusal(c)
         \/ Throws(c) \/ IndexFails(c) \/ StaysHeld(c)
  PROVE  Facts'
<1>. USE DEF Facts, CallsKnow, FilesFollow, NoteUntouched, CarriedFirst, RunInOrder,
             PromiseHeld, port, histories
<1>t. CallTypes /\ PortTypes /\ RouteTypes /\ HistoryTypes
  BY DEF Types
<1>1. CASE Asks(c)
  BY <1>1, <1>t DEF Asks, CallTypes, Call, OneCall
<1>2. CASE Gets(c)
  BY <1>2, <1>t, MovedOn DEF Gets, AfterGet
<1>3. CASE ReadsHold(c)
  BY <1>3, <1>t DEF ReadsHold, CallTypes, Call, OneCall
<1>4. CASE ReadsNote(c)
  BY <1>4, <1>t
  DEF ReadsNote, Stale, FirstWrite, After, CallTypes, Call, OneCall, PortTypes, Untouched
<1>5. CASE SourceUnread(c)
  BY <1>5, <1>t, MovedOn DEF SourceUnread
<1>6. CASE Carries(c)
  BY <1>6, <1>t, MovedOn DEF Carries, After
<1>7. CASE Cites(c)
  BY <1>7, <1>t, MovedOn DEF Cites, After
<1>8. CASE WritesNote(c)
  <2>1. /\ \A d \in Calls : d = c
        /\ call'[c].at = "put" /\ call'[c].held = call[c].held
    BY <1>8, <1>t, MovedOn DEF WritesNote, After
  <2>2. note' = [call[c].saw EXCEPT !.blocks = @ + 1] /\ note'.blocks > 0
    BY <1>8, <1>t DEF WritesNote, CallTypes, Call
  <2>3. kind = "ordinary" => note'.blocks <= 1
    BY <1>8, <2>2 DEF WritesNote, Untouched
  <2>4. ~unprotected'
    BY <1>8 DEF WritesNote
  <2>. QED
    BY <1>8, <2>1, <2>2, <2>3, <2>4 DEF WritesNote
<1>9. CASE Puts(c)
  BY <1>9, <1>t, MovedOn DEF Puts, After
<1>10. CASE Judges(c)
  <2>1. verdicts = <<>>
    BY <1>10 DEF Judges
  <2>2. verdicts' = <<"accepted">>
    BY <1>10, <2>1, OneVerdict DEF Judges
  <2>3. /\ \A d \in Calls : d = c
        /\ call'[c].at = "settle" /\ call'[c].held = call[c].held
    BY <1>10, <1>t, MovedOn DEF Judges, After
  <2>. QED
    BY <1>10, <2>2, <2>3, OneVerdict DEF Judges
<1>11. CASE Settles(c)
  <2>1. CASE "draft" \in holds
    BY <1>11, <1>t, <2>1, MovedOn DEF Settles, Late
  <2>2. CASE "draft" \notin holds /\ call[c].held
    BY <1>11, <1>t, <2>2, MovedOn DEF Settles, Late
  <2>3. CASE "draft" \notin holds /\ ~call[c].held
    <3>1. promised => "instrument" \in holds
      BY <1>11, <1>t, <2>3 DEF Settles, RouteTypes, Keys
    <3>. QED
      BY <1>11, <1>t, <2>3, <3>1, Ended DEF Settles, Late, Returns
  <2>. QED
    BY <2>1, <2>2, <2>3
<1>12. CASE CarriesLate(c)
  BY <1>12, <1>t, MovedOn DEF CarriesLate
<1>13. CASE Releases(c)
  BY <1>13, <1>t, Ended DEF Releases, Returns
<1>14. CASE Refuses(c)
  BY <1>14, <1>t, MovedOn DEF Refuses
<1>15. CASE Unholds(c)
  BY <1>15, <1>t, MovedOn DEF Unholds
<1>16. CASE Rejects(c)
  <2>1. verdicts = <<>>
    BY <1>16 DEF Rejects
  <2>2. verdicts' = <<"rejected">>
    BY <1>16, <2>1, OneVerdict DEF Rejects
  <2>3. /\ \A d \in Calls : d = c
        /\ call'[c].at = "idle" /\ ~call'[c].held
    BY <1>16, <1>t, Ended DEF Rejects
  <2>. QED
    BY <1>16, <2>2, <2>3, OneVerdict DEF Rejects
<1>17. CASE Throws(c)
  BY <1>17, <1>t, Ended DEF Throws
<1>18. CASE IndexFails(c)
  BY <1>18, <1>t, Ended DEF IndexFails
<1>19. CASE StaysHeld(c)
  BY <1>19, <1>t, MovedOn, Ended DEF StaysHeld, Returns
<1>. QED
  BY <1>1, <1>2, <1>3, <1>4, <1>5, <1>6, <1>7, <1>8, <1>9, <1>10,
     <1>11, <1>12, <1>13, <1>14, <1>15, <1>16, <1>17, <1>18, <1>19
  DEF Accepts, Converts, Refusal

\* So does one of the route, of hers or of the process.
LEMMA OtherStepFacts ==
  ASSUME Types, Facts,
         Lists \/ ListsDrafts \/ HoldsInstrument \/ HoldsDraft \/ Marks \/ ReadsAgain
         \/ Follows \/ ReadsBack \/ RouteFails \/ EditsNote \/ EditsSource \/ Crash
  PROVE  Facts'
<1>. USE DEF Facts, CallsKnow, FilesFollow, NoteUntouched, CarriedFirst, RunInOrder,
             PromiseHeld, port, histories
<1>t. PortTypes /\ RouteTypes /\ HistoryTypes
  BY DEF Types
<1>1. CASE Lists
  BY <1>1, <1>t DEF Lists, RouteTypes, Run, Keys, NoRun
<1>2. CASE ListsDrafts
  BY <1>2, <1>t DEF ListsDrafts, RouteTypes, Run, Keys, NoRun, PortTypes
<1>3. CASE HoldsInstrument
  BY <1>3, <1>t DEF HoldsInstrument, RouteTypes, Run, Keys
<1>4. CASE HoldsDraft
  BY <1>4, <1>t DEF HoldsDraft, RouteTypes, Run, Keys, PortTypes
<1>5. CASE Marks
  BY <1>5, <1>t DEF Marks, RouteTypes, Run, Keys
<1>6. CASE ReadsAgain
  BY <1>6, <1>t DEF ReadsAgain, RouteTypes, Run, Keys, Became
<1>7. CASE Follows
  BY <1>7, <1>t DEF Follows, RouteTypes, Run, Keys
<1>8. CASE ReadsBack
  <2>1. promised' => \/ promised
                     \/ /\ route.sure /\ holds # {}
                        /\ "instrument" \in holds \/ "draft" \in route.shown \cap holds
    BY <1>8, <1>t DEF ReadsBack, Counted, RouteTypes, Run, Keys
  <2>2. promised' /\ kept => "instrument" \in holds
    BY <2>1
  <2>3. route' = NoRun /\ UNCHANGED <<port, holds, call, unprotected, kept>>
    BY <1>8 DEF ReadsBack
  <2>. QED
    BY <1>t, <2>1, <2>2, <2>3 DEF NoRun
<1>9. CASE RouteFails
  BY <1>9, <1>t DEF RouteFails, RouteTypes, Run, Keys, NoRun
<1>10. CASE EditsNote
  BY <1>10, <1>t DEF EditsNote, RouteTypes, Run, Keys, PortTypes, Untouched
<1>11. CASE EditsSource
  BY <1>11, <1>t DEF EditsSource, RouteTypes, Run, Keys
<1>12. CASE Crash
  BY <1>12, <1>t, IdleTypes DEF Crash, RouteTypes, Run, Keys, NoRun
<1>. QED
  BY <1>1, <1>2, <1>3, <1>4, <1>5, <1>6, <1>7, <1>8, <1>9, <1>10, <1>11, <1>12

-----------------------------------------------------------------------------
(* Theorems. *)

\* The draft, its note, its holds, the calls and the run keep their types (TypeOK), for any
\* number of calls at once and any number of edits, runs, failures and crashes.
THEOREM TypeCorrect == Spec => []TypeOK
<1>. Spec => []Types
  BY InitTypes, StepTypes, PTL DEF Spec
<1>. QED
  BY TypesOK, PTL

\* IInv holds at first and after every step, when calls do not overlap.
THEOREM Invariance ==
  ASSUME OneCall
  PROVE  Spec => []IInv
<1>1. Init => IInv
  <2>. SUFFICES ASSUME Init
                PROVE  IInv
    OBVIOUS
  <2>1. CallsKnow /\ FilesFollow /\ NoteUntouched /\ CarriedFirst /\ RunInOrder /\ PromiseHeld
    BY DEF Init, CallsKnow, FilesFollow, NoteUntouched, CarriedFirst, RunInOrder, PromiseHeld,
           Idle, NoRun, Untouched
  <2>. QED
    BY <2>1, InitTypes DEF IInv
<1>2. IInv /\ [Next]_vars => IInv'
  <2>. SUFFICES ASSUME IInv, [Next]_vars
                PROVE  IInv'
    OBVIOUS
  <2>1. Types'
    BY StepTypes DEF IInv
  <2>2. CASE UNCHANGED vars
    BY <2>1, <2>2 DEF vars, port, histories, IInv, CallsKnow, FilesFollow, NoteUntouched,
                      CarriedFirst, RunInOrder, PromiseHeld
  <2>3. CASE Next
    BY <2>1, <2>3, CallStepFacts, OtherStepFacts DEF Next, IInv, Facts
  <2>. QED
    BY <2>2, <2>3
<1>. QED
  BY <1>1, <1>2, PTL DEF Spec

\* A draft kept while it was held reaches her note only once its question is held, and a
\* correction the route counted and an accept that returned leave it held, in whatever order
\* their steps ran and whatever failed (accept.ts:96-100, slide-correction.ts:583-589).
THEOREM KeptAndHeld ==
  ASSUME OneCall
  PROVE  Spec => []KeptIsHeld
<1>1. IInv => KeptIsHeld
  BY DEF IInv, CarriedFirst, PromiseHeld, KeptIsHeld
<1>. QED
  BY <1>1, Invariance, PTL

\* A question in her notes has its citation, and a verdict describes what already happened,
\* at any instant between two writes, of a crash or a failure too (accept.ts:5-11,
\* materialize-mcq.ts:580-593).
THEOREM FilesAgree ==
  ASSUME OneCall
  PROVE  Spec => []WritesAgree
<1>1. IInv => WritesAgree
  <2>. SUFFICES ASSUME IInv
                PROVE  WritesAgree
    OBVIOUS
  <2>1. Contains(verdicts, "accepted") => verdicts = <<"accepted">>
    BY DEF IInv, FilesFollow, Contains
  <2>2. Contains(verdicts, "rejected") => verdicts = <<"rejected">>
    BY DEF IInv, FilesFollow, Contains
  <2>. QED
    BY <2>1, <2>2 DEF IInv, FilesFollow, WritesAgree
<1>. QED
  BY <1>1, Invariance, PTL

\* However often she asks, and whatever is retried, one verdict is appended, and a note of
\* hers gets the question once (accept.ts:16-20).
THEOREM InsertedOnce ==
  ASSUME OneCall
  PROVE  Spec => []KeptOnce
<1>1. IInv => KeptOnce
  <2>. SUFFICES ASSUME IInv
                PROVE  KeptOnce
    OBVIOUS
  <2>1. Len(verdicts) <= 1
    <3>1. CASE verdicts = <<>>
      BY <3>1, OneVerdict
    <3>2. CASE verdicts = <<"accepted">>
      BY <3>2, OneVerdict
    <3>3. CASE verdicts = <<"rejected">>
      BY <3>3, OneVerdict
    <3>. QED
      BY <3>1, <3>2, <3>3 DEF IInv, FilesFollow
  <2>. QED
    BY <2>1 DEF IInv, NoteUntouched, KeptOnce
<1>. QED
  BY <1>1, Invariance, PTL

================================================================================
