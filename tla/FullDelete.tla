------------------------------ MODULE FullDelete ------------------------------
(***************************************************************************)
(* The full delete of everything the plugin keeps, against the writers of  *)
(* the plugin: the queue of the settings file                              *)
(* (packages/plugin/src/retrieval/serializing-data-host.ts), the two write *)
(* seals (privacy/settings-section.ts, privacy/olea-layer-write-seal.ts),  *)
(* the delete itself (privacy/full-delete.ts) and the pause that follows   *)
(* it, across reloads of the plugin and deaths of its process.             *)
(*                                                                         *)
(* Each load of the plugin is an instance with its own queue and seals;    *)
(* the jobs of an unloaded instance run on until the process dies.         *)
(*                                                                         *)
(* Abstractions.  The settings file is the keys with content it holds, one *)
(* setting, the marker of the delete and a count of the device ids; it     *)
(* holds an object.  A raw save lands whole or fails.  Discovery finds     *)
(* every file under `.olea/`; folders, the export, the notice and the      *)
(* Worker's record are left out.  An instance unloaded by hand is loaded   *)
(* again only after its process died, and one delete runs at a time.       *)
(***************************************************************************)
EXTENDS Integers, Sequences, FiniteSets, SequencesExt

CONSTANTS
  Cache,         \* keys of the settings file the purge removes
  Records,       \* the other keys derived from content
  Drafts,        \* files of the draft cache
  Logs,          \* the other files under `.olea/`
  Setting,       \* the values of a kept setting
  \* Bounds.
  MaxInstances,  \* instances of the plugin
  MaxPending,    \* operations queued at once by the stores
  MaxDeletes,    \* deletes that replace the device id
  MaxFailures    \* operations that fail

ASSUME Assumption ==
  /\ Cache \cap Records = {} /\ Drafts \cap Logs = {}
  /\ Setting # {}
  /\ {MaxInstances, MaxPending, MaxDeletes, MaxFailures} \subseteq Nat
  /\ MaxInstances > 0

VARIABLES
  file,      \* the settings file
  layer,     \* the files under `.olea/`
  instance,  \* the instances of the plugin, oldest first
  delete,    \* where the delete stands
  removedBy, \* history: the instance whose delete removed something since the last Start
  wiped,     \* history: a delete cleared everything, its writers still sealed
  failures

vars == <<file, layer, instance, delete, removedBy, wiped, failures>>

Keys == Cache \cup Records
Files == Drafts \cup Logs

-----------------------------------------------------------------------------
(* Operations on the settings file. *)

Stores == {[do |-> "store", key |-> k] : k \in Keys}
Configures == {[do |-> "configure", to |-> v] : v \in Setting}
Plain == {"mark", "purge", "clear", "reset", "lift"}
Reads == {"look", "barrier"}

Operation == Stores \cup Configures \cup {[do |-> d] : d \in Plain \cup Reads}

\* What each operation makes of the settings it read.
Applied(op, f) ==
  CASE op.do = "store"     -> [f EXCEPT !.content = @ \cup {op.key}]
    [] op.do = "configure" -> [f EXCEPT !.setting = op.to]
    [] op.do = "mark"      -> [f EXCEPT !.marker = TRUE]
    [] op.do = "purge"     -> [f EXCEPT !.content = @ \ Cache]
    [] op.do = "clear"     -> [f EXCEPT !.content = {}]
    [] op.do = "reset"     -> [f EXCEPT !.device = @ + 1]
    [] op.do = "lift"      -> [f EXCEPT !.marker = FALSE]
    [] OTHER               -> f

File == [content : SUBSET Keys, setting : Setting, marker : BOOLEAN, device : 0..MaxDeletes]

Unread == [content |-> {}, setting |-> CHOOSE v \in Setting : TRUE, marker |-> FALSE,
           device |-> 0]

Waiting(op) == [op |-> op, read |-> FALSE, saw |-> Unread]
Seen(e, f) == [e EXCEPT !.read = TRUE, !.saw = f]

-----------------------------------------------------------------------------
(* Instances. *)

Fresh == [mode |-> "loading", queue |-> <<Waiting([do |-> "look"])>>, sealed |-> FALSE,
          layerSealed |-> FALSE, retired |-> FALSE, writes |-> {}, inFlight |-> {}]

Newest == Len(instance)

Enqueued(x, op) == [x EXCEPT !.queue = Append(@, Waiting(op))]

\* Bug: the flush does not ask whether the instance is sealed.
UnloadedFlushing(x) ==
  {Enqueued([x EXCEPT !.mode = "unloaded", !.retired = TRUE], [do |-> "store", key |-> k]) :
     k \in Records}

\* `OleaPlugin.onunload`: a sealed instance flushes nothing.
Unloaded(x) ==
  LET retired == [x EXCEPT !.mode = "unloaded", !.retired = TRUE]
  IN  IF x.sealed \/ Records = {} THEN {retired}
      ELSE {Enqueued(retired, [do |-> "store", key |-> k]) : k \in Records}

\* Bug: only the settings file is released.
ReleasedHalf(x) == IF x.retired THEN x ELSE [x EXCEPT !.sealed = FALSE]

\* `release` of both seals: a retired instance stays sealed.
Released(x) ==
  IF x.retired THEN x ELSE [x EXCEPT !.sealed = FALSE, !.layerSealed = FALSE]

Working(i) == instance[i].mode \in {"running", "unloaded"}

\* The stores of instance i save a key or the setting.
Save(i) ==
  /\ Working(i) /\ ~instance[i].sealed
  /\ Len(instance[i].queue) < MaxPending
  /\ \E op \in Stores \cup Configures :
       instance' = [instance EXCEPT ![i] = Enqueued(@, op)]
  /\ UNCHANGED <<file, layer, delete, removedBy, wiped, failures>>

\* A write under `.olea/` starts.
Write(i) ==
  /\ Working(i) /\ ~instance[i].layerSealed
  /\ \E f \in Files \ instance[i].writes :
       instance' = [instance EXCEPT ![i].writes = @ \cup {f}, ![i].inFlight = @ \cup {f}]
  /\ UNCHANGED <<file, layer, delete, removedBy, wiped, failures>>

WriteLands(i) ==
  /\ \E f \in instance[i].writes :
       /\ layer' = layer \cup {f}
       /\ instance' = [instance EXCEPT ![i].writes = @ \ {f}, ![i].inFlight = @ \ {f}]
  /\ UNCHANGED <<file, delete, removedBy, wiped, failures>>

Fails == failures < MaxFailures /\ failures' = failures + 1

\* Bug: a failed write is never taken from `inFlight`.
StillInFlightForever(i, f) == instance[i].inFlight

\* What is in flight once the write of f failed.
StillInFlight(i, f) == instance[i].inFlight \ {f}

WriteFails(i) ==
  /\ Fails
  /\ \E f \in instance[i].writes :
       instance' = [instance EXCEPT ![i].writes = @ \ {f}, ![i].inFlight = StillInFlight(i, f)]
  /\ UNCHANGED <<file, layer, delete, removedBy, wiped>>

-----------------------------------------------------------------------------
(* The delete. *)

NoDelete == [by |-> 0, at |-> "none", todo |-> {}]

\* Bug: the marker is saved once the purge is done.
PhasesMarkingLate == <<"sealing", "draining", "purge", "mark", "drafts", "artifacts",
                       "remaining", "clear", "reset", "reload">>

Phases == <<"sealing", "draining", "mark", "purge", "drafts", "artifacts", "remaining",
            "clear", "reset", "reload">>

NextPhase(at) == Phases[1 + CHOOSE n \in 1..Len(Phases) : Phases[n] = at]

\* The files a phase removes.  The draft index may name fewer drafts than there are.
Found(at) ==
  CASE at = "drafts"    -> SUBSET (layer \cap Drafts)
    [] at = "artifacts" -> {layer \cap Logs}
    [] at = "remaining" -> {layer}
    [] OTHER            -> {{}}

\* The delete is at another phase; what it does to the settings file is queued.
Goes(at, pool) ==
  /\ \E todo \in Found(at) : delete' = [delete EXCEPT !.at = at, !.todo = todo]
  /\ instance' = IF at \in Plain
                 THEN [pool EXCEPT ![delete.by] = Enqueued(@, [do |-> at])]
                 ELSE pool

\* The delete ends and no reload unloaded its instance: `finally` releases the seals.
Ends(pool) ==
  /\ delete' = NoDelete
  /\ instance' = [pool EXCEPT ![delete.by] = Released(@)]
  /\ wiped' = (wiped /\ instance[delete.by].retired)

\* `FullDeleteWriteSeal.seal`: both seals close, then the queue is waited for.
Seals(x) == Enqueued([x EXCEPT !.sealed = TRUE, !.layerSealed = TRUE], [do |-> "barrier"])

\* Her second click on "Delete everything".
Click(i) ==
  /\ instance[i].mode = "running" /\ delete.at = "none"
  /\ file.device < MaxDeletes
  /\ instance' = [instance EXCEPT ![i] = Seals(@)]
  /\ delete' = [NoDelete EXCEPT !.by = i, !.at = "sealing"]
  /\ UNCHANGED <<file, layer, removedBy, wiped, failures>>

\* Bug: the seal does not wait for the writes under way.
AwaitedNone(i) == {}

\* The writes the seal waits for.
Awaited(i) == instance[i].inFlight

\* The writes under way when the seal closed have settled.
Drained ==
  /\ delete.at = "draining" /\ Awaited(delete.by) = {}
  /\ Goes(NextPhase("draining"), instance)
  /\ UNCHANGED <<file, layer, removedBy, wiped, failures>>

\* The seal failed: its settings half is already lifted.
Abandoned ==
  /\ delete.at = "abandoned" /\ Awaited(delete.by) = {}
  /\ delete' = NoDelete
  /\ instance' = [instance EXCEPT ![delete.by].layerSealed = @ /\ instance[delete.by].retired]
  /\ UNCHANGED <<file, layer, removedBy, wiped, failures>>

Removing == delete.at \in {"drafts", "artifacts", "remaining"}

Removes ==
  /\ Removing
  /\ \E f \in delete.todo :
       /\ layer' = layer \ {f}
       /\ delete' = [delete EXCEPT !.todo = @ \ {f}]
  /\ removedBy' = delete.by
  /\ UNCHANGED <<file, instance, wiped, failures>>

\* The host refuses to delete a file, which stops the run.
RemoveFails ==
  /\ Removing /\ delete.todo # {}
  /\ Fails
  /\ Ends(instance)
  /\ UNCHANGED <<file, layer, removedBy>>

Removed ==
  /\ Removing /\ delete.todo = {}
  /\ Goes(NextPhase(delete.at), instance)
  /\ UNCHANGED <<file, layer, removedBy, wiped, failures>>

\* `reloadPluginAfterFullDelete`: the plugin is unloaded and loaded again.
Reload(i) ==
  /\ Newest < MaxInstances
  /\ \E x \in Unloaded(instance[i]) :
       instance' = Append([instance EXCEPT ![i] = x], Fresh)

DeleteReloads ==
  /\ delete.at = "reload"
  /\ Reload(delete.by)
  /\ delete' = NoDelete
  /\ UNCHANGED <<file, layer, removedBy, wiped, failures>>

\* The host has no way to reload a plugin.
DeleteStays ==
  /\ delete.at = "reload"
  /\ Ends(instance)
  /\ UNCHANGED <<file, layer, removedBy, failures>>

-----------------------------------------------------------------------------
(* The queue of the settings file. *)

Head1(i) == instance[i].queue[1]
HeadDo(i) == Head1(i).op.do
Advanced(i) == [instance EXCEPT ![i].queue = Tail(@)]

\* Bug: a read does not wait for the save before it.
TurnOfAny(i) == DOMAIN instance[i].queue

\* The operations of the queue that may run: each waits for the one before it.
Turn(i) == {1} \cap DOMAIN instance[i].queue

\* The read of a read-modify-write.
Loads(i) ==
  /\ \E n \in Turn(i) :
       LET e == instance[i].queue[n] IN
       /\ ~e.read /\ e.op.do \notin Reads
       /\ instance' = [instance EXCEPT ![i].queue[n] = Seen(e, file)]
  /\ UNCHANGED <<file, layer, delete, removedBy, wiped, failures>>

\* The save of a read-modify-write lands.
Lands(i) ==
  /\ instance[i].queue # <<>> /\ Head1(i).read
  /\ file' = Applied(Head1(i).op, Head1(i).saw)
  /\ IF HeadDo(i) \in {"mark", "purge", "clear", "reset"}
     THEN Goes(NextPhase(HeadDo(i)), Advanced(i))
     ELSE /\ UNCHANGED delete
          /\ instance' = IF HeadDo(i) = "lift"
                         THEN [Advanced(i) EXCEPT ![i].mode = "lifted"]
                         ELSE Advanced(i)
  /\ removedBy' = CASE HeadDo(i) \in {"purge", "clear"} -> i
                    [] HeadDo(i) = "lift" -> 0
                    [] OTHER -> removedBy
  /\ wiped' = CASE HeadDo(i) = "clear" -> TRUE
                [] HeadDo(i) = "lift" -> FALSE
                [] OTHER -> wiped
  /\ UNCHANGED <<layer, failures>>

\* `seal` waits for a read queued behind every earlier write.
SealTurns(i) ==
  /\ instance[i].queue # <<>> /\ HeadDo(i) = "barrier"
  /\ Goes(NextPhase("sealing"), Advanced(i))
  /\ UNCHANGED <<file, layer, removedBy, wiped, failures>>

\* `holdIfPausedAfterFullDelete`: while the marker is there the instance is sealed
\* and builds nothing.
Looks(i) ==
  /\ instance[i].queue # <<>> /\ HeadDo(i) = "look"
  /\ instance' = IF file.marker
                 THEN [Advanced(i) EXCEPT ![i].mode = "held", ![i].sealed = TRUE,
                                          ![i].layerSealed = TRUE]
                 ELSE [Advanced(i) EXCEPT ![i].mode = "running"]
  /\ UNCHANGED <<file, layer, delete, removedBy, wiped, failures>>

\* The read or the save fails; the next operation runs all the same.
OperationFails(i) ==
  /\ instance[i].queue # <<>> /\ Fails
  /\ CASE HeadDo(i) = "barrier" ->
            /\ delete' = [delete EXCEPT !.at = "abandoned"]
            /\ instance' = [Advanced(i) EXCEPT ![i].sealed = FALSE]
            /\ UNCHANGED wiped
       [] HeadDo(i) \in {"mark", "purge", "clear", "reset"} -> Ends(Advanced(i))
       [] HeadDo(i) = "look" ->
            /\ instance' = [Advanced(i) EXCEPT ![i].mode = "dead"]
            /\ UNCHANGED <<delete, wiped>>
       [] HeadDo(i) = "lift" ->
            /\ instance' = [Advanced(i) EXCEPT ![i].mode = "held"]
            /\ UNCHANGED <<delete, wiped>>
       [] OTHER -> instance' = Advanced(i) /\ UNCHANGED <<delete, wiped>>
  /\ UNCHANGED <<file, layer, removedBy>>

-----------------------------------------------------------------------------
(* Starts and stops. *)

\* She chooses Start.
Start(i) ==
  /\ instance[i].mode = "held"
  /\ instance' = [instance EXCEPT ![i] =
                    Enqueued([@ EXCEPT !.mode = "starting"], [do |-> "lift"])]
  /\ UNCHANGED <<file, layer, delete, removedBy, wiped, failures>>

StartReloads(i) ==
  /\ instance[i].mode = "lifted"
  /\ Reload(i)
  /\ UNCHANGED <<file, layer, delete, removedBy, wiped, failures>>

StartStays(i) ==
  /\ instance[i].mode = "lifted"
  /\ instance' = [instance EXCEPT ![i].mode = "held"]
  /\ UNCHANGED <<file, layer, delete, removedBy, wiped, failures>>

\* The plugin is disabled, or the program is closed.
Unload(i) ==
  /\ instance[i].mode = "running"
  /\ \E x \in Unloaded(instance[i]) : instance' = [instance EXCEPT ![i] = x]
  /\ UNCHANGED <<file, layer, delete, removedBy, wiped, failures>>

Dead == [Fresh EXCEPT !.mode = "dead", !.queue = <<>>]

\* The process dies, at any instant, and is started again.
Restart ==
  /\ Newest < MaxInstances
  /\ instance' = Append([i \in 1..Newest |-> Dead], Fresh)
  /\ delete' = NoDelete
  /\ UNCHANGED <<file, layer, removedBy, wiped, failures>>

Init ==
  /\ file = Unread
  /\ layer = {}
  /\ instance = <<Fresh>>
  /\ delete = NoDelete
  /\ removedBy = 0
  /\ wiped = FALSE
  /\ failures = 0

QueueTurns(i) == Loads(i) \/ Lands(i) \/ SealTurns(i) \/ Looks(i) \/ OperationFails(i)
WriteSettles(i) == WriteLands(i) \/ WriteFails(i)
DeleteSteps == Drained \/ Abandoned \/ Removes \/ RemoveFails \/ Removed
               \/ DeleteReloads \/ DeleteStays

Next ==
  \/ \E i \in 1..Newest : Save(i) \/ Write(i) \/ WriteSettles(i) \/ Click(i)
                          \/ QueueTurns(i) \/ Start(i) \/ StartReloads(i) \/ StartStays(i)
                          \/ Unload(i)
  \/ DeleteSteps
  \/ Restart

Fairness ==
  /\ \A i \in 1..MaxInstances :
       /\ WF_vars(i <= Newest /\ QueueTurns(i))
       /\ WF_vars(i <= Newest /\ WriteSettles(i))
  /\ WF_vars(DeleteSteps)

Spec == Init /\ [][Next]_vars /\ Fairness

-----------------------------------------------------------------------------
(* Properties. *)

Instance ==
  [mode : {"loading", "running", "held", "starting", "lifted", "unloaded", "dead"},
   queue : Seq([op : Operation, read : BOOLEAN, saw : File]),
   sealed : BOOLEAN, layerSealed : BOOLEAN, retired : BOOLEAN,
   writes : SUBSET Files, inFlight : SUBSET Files]

\* Types; only the first operation of a queue has read (serializing-data-host.ts:153-157).
TypeOK ==
  /\ file \in File
  /\ layer \subseteq Files
  /\ Newest \in 1..MaxInstances
  /\ \A i \in 1..Newest :
       /\ instance[i] \in Instance
       /\ \A n \in DOMAIN instance[i].queue : instance[i].queue[n].read => n = 1
  /\ delete.by \in 0..Newest /\ delete.todo \subseteq Files
  /\ delete.at \in {Phases[n] : n \in DOMAIN Phases} \cup {"none", "abandoned"}
  /\ removedBy \in 0..Newest
  /\ wiped \in BOOLEAN
  /\ failures \in 0..MaxFailures

\* No writer puts back what a delete cleared, be it a job of the old instance, its
\* unload, a write under way or a later start, until she chooses Start
\* (settings-section.ts:17-25); and once it removed anything, whatever step it was
\* interrupted at, no later instance runs before then (full-delete.ts:9-16).
NothingComesBack ==
  /\ wiped => file.content = {} /\ layer = {}
  /\ removedBy # 0 => \A i \in 1..Newest : i > removedBy => instance[i].mode # "running"

\* An instance that runs on after a delete writes again, in both places: neither seal
\* outlives a delete that failed or could not reload (settings-section.ts:26-29).
RunsUnsealed ==
  \A i \in 1..Newest :
    instance[i].mode = "running" /\ delete.by # i
      => ~instance[i].sealed /\ ~instance[i].layerSealed

\* The device id is replaced only when no file is left that it names: a delete that
\* stopped earlier can find them on a retry (full-delete.ts:84-86).
IdKeptWhileFilesRemain == [][file'.device # file.device => layer = {}]_vars

\* A save changes its own key and loses nothing another save wrote
\* (serializing-data-host.ts:123-129).
SavesMerge == [][file' # file => \E op \in Operation : file' = Applied(op, file)]_vars

\* A delete she clicked ends, whatever fails: nothing it waits for waits for it.
DeleteEnds == delete.at # "none" ~> delete.at = "none"
=============================================================================
