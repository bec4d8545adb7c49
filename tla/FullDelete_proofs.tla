--------------------------- MODULE FullDelete_proofs ---------------------------
(***************************************************************************)
(* Proofs about FullDelete: its types, that nothing comes back after a     *)
(* delete, that an instance that runs on writes again, that the device id  *)
(* outlives the files it names, and that no save loses another's, for      *)
(* every set of keys and files and every bound.                            *)
(*                                                                         *)
(* The invariant behind them: every instance but the newest is gone, with  *)
(* nothing queued and nothing under way, so that what the newest read of   *)
(* the settings file is still the file when it saves; and what the newest  *)
(* has queued, sealed and under way follows from where it and the delete   *)
(* stand.                                                                  *)
(***************************************************************************)
EXTENDS FullDelete, SequenceTheorems, TLAPS

-----------------------------------------------------------------------------
(* The inductive invariant. *)

Entry == [op : Operation, read : BOOLEAN, saw : File]
At == {Phases[n] : n \in DOMAIN Phases} \cup {"none", "abandoned"}

\* TypeOK, of an instance and of the rest; `delete` is a record.
InstanceTypes(x) == x \in Instance /\ \A n \in DOMAIN x.queue : x.queue[n].read => n = 1

Types ==
  /\ file \in File
  /\ layer \subseteq Files
  /\ instance \in Seq(Instance) /\ Newest \in 1..MaxInstances
  /\ \A i \in 1..Newest : InstanceTypes(instance[i])
  /\ delete \in [by : 0..Newest, at : At, todo : SUBSET Files]
  /\ removedBy \in 0..Newest
  /\ wiped \in BOOLEAN
  /\ failures \in 0..MaxFailures

\* An instance that was unloaded by a reload, or whose process died.
Gone(x) ==
  /\ x.mode \in {"unloaded", "dead"}
  /\ x.queue = <<>> /\ x.writes = {} /\ x.inFlight = {}
  /\ x.mode = "unloaded" => x.sealed /\ x.layerSealed

OldAreGone == \A i \in 1..(Newest - 1) : Gone(instance[i])

\* x has queued this operation and no other.
Awaits(x, do) == Len(x.queue) = 1 /\ x.queue[1].op.do = do

Saving == {"store", "configure"}

\* What x has queued, the delete standing at `at`.
QueueFits(x, at) ==
  /\ at \in {"mark", "purge", "clear", "reset"} => Awaits(x, at)
  /\ at = "sealing" =>
       /\ x.queue # <<>>
       /\ \A n \in DOMAIN x.queue :
            IF n = Len(x.queue) THEN x.queue[n].op.do = "barrier"
            ELSE x.queue[n].op.do \in Saving
  /\ at \in {"draining", "drafts", "artifacts", "remaining", "reload"} => x.queue = <<>>
  /\ at \in {"none", "abandoned"} =>
       /\ x.mode = "loading" => Awaits(x, "look")
       /\ x.mode = "starting" => Awaits(x, "lift")
       /\ x.mode \in {"held", "lifted", "dead"} => x.queue = <<>>
       /\ x.mode \in {"running", "unloaded"} =>
            /\ \A n \in DOMAIN x.queue : x.queue[n].op.do \in Saving
            /\ x.sealed => x.queue = <<>>

\* What of x is sealed, and what it has under way.
SealsFit(x, at) ==
  /\ at # "none" => x.mode \in {"running", "unloaded"} /\ x.layerSealed
  /\ at \notin {"none", "abandoned"} => x.sealed
  /\ at \in {"none", "abandoned"} /\ x.mode = "running" => ~x.sealed
  /\ at = "none" /\ x.mode = "running" => ~x.layerSealed
  /\ x.mode = "loading" => ~x.sealed /\ ~x.layerSealed
  /\ x.mode \in {"held", "starting", "lifted"} => x.sealed /\ x.layerSealed
  /\ x.retired <=> x.mode = "unloaded"
  /\ x.writes \subseteq x.inFlight
  /\ at \notin {"none", "sealing", "draining", "abandoned"} => x.inFlight = {}
  /\ x.mode \notin {"running", "unloaded"} => x.inFlight = {}

\* The delete is the newest instance's, and has done what comes before where it stands.
DeleteFits(f, l, d, n) ==
  /\ d.at = "none" => d = NoDelete
  /\ d.at # "none" => d.by = n
  /\ d.at \notin {"none", "abandoned", "reload"} => f.device < MaxDeletes
  /\ d.at \in {"purge", "drafts", "artifacts", "remaining", "clear", "reset", "reload"}
       => f.marker
  /\ d.at = "remaining" => l \subseteq d.todo
  /\ d.at \in {"clear", "reset", "reload"} => l = {}

\* What was removed stays so, and the marker with it.
RemovalFits(x, f, l, at, n, r, w) ==
  /\ r # 0 \/ w => f.marker
  /\ r # 0 /\ r < n => x.mode # "running"
  /\ w => /\ f.content = {} /\ l = {} /\ x.inFlight = {}
          /\ at \in {"none", "reset", "reload"}
          /\ at = "none" => x.mode # "running"
          /\ x.mode \in {"running", "unloaded"} => x.sealed /\ x.layerSealed

\* What x read of the settings file, for a save, is the file still.
ReadIsFile(x, f) ==
  x.queue # <<>> /\ x.queue[1].read => x.queue[1].saw = f /\ x.queue[1].op.do \notin Reads

Fits(x, f, l, d, n, r, w) ==
  /\ QueueFits(x, d.at) /\ SealsFit(x, d.at) /\ DeleteFits(f, l, d, n)
  /\ RemovalFits(x, f, l, d.at, n, r, w) /\ ReadIsFile(x, f)

IInv ==
  /\ Types /\ OldAreGone
  /\ Fits(instance[Newest], file, layer, delete, Newest, removedBy, wiped)

-----------------------------------------------------------------------------
(* Operations, and the records of instances. *)

\* The phases, one by one.
LEMMA Stages ==
  /\ At = {"sealing", "draining", "mark", "purge", "drafts", "artifacts", "remaining",
           "clear", "reset", "reload", "none", "abandoned"}
  /\ NextPhase("sealing") = "draining" /\ NextPhase("draining") = "mark"
  /\ NextPhase("mark") = "purge" /\ NextPhase("purge") = "drafts"
  /\ NextPhase("drafts") = "artifacts" /\ NextPhase("artifacts") = "remaining"
  /\ NextPhase("remaining") = "clear" /\ NextPhase("clear") = "reset"
  /\ NextPhase("reset") = "reload"
<1>1. DOMAIN Phases = 1..10 /\ Len(Phases) = 10
  BY DEF Phases
<1>2. /\ Phases[1] = "sealing" /\ Phases[2] = "draining" /\ Phases[3] = "mark"
      /\ Phases[4] = "purge" /\ Phases[5] = "drafts" /\ Phases[6] = "artifacts"
      /\ Phases[7] = "remaining" /\ Phases[8] = "clear" /\ Phases[9] = "reset"
      /\ Phases[10] = "reload"
  BY DEF Phases
<1>3. \A n \in 1..10 : n = 1 \/ n = 2 \/ n = 3 \/ n = 4 \/ n = 5 \/ n = 6 \/ n = 7 \/ n = 8
                       \/ n = 9 \/ n = 10
  OBVIOUS
<1>4. ASSUME NEW n \in 1..9
      PROVE  NextPhase(Phases[n]) = Phases[n + 1]
  <2>1. \A m \in 1..10 : Phases[m] = Phases[n] => m = n
    BY <1>2, <1>3
  <2>2. (CHOOSE m \in 1..Len(Phases) : Phases[m] = Phases[n]) = n
    BY <1>1, <2>1
  <2>3. NextPhase(Phases[n]) = Phases[1 + n]
    BY <2>2, Zenon DEF NextPhase
  <2>. QED
    BY <2>3
<1>5. At = {"sealing", "draining", "mark", "purge", "drafts", "artifacts", "remaining",
            "clear", "reset", "reload", "none", "abandoned"}
  BY <1>1, <1>2, <1>3 DEF At
<1>. HIDE DEF Phases
<1>. QED
  BY <1>2, <1>4, <1>5

\* Each bound is a number.
LEMMA Bounds ==
  /\ MaxInstances \in Nat /\ MaxPending \in Nat /\ MaxDeletes \in Nat
  /\ MaxFailures \in Nat
  BY Assumption, Zenon

\* What an operation is, and carries.
LEMMA OperationCases ==
  ASSUME NEW op \in Operation
  PROVE  /\ op.do \in Saving \cup Plain \cup Reads
         /\ op.do = "store" => op.key \in Keys
         /\ op.do = "configure" => op.to \in Setting
  BY DEF Operation, Stores, Configures, Saving, Plain, Reads

\* What an operation makes of a settings file is one; only "mark" and "lift" touch the
\* marker, only "reset" the device id, and only "store" adds content.
LEMMA AppliedFile ==
  ASSUME NEW op \in Operation, NEW f \in File, op.do = "reset" => f.device < MaxDeletes
  PROVE  /\ Applied(op, f) \in File
         /\ op.do # "reset" => Applied(op, f).device = f.device
         /\ op.do = "mark" => Applied(op, f).marker
         /\ op.do \notin {"mark", "lift"} => Applied(op, f).marker = f.marker
         /\ op.do # "store" /\ f.content = {} => Applied(op, f).content = {}
         /\ op.do = "clear" => Applied(op, f).content = {}
<1>. USE OperationCases, Assumption DEF Applied, File, Saving, Plain, Reads, Keys
<1>1. CASE op.do = "store"
  BY <1>1
<1>2. CASE op.do = "configure"
  BY <1>2
<1>3. CASE op.do = "mark"
  BY <1>3
<1>4. CASE op.do = "purge"
  BY <1>4
<1>5. CASE op.do = "clear"
  BY <1>5
<1>6. CASE op.do = "reset"
  BY <1>6
<1>7. CASE op.do = "lift"
  BY <1>7
<1>8. CASE op.do \in Reads
  BY <1>8
<1>. QED
  BY <1>1, <1>2, <1>3, <1>4, <1>5, <1>6, <1>7, <1>8

\* An instance that queues an operation.
LEMMA EnqueuedInstance ==
  ASSUME NEW x, InstanceTypes(x), NEW op \in Operation
  PROVE  LET y == Enqueued(x, op) IN
         /\ InstanceTypes(y)
         /\ y.queue = Append(x.queue, Waiting(op)) /\ Waiting(op).op = op /\ ~Waiting(op).read
         /\ y = [x EXCEPT !.queue = Append(x.queue, Waiting(op))]
<1>1. Unread \in File
  BY Assumption DEF Unread, File
<1>2. Waiting(op) \in Entry /\ Waiting(op).op = op /\ ~Waiting(op).read
  BY <1>1 DEF Waiting, Entry
<1>3. x.queue \in Seq(Entry) /\ x \in Instance
  BY DEF InstanceTypes, Instance, Entry
<1>. DEFINE q == Append(x.queue, Waiting(op))
<1>4. q \in Seq(Entry) /\ \A n \in DOMAIN q : q[n].read => n = 1
  BY <1>2, <1>3 DEF InstanceTypes
<1>5. Enqueued(x, op) = [x EXCEPT !.queue = q]
  BY DEF Enqueued
<1>. HIDE DEF q
<1>6. [x EXCEPT !.queue = q] \in Instance /\ [x EXCEPT !.queue = q].queue = q
  BY <1>3, <1>4 DEF Instance, Entry
<1>. QED
  BY <1>2, <1>4, <1>5, <1>6 DEF InstanceTypes, q

\* An instance whose first operation is done.
LEMMA AdvancedInstance ==
  ASSUME NEW x, InstanceTypes(x), x.queue # <<>>
  PROVE  LET y == [x EXCEPT !.queue = Tail(x.queue)] IN
         /\ InstanceTypes(y)
         /\ y.queue = Tail(x.queue) /\ Len(y.queue) = Len(x.queue) - 1
         /\ \A n \in DOMAIN y.queue : n + 1 \in DOMAIN x.queue /\ y.queue[n] = x.queue[n + 1]
                                       /\ ~y.queue[n].read
<1>1. x.queue \in Seq(Entry) /\ x \in Instance
  BY DEF InstanceTypes, Instance, Entry
<1>. DEFINE q == Tail(x.queue)
<1>2. /\ q \in Seq(Entry) /\ Len(q) = Len(x.queue) - 1
      /\ \A n \in DOMAIN q : n + 1 \in DOMAIN x.queue /\ q[n] = x.queue[n + 1]
  BY <1>1
<1>3. \A n \in DOMAIN q : ~q[n].read
  BY <1>1, <1>2 DEF InstanceTypes
<1>. HIDE DEF q
<1>4. [x EXCEPT !.queue = q] \in Instance /\ [x EXCEPT !.queue = q].queue = q
  BY <1>1, <1>2 DEF Instance, Entry
<1>. QED
  BY <1>2, <1>3, <1>4 DEF InstanceTypes, q

-----------------------------------------------------------------------------
(* Steps of the newest instance. *)

\* The newest instance becomes y.
LEMMA NewestMoves ==
  ASSUME IInv, NEW y, InstanceTypes(y), instance' = [instance EXCEPT ![Newest] = y],
         file' \in File, layer' \subseteq Files,
         delete' \in [by : 0..Newest, at : At, todo : SUBSET Files],
         removedBy' \in 0..Newest, wiped' \in BOOLEAN, failures' \in 0..MaxFailures,
         Fits(y, file', layer', delete', Newest, removedBy', wiped')
  PROVE  IInv'
<1>1. instance \in Seq(Instance) /\ Newest \in 1..MaxInstances /\ MaxInstances \in Nat
  BY Assumption, Zenon DEF IInv, Types
<1>2. /\ instance' \in Seq(Instance) /\ Newest' = Newest /\ instance'[Newest] = y
      /\ \A i \in 1..Newest : i # Newest => instance'[i] = instance[i]
  BY <1>1, ExceptSeq DEF Newest, InstanceTypes
<1>3. \A i \in 1..Newest : InstanceTypes(instance'[i])
  BY <1>2 DEF IInv, Types
<1>4. Types'
  BY <1>1, <1>2, <1>3 DEF Types, InstanceTypes
<1>5. OldAreGone'
  BY <1>1, <1>2 DEF IInv, OldAreGone, Gone
<1>. QED
  BY <1>2, <1>4, <1>5 DEF IInv

\* A step that leaves the instances as they are.
LEMMA NewestStays ==
  ASSUME IInv, UNCHANGED instance, file' \in File, layer' \subseteq Files,
         delete' \in [by : 0..Newest, at : At, todo : SUBSET Files],
         removedBy' \in 0..Newest, wiped' \in BOOLEAN, failures' \in 0..MaxFailures,
         Fits(instance[Newest], file', layer', delete', Newest, removedBy', wiped')
  PROVE  IInv'
<1>1. instance \in Seq(Instance) /\ Newest \in 1..Len(instance)
  BY Assumption DEF IInv, Types, Newest
<1>2. instance' = [instance EXCEPT ![Newest] = instance[Newest]]
  BY <1>1
<1>3. InstanceTypes(instance[Newest])
  BY <1>1 DEF IInv, Types, Newest
<1>. HIDE DEF IInv, Fits
<1>. QED
  BY <1>2, <1>3, NewestMoves

\* What is loaded, or dead, is of the type of instances.
LEMMA FreshInstance ==
  /\ InstanceTypes(Fresh) /\ Awaits(Fresh, "look") /\ ~Fresh.queue[1].read
  /\ Fresh.mode = "loading" /\ ~Fresh.sealed /\ ~Fresh.layerSealed /\ ~Fresh.retired
  /\ Fresh.writes = {} /\ Fresh.inFlight = {}
  /\ InstanceTypes(Dead) /\ Gone(Dead)
<1>1. Unread \in File
  BY Assumption DEF Unread, File
<1>2. [do |-> "look"] \in Operation
  BY DEF Operation, Reads
<1>3. Waiting([do |-> "look"]) \in Entry /\ ~Waiting([do |-> "look"]).read
      /\ Waiting([do |-> "look"]).op.do = "look"
  BY <1>1, <1>2 DEF Waiting, Entry
<1>. DEFINE q == <<Waiting([do |-> "look"])>>
<1>4. q \in Seq(Entry) /\ Len(q) = 1 /\ ~q[1].read /\ q[1].op.do = "look"
  BY <1>3
<1>5. \A n \in DOMAIN q : q[n].read => n = 1
  OBVIOUS
<1>6. Fresh = [mode |-> "loading", queue |-> q, sealed |-> FALSE, layerSealed |-> FALSE,
               retired |-> FALSE, writes |-> {}, inFlight |-> {}]
  BY DEF Fresh
<1>. HIDE DEF q
<1>7. InstanceTypes(Fresh)
  BY <1>4, <1>5, <1>6 DEF InstanceTypes, Instance, Entry
<1>8. /\ Dead.mode = "dead" /\ Dead.queue = <<>>
      /\ Dead.writes = {} /\ Dead.inFlight = {}
  BY <1>6 DEF Dead
<1>9. Dead \in Instance
  <2>1. <<>> \in Seq(Entry) /\ Fresh \in Instance
    BY <1>7 DEF InstanceTypes
  <2>. QED
    BY <2>1 DEF Dead, Instance, Entry
<1>10. InstanceTypes(Dead) /\ Gone(Dead)
  BY <1>8, <1>9 DEF InstanceTypes, Gone
<1>. QED
  BY <1>4, <1>6, <1>7, <1>10 DEF Awaits

\* A new instance is loaded, every one before it being gone.
LEMMA NewestFollows ==
  ASSUME IInv, Newest < MaxInstances, NEW s \in Seq(Instance), Len(s) = Newest,
         \A i \in 1..Newest : InstanceTypes(s[i]) /\ Gone(s[i]),
         instance' = Append(s, Fresh), delete' = NoDelete,
         UNCHANGED <<file, layer, removedBy, wiped, failures>>
  PROVE  IInv'
<1>1. Newest \in 1..MaxInstances /\ MaxInstances \in Nat
  BY Assumption, Zenon DEF IInv, Types
<1>2. /\ instance' \in Seq(Instance) /\ Newest' = Newest + 1 /\ instance'[Newest'] = Fresh
      /\ \A i \in 1..Newest : instance'[i] = s[i]
  BY <1>1, FreshInstance DEF Newest, InstanceTypes
<1>3. \A i \in 1..Newest' : InstanceTypes(instance'[i])
  BY <1>1, <1>2, FreshInstance
<1>4. NoDelete \in [by : 0..Newest', at : At, todo : SUBSET Files]
  BY <1>1, <1>2, Stages DEF NoDelete
<1>5. Types'
  BY <1>1, <1>2, <1>3, <1>4 DEF IInv, Types
<1>6. OldAreGone'
  BY <1>1, <1>2 DEF OldAreGone
<1>7. Fits(Fresh, file, layer, NoDelete, Newest', removedBy, wiped)
  BY FreshInstance DEF IInv, Fits, QueueFits, SealsFit, DeleteFits, RemovalFits, ReadIsFile,
     NoDelete
<1>. QED
  BY <1>2, <1>5, <1>6, <1>7 DEF IInv

\* The instances that are gone do nothing.
LEMMA OnlyNewestActs ==
  ASSUME IInv, NEW i \in 1..Newest,
         Save(i) \/ Write(i) \/ WriteSettles(i) \/ Click(i) \/ QueueTurns(i) \/ Start(i)
         \/ StartReloads(i) \/ StartStays(i) \/ Unload(i)
  PROVE  i = Newest
<1>. SUFFICES ASSUME i # Newest
              PROVE  FALSE
  OBVIOUS
<1>1. Gone(instance[i])
  BY DEF IInv, Types, OldAreGone
<1>2. ~Save(i) /\ ~Write(i)
  BY <1>1 DEF Save, Write, Working, Gone
<1>3. ~WriteSettles(i)
  BY <1>1 DEF WriteSettles, WriteLands, WriteFails, Gone
<1>4. ~QueueTurns(i)
  BY <1>1 DEF QueueTurns, Loads, Turn, Lands, SealTurns, Looks, OperationFails, Gone
<1>5. ~Click(i) /\ ~Start(i) /\ ~StartReloads(i) /\ ~StartStays(i) /\ ~Unload(i)
  BY <1>1 DEF Click, Start, StartReloads, StartStays, Unload, Gone
<1>. QED
  BY <1>2, <1>3, <1>4, <1>5

-----------------------------------------------------------------------------
(* Each action keeps the invariant. *)

\* The newest instance, and the rest of the state, as IInv has them.
LEMMA Now ==
  ASSUME IInv
  PROVE  /\ instance \in Seq(Instance) /\ Newest \in 1..MaxInstances /\ MaxInstances \in Nat
         /\ Newest = Len(instance)
         /\ InstanceTypes(instance[Newest]) /\ instance[Newest] \in Instance
         /\ instance[Newest].queue \in Seq(Entry)
         /\ file \in File /\ layer \subseteq Files /\ removedBy \in 0..Newest
         /\ delete \in [by : 0..Newest, at : At, todo : SUBSET Files]
         /\ wiped \in BOOLEAN /\ failures \in 0..MaxFailures
         /\ Fits(instance[Newest], file, layer, delete, Newest, removedBy, wiped)
<1>1. MaxInstances \in Nat
  BY Assumption, Zenon
<1>2. instance \in Seq(Instance) /\ Newest \in 1..MaxInstances /\ Newest = Len(instance)
  BY DEF IInv, Types, Newest
<1>3. InstanceTypes(instance[Newest]) /\ instance[Newest] \in Instance
  BY <1>1, <1>2 DEF IInv, Types, InstanceTypes
<1>4. instance[Newest].queue \in Seq(Entry)
  BY <1>3 DEF Instance, Entry
<1>. QED
  BY <1>1, <1>2, <1>3, <1>4 DEF IInv, Types

LEMMA SaveIInv ==
  ASSUME IInv, Save(Newest)
  PROVE  IInv'
<1>. DEFINE x == instance[Newest]
<1>1. PICK op \in Stores \cup Configures :
         instance' = [instance EXCEPT ![Newest] = Enqueued(@, op)]
  BY DEF Save
<1>2. op \in Operation /\ op.do \in Saving
  BY DEF Operation, Stores, Configures, Saving
<1>. DEFINE y == Enqueued(x, op)
<1>3. /\ InstanceTypes(y)
      /\ y.queue = Append(x.queue, Waiting(op)) /\ Waiting(op).op = op /\ ~Waiting(op).read
      /\ y = [x EXCEPT !.queue = Append(x.queue, Waiting(op))]
  BY <1>2, Now, EnqueuedInstance
<1>4. x.mode \in {"running", "unloaded"} /\ ~x.sealed
  BY DEF Save, Working
<1>5. delete.at \in {"none", "abandoned"} /\ ~wiped
  BY <1>4, Now DEF Fits, SealsFit, RemovalFits
<1>6. /\ y.mode = x.mode /\ y.sealed = x.sealed /\ y.layerSealed = x.layerSealed
      /\ y.retired = x.retired /\ y.writes = x.writes /\ y.inFlight = x.inFlight
  BY <1>3, Now DEF Instance
<1>. HIDE DEF y
<1>7. QueueFits(y, delete.at)
  BY <1>2, <1>3, <1>4, <1>5, <1>6, Now DEF Fits, QueueFits
<1>8. ReadIsFile(y, file)
  BY <1>3, Now DEF Fits, ReadIsFile
<1>9. Fits(y, file, layer, delete, Newest, removedBy, wiped)
  BY <1>5, <1>6, <1>7, <1>8, Now DEF Fits, SealsFit, RemovalFits
<1>. QED
  BY <1>1, <1>3, <1>9, Now, NewestMoves DEF Save, y

LEMMA WriteIInv ==
  ASSUME IInv, Write(Newest)
  PROVE  IInv'
<1>. DEFINE x == instance[Newest]
<1>1. PICK f \in Files \ x.writes :
         instance' = [instance EXCEPT ![Newest].writes = @ \cup {f},
                                      ![Newest].inFlight = @ \cup {f}]
  BY DEF Write
<1>. DEFINE y == [x EXCEPT !.writes = @ \cup {f}, !.inFlight = @ \cup {f}]
<1>2. instance' = [instance EXCEPT ![Newest] = y]
  BY <1>1, Now
<1>3. /\ y \in Instance /\ y.writes = x.writes \cup {f} /\ y.inFlight = x.inFlight \cup {f}
      /\ y.mode = x.mode /\ y.sealed = x.sealed /\ y.layerSealed = x.layerSealed
      /\ y.retired = x.retired /\ y.queue = x.queue
  BY Now DEF Instance
<1>4. InstanceTypes(y)
  BY <1>3, Now DEF InstanceTypes
<1>5. x.mode \in {"running", "unloaded"} /\ ~x.layerSealed
  BY DEF Write, Working
<1>. HIDE DEF y
<1>6. Fits(y, file, layer, delete, Newest, removedBy, wiped)
  BY <1>3, <1>5, Now DEF Fits, QueueFits, SealsFit, DeleteFits, RemovalFits, ReadIsFile
<1>. QED
  BY <1>2, <1>4, <1>6, Now, NewestMoves DEF Write

\* A write that settles is under way no more.
LEMMA WriteSettlesIInv ==
  ASSUME IInv, WriteSettles(Newest)
  PROVE  IInv'
<1>. DEFINE x == instance[Newest]
<1>1. PICK f \in x.writes :
        /\ instance' = [instance EXCEPT ![Newest].writes = @ \ {f},
                                        ![Newest].inFlight = @ \ {f}]
        /\ layer' \in {layer, layer \cup {f}} /\ failures' \in 0..MaxFailures
        /\ UNCHANGED <<file, delete, removedBy, wiped>>
  <2>1. CASE WriteLands(Newest)
    BY <2>1, Now DEF WriteLands
  <2>2. CASE WriteFails(Newest)
    <3>1. failures' \in 0..MaxFailures
      BY <2>2, Now, Bounds DEF WriteFails, Fails
    <3>2. PICK f \in x.writes :
            instance' = [instance EXCEPT ![Newest].writes = @ \ {f},
                                         ![Newest].inFlight = x.inFlight \ {f}]
      BY <2>2 DEF WriteFails, StillInFlight
    <3>. QED
      BY <2>2, <3>1, <3>2, Now DEF WriteFails
  <2>. QED
    BY <2>1, <2>2 DEF WriteSettles
<1>. DEFINE y == [x EXCEPT !.writes = @ \ {f}, !.inFlight = @ \ {f}]
<1>2. instance' = [instance EXCEPT ![Newest] = y]
  BY <1>1, Now
<1>3. /\ y \in Instance /\ y.writes = x.writes \ {f} /\ y.inFlight = x.inFlight \ {f}
      /\ y.mode = x.mode /\ y.sealed = x.sealed /\ y.layerSealed = x.layerSealed
      /\ y.retired = x.retired /\ y.queue = x.queue
  BY Now DEF Instance
<1>4. InstanceTypes(y)
  BY <1>3, Now DEF InstanceTypes
<1>5. x.inFlight # {} /\ f \in Files
  BY Now DEF Instance, Fits, SealsFit
<1>6. delete.at \in {"none", "sealing", "draining", "abandoned"} /\ ~wiped
  BY <1>5, Now DEF Fits, SealsFit, RemovalFits
<1>. HIDE DEF y
<1>7. Fits(y, file, layer', delete, Newest, removedBy, wiped)
  BY <1>3, <1>6, Now DEF Fits, QueueFits, SealsFit, DeleteFits, RemovalFits, ReadIsFile
<1>. QED
  BY <1>1, <1>2, <1>4, <1>5, <1>7, Now, NewestMoves

LEMMA ClickIInv ==
  ASSUME IInv, Click(Newest)
  PROVE  IInv'
<1>. DEFINE x == instance[Newest]
            z == [x EXCEPT !.sealed = TRUE, !.layerSealed = TRUE]
            y == Enqueued(z, [do |-> "barrier"])
<1>1. x.mode = "running" /\ delete.at = "none" /\ file.device < MaxDeletes /\ ~wiped
  BY Now DEF Click, Fits, RemovalFits
<1>2. /\ z \in Instance /\ z.sealed /\ z.layerSealed /\ z.mode = "running" /\ z.queue = x.queue
      /\ z.writes = x.writes /\ z.inFlight = x.inFlight /\ z.retired = x.retired
  BY <1>1, Now DEF Instance
<1>3. InstanceTypes(z)
  BY <1>2, Now DEF InstanceTypes
<1>4. [do |-> "barrier"] \in Operation
  BY DEF Operation, Reads
<1>. HIDE DEF z
<1>5. /\ InstanceTypes(y)
      /\ y.queue = Append(x.queue, Waiting([do |-> "barrier"]))
      /\ Waiting([do |-> "barrier"]).op.do = "barrier" /\ ~Waiting([do |-> "barrier"]).read
      /\ y = [z EXCEPT !.queue = Append(x.queue, Waiting([do |-> "barrier"]))]
  <2>1. [do |-> "barrier"].do = "barrier"
    OBVIOUS
  <2>. DEFINE b == [do |-> "barrier"]
  <2>. HIDE DEF b
  <2>2. /\ InstanceTypes(Enqueued(z, b))
        /\ Enqueued(z, b).queue = Append(z.queue, Waiting(b))
        /\ Waiting(b).op = b /\ ~Waiting(b).read
        /\ Enqueued(z, b) = [z EXCEPT !.queue = Append(z.queue, Waiting(b))]
    BY <1>3, <1>4, EnqueuedInstance DEF b
  <2>. QED
    BY <1>2, <2>1, <2>2 DEF b
<1>6. /\ y.sealed /\ y.layerSealed /\ y.mode = "running" /\ y.retired = x.retired
      /\ y.writes = x.writes /\ y.inFlight = x.inFlight
  BY <1>2, <1>5 DEF Instance
<1>7. instance' = [instance EXCEPT ![Newest] = y]
  BY DEF Click, Seals, z
<1>8. delete' = [by |-> Newest, at |-> "sealing", todo |-> {}]
  BY DEF Click, NoDelete
<1>9. delete' \in [by : 0..Newest, at : At, todo : SUBSET Files]
  BY <1>8, Now, Stages
<1>. HIDE DEF y
<1>10. Fits(y, file, layer, delete', Newest, removedBy, wiped)
  <2>1. QueueFits(y, "sealing")
    <3>1. \A n \in DOMAIN x.queue : x.queue[n].op.do \in Saving
      BY <1>1, Now DEF Fits, QueueFits
    <3>. DEFINE e == Waiting([do |-> "barrier"])
    <3>2. e.op.do = "barrier" /\ y.queue = Append(x.queue, e)
      BY <1>5
    <3>. HIDE DEF e
    <3>3. /\ Len(y.queue) = Len(x.queue) + 1 /\ y.queue[Len(y.queue)] = e
          /\ DOMAIN y.queue = 1..Len(y.queue)
          /\ \A n \in 1..Len(x.queue) : y.queue[n] = x.queue[n]
      BY <3>2, Now
    <3>. QED
      BY <3>1, <3>2, <3>3, Now DEF QueueFits
  <2>2. SealsFit(y, "sealing") /\ DeleteFits(file, layer, delete', Newest)
    BY <1>1, <1>6, <1>8, Now DEF Fits, SealsFit, DeleteFits
  <2>3. RemovalFits(y, file, layer, "sealing", Newest, removedBy, wiped)
    BY <1>1, <1>6, Now DEF Fits, RemovalFits
  <2>4. ReadIsFile(y, file)
    BY <1>5, Now DEF Fits, ReadIsFile
  <2>. QED
    BY <1>8, <2>1, <2>2, <2>3, <2>4 DEF Fits
<1>. QED
  BY <1>5, <1>7, <1>9, <1>10, Now, NewestMoves DEF Click

\* The delete goes on to another phase, the newest instance being z but for what it queues.
LEMMA GoesOn ==
  ASSUME IInv, delete.by = Newest,
         NEW z, InstanceTypes(z), z.queue = <<>>,
         NEW at \in At \ {"none", "abandoned", "sealing"},
         Goes(at, [instance EXCEPT ![Newest] = z]), SealsFit(z, at),
         file' \in File, UNCHANGED <<layer, failures>>,
         removedBy' \in 0..Newest, wiped' \in BOOLEAN,
         at # "reload" => file'.device < MaxDeletes,
         at \notin {"draining", "mark"} => file'.marker,
         at \in {"clear", "reset", "reload"} => layer = {},
         RemovalFits(z, file', layer', at, Newest, removedBy', wiped')
  PROVE  IInv'
<1>1. PICK todo \in Found(at) : delete' = [delete EXCEPT !.at = at, !.todo = todo]
  BY DEF Goes
<1>2. todo \subseteq Files /\ (at = "remaining" => todo = layer)
  BY Now DEF Found, Files
<1>3. /\ delete' = [by |-> Newest, at |-> at, todo |-> todo]
      /\ delete' \in [by : 0..Newest, at : At, todo : SUBSET Files]
  BY <1>1, <1>2, Now
<1>. DEFINE pool == [instance EXCEPT ![Newest] = z]
<1>4. pool[Newest] = z /\ \A y : [pool EXCEPT ![Newest] = y] = [instance EXCEPT ![Newest] = y]
  BY Now
<1>5. DeleteFits(file', layer', delete', Newest)
  BY <1>2, <1>3 DEF DeleteFits
<1>6. CASE at \notin Plain
  <2>1. instance' = [instance EXCEPT ![Newest] = z]
    BY <1>6 DEF Goes
  <2>2. Fits(z, file', layer', delete', Newest, removedBy', wiped')
    BY <1>3, <1>5, <1>6 DEF Fits, QueueFits, ReadIsFile, Plain
  <2>. QED
    BY <1>3, <2>1, <2>2, Now, NewestMoves
<1>7. CASE at \in Plain
  <2>. DEFINE op == [do |-> at]
              y == Enqueued(z, op)
  <2>1. op \in Operation /\ op.do = at
    BY <1>7 DEF Operation
  <2>2. instance' = [instance EXCEPT ![Newest] = y]
    BY <1>4, <1>7 DEF Goes
  <2>. HIDE DEF op
  <2>3. /\ InstanceTypes(y) /\ y.queue = Append(z.queue, Waiting(op))
        /\ Waiting(op).op = op /\ ~Waiting(op).read
        /\ y = [z EXCEPT !.queue = Append(z.queue, Waiting(op))]
    BY <2>1, EnqueuedInstance
  <2>. HIDE DEF y
  <2>4. Len(y.queue) = 1 /\ y.queue[1].op.do = at /\ ~y.queue[1].read
    BY <2>1, <2>3
  <2>5. /\ y.mode = z.mode /\ y.sealed = z.sealed /\ y.layerSealed = z.layerSealed
        /\ y.retired = z.retired /\ y.writes = z.writes /\ y.inFlight = z.inFlight
    BY <2>3 DEF InstanceTypes, Instance
  <2>6. QueueFits(y, at) /\ SealsFit(y, at) /\ ReadIsFile(y, file')
    BY <1>7, <2>4, <2>5 DEF QueueFits, Awaits, SealsFit, ReadIsFile, Plain
  <2>7. RemovalFits(y, file', layer', at, Newest, removedBy', wiped')
    BY <2>5 DEF RemovalFits
  <2>8. Fits(y, file', layer', delete', Newest, removedBy', wiped')
    BY <1>3, <1>5, <2>6, <2>7 DEF Fits
  <2>. QED
    BY <1>3, <2>2, <2>3, <2>8, Now, NewestMoves
<1>. QED
  BY <1>6, <1>7

\* The same, of a delete that leaves the instance as it is.
LEMMA GoesFromHere ==
  ASSUME IInv, delete.at \in {"draining", "drafts", "artifacts", "remaining"},
         Goes(NextPhase(delete.at), instance),
         instance[Newest].inFlight = {}, delete.at # "draining" => delete.todo = {},
         UNCHANGED <<file, layer, removedBy, wiped, failures>>
  PROVE  IInv'
<1>. DEFINE x == instance[Newest]
            at == NextPhase(delete.at)
<1>1. /\ at \in {"mark", "artifacts", "remaining", "clear"}
      /\ at = "mark" <=> delete.at = "draining"
      /\ at = "clear" <=> delete.at = "remaining"
  BY Stages
<1>. HIDE DEF at
<1>2. /\ delete.by = Newest /\ x.queue = <<>> /\ x.sealed /\ x.layerSealed /\ ~wiped
      /\ x.mode \in {"running", "unloaded"} /\ x.writes \subseteq x.inFlight
      /\ x.retired <=> x.mode = "unloaded"
  BY Now DEF Fits, QueueFits, SealsFit, DeleteFits, RemovalFits
<1>3. SealsFit(x, at)
  BY <1>1, <1>2 DEF SealsFit
<1>4. /\ file.device < MaxDeletes /\ (delete.at # "draining" => file.marker)
      /\ delete.at = "remaining" => layer = {}
  BY Now DEF Fits, DeleteFits
<1>5. RemovalFits(x, file, layer, at, Newest, removedBy, wiped)
  BY <1>2, Now DEF Fits, RemovalFits
<1>6. Goes(at, [instance EXCEPT ![Newest] = x])
  <2>1. [instance EXCEPT ![Newest] = x] = instance
    BY Now
  <2>. QED
    BY <2>1 DEF at
<1>7. at \in At \ {"none", "abandoned", "sealing"}
  BY <1>1, Stages
<1>. QED
  BY <1>1, <1>2, <1>3, <1>4, <1>5, <1>6, <1>7, Now, GoesOn

LEMMA DrainedIInv ==
  ASSUME IInv, Drained
  PROVE  IInv'
<1>1. delete.at = "draining" /\ delete.by = Newest
  BY Now DEF Drained, Fits, DeleteFits
<1>. QED
  BY <1>1, GoesFromHere DEF Drained, Awaited

LEMMA RemovedIInv ==
  ASSUME IInv, Removed
  PROVE  IInv'
<1>1. delete.at \in {"drafts", "artifacts", "remaining"} /\ delete.todo = {}
  BY DEF Removed, Removing
<1>2. instance[Newest].inFlight = {}
  BY <1>1, Now DEF Fits, SealsFit
<1>. QED
  BY <1>1, <1>2, GoesFromHere DEF Removed

LEMMA RemovesIInv ==
  ASSUME IInv, Removes
  PROVE  IInv'
<1>1. PICK f \in delete.todo :
        layer' = layer \ {f} /\ delete' = [delete EXCEPT !.todo = @ \ {f}]
  BY DEF Removes
<1>2. delete.at \in {"drafts", "artifacts", "remaining"} /\ delete.by = Newest
  BY Now DEF Removes, Removing, Fits, DeleteFits
<1>3. /\ delete' = [by |-> Newest, at |-> delete.at, todo |-> delete.todo \ {f}]
      /\ delete' \in [by : 0..Newest, at : At, todo : SUBSET Files]
  BY <1>1, <1>2, Now
<1>4. Fits(instance[Newest], file, layer', delete', Newest, Newest, wiped)
  BY <1>1, <1>2, <1>3, Now DEF Fits, DeleteFits, RemovalFits
<1>. QED
  BY <1>1, <1>2, <1>3, <1>4, Now, NewestStays DEF Removes

\* The delete ends without a reload, the newest instance being z.
LEMMA EndsIInv ==
  ASSUME IInv, delete.at \notin {"none", "abandoned", "sealing"},
         NEW z, InstanceTypes(z), z.queue = <<>>, z.sealed, z.layerSealed,
         z.mode = instance[Newest].mode, z.retired = instance[Newest].retired,
         z.writes = instance[Newest].writes, z.inFlight = instance[Newest].inFlight,
         Ends([instance EXCEPT ![Newest] = z]),
         UNCHANGED <<file, layer, removedBy>>, failures' \in 0..MaxFailures
  PROVE  IInv'
<1>. DEFINE x == instance[Newest]
            y == Released(z)
<1>1. /\ delete.by = Newest /\ x.mode \in {"running", "unloaded"}
      /\ x.retired <=> x.mode = "unloaded"
      /\ x.writes \subseteq x.inFlight
  BY Now DEF Fits, SealsFit, DeleteFits
<1>2. instance' = [instance EXCEPT ![Newest] = y]
  BY <1>1, Now DEF Ends
<1>3. /\ y \in Instance /\ y.mode = x.mode /\ y.retired = x.retired /\ y.queue = <<>>
      /\ y.writes = x.writes /\ y.inFlight = x.inFlight
      /\ IF x.retired THEN y.sealed /\ y.layerSealed ELSE ~y.sealed /\ ~y.layerSealed
  BY DEF Released, InstanceTypes, Instance
<1>4. InstanceTypes(y)
  BY <1>3 DEF InstanceTypes
<1>5. wiped' \in BOOLEAN /\ (wiped' => wiped /\ x.retired)
  BY <1>1, Now DEF Ends
<1>6. delete' = NoDelete /\ delete' \in [by : 0..Newest, at : At, todo : SUBSET Files]
      /\ delete'.at = "none"
  BY Now, Stages DEF Ends, NoDelete
<1>. HIDE DEF y
<1>7. QueueFits(y, "none") /\ SealsFit(y, "none") /\ ReadIsFile(y, file)
  BY <1>1, <1>3 DEF QueueFits, SealsFit, ReadIsFile
<1>8. RemovalFits(y, file, layer, "none", Newest, removedBy, wiped')
  BY <1>1, <1>3, <1>5, Now DEF Fits, RemovalFits
<1>9. Fits(y, file, layer, delete', Newest, removedBy, wiped')
  BY <1>6, <1>7, <1>8 DEF Fits, DeleteFits
<1>. QED
  BY <1>2, <1>4, <1>5, <1>6, <1>9, Now, NewestMoves

\* The same, of a delete whose instance has nothing queued.
LEMMA EndsFromHere ==
  ASSUME IInv, delete.at \in {"drafts", "artifacts", "remaining", "reload"}, Ends(instance),
         UNCHANGED <<file, layer, removedBy>>, failures' \in 0..MaxFailures
  PROVE  IInv'
<1>. DEFINE x == instance[Newest]
<1>1. x.queue = <<>> /\ x.sealed /\ x.layerSealed
  BY Now DEF Fits, QueueFits, SealsFit
<1>2. [instance EXCEPT ![Newest] = x] = instance
  BY Now
<1>. QED
  BY <1>1, <1>2, Now, EndsIInv

LEMMA RemoveFailsIInv ==
  ASSUME IInv, RemoveFails
  PROVE  IInv'
<1>1. failures' \in 0..MaxFailures
  BY Now, Bounds DEF RemoveFails, Fails
<1>. QED
  BY <1>1, EndsFromHere DEF RemoveFails, Removing

LEMMA DeleteStaysIInv ==
  ASSUME IInv, DeleteStays
  PROVE  IInv'
  BY Now, EndsFromHere DEF DeleteStays

LEMMA AbandonedIInv ==
  ASSUME IInv, Abandoned
  PROVE  IInv'
<1>. DEFINE x == instance[Newest]
            y == [x EXCEPT !.layerSealed = x.layerSealed /\ x.retired]
<1>1. delete.at = "abandoned" /\ delete.by = Newest /\ x.inFlight = {}
  BY Now DEF Abandoned, Awaited, Fits, DeleteFits
<1>2. instance' = [instance EXCEPT ![Newest] = y]
  BY <1>1, Now DEF Abandoned
<1>3. /\ y \in Instance /\ y.mode = x.mode /\ y.sealed = x.sealed /\ y.retired = x.retired
      /\ y.writes = x.writes /\ y.inFlight = x.inFlight /\ y.queue = x.queue
      /\ y.layerSealed = (x.layerSealed /\ x.retired)
  BY Now DEF Instance
<1>4. InstanceTypes(y)
  BY <1>3, Now DEF InstanceTypes
<1>5. delete' = NoDelete /\ delete' \in [by : 0..Newest, at : At, todo : SUBSET Files]
      /\ delete'.at = "none"
  BY Now, Stages DEF Abandoned, NoDelete
<1>. HIDE DEF y
<1>6. Fits(y, file, layer, delete', Newest, removedBy, wiped)
  BY <1>1, <1>3, <1>5, Now
  DEF Fits, QueueFits, SealsFit, DeleteFits, RemovalFits, ReadIsFile
<1>. QED
  BY <1>2, <1>4, <1>5, <1>6, Now, NewestMoves DEF Abandoned

\* An instance that was unloaded: sealed, it queued nothing more.
LEMMA UnloadedInstance ==
  ASSUME NEW x, InstanceTypes(x), NEW y \in Unloaded(x)
  PROVE  /\ InstanceTypes(y) /\ y.mode = "unloaded" /\ y.retired
         /\ y.sealed = x.sealed /\ y.layerSealed = x.layerSealed
         /\ y.writes = x.writes /\ y.inFlight = x.inFlight
         /\ x.sealed => y.queue = x.queue
         /\ \/ y.queue = x.queue
            \/ \E e \in Entry : e.op.do \in Saving /\ ~e.read /\ y.queue = Append(x.queue, e)
<1>. DEFINE z == [x EXCEPT !.mode = "unloaded", !.retired = TRUE]
<1>1. /\ z \in Instance /\ z.mode = "unloaded" /\ z.retired /\ z.queue = x.queue
      /\ z.sealed = x.sealed /\ z.layerSealed = x.layerSealed
      /\ z.writes = x.writes /\ z.inFlight = x.inFlight
  BY DEF InstanceTypes, Instance
<1>2. InstanceTypes(z)
  BY <1>1 DEF InstanceTypes
<1>3. CASE x.sealed \/ Records = {}
  BY <1>1, <1>2, <1>3 DEF Unloaded
<1>4. CASE ~(x.sealed \/ Records = {})
  <2>1. PICK k \in Records : y = Enqueued(z, [do |-> "store", key |-> k])
    BY <1>4 DEF Unloaded
  <2>. DEFINE op == [do |-> "store", key |-> k]
  <2>2. op \in Operation /\ op.do \in Saving
    BY DEF Operation, Stores, Keys, Saving
  <2>. HIDE DEF op, z
  <2>3. /\ InstanceTypes(y) /\ y.queue = Append(z.queue, Waiting(op))
        /\ Waiting(op).op = op /\ ~Waiting(op).read
        /\ y = [z EXCEPT !.queue = Append(z.queue, Waiting(op))]
    BY <1>2, <2>1, <2>2, EnqueuedInstance DEF op
  <2>4. Waiting(op) \in Entry
    BY <2>2, Assumption DEF Waiting, Entry, Unread, File
  <2>5. /\ y.mode = z.mode /\ y.sealed = z.sealed /\ y.layerSealed = z.layerSealed
        /\ y.retired = z.retired /\ y.writes = z.writes /\ y.inFlight = z.inFlight
    BY <1>1, <2>3 DEF Instance
  <2>. QED
    BY <1>1, <1>4, <2>2, <2>3, <2>4, <2>5
<1>. QED
  BY <1>3, <1>4

\* A reload, of an instance that is sealed and has nothing queued or under way.
LEMMA ReloadIInv ==
  ASSUME IInv, Reload(Newest), delete' = NoDelete,
         instance[Newest].sealed, instance[Newest].layerSealed,
         instance[Newest].queue = <<>>, instance[Newest].writes = {},
         instance[Newest].inFlight = {},
         UNCHANGED <<file, layer, removedBy, wiped, failures>>
  PROVE  IInv'
<1>1. PICK y \in Unloaded(instance[Newest]) :
        instance' = Append([instance EXCEPT ![Newest] = y], Fresh)
  BY DEF Reload
<1>2. InstanceTypes(y) /\ Gone(y)
  BY Now, UnloadedInstance DEF Gone
<1>. DEFINE s == [instance EXCEPT ![Newest] = y]
<1>3. s \in Seq(Instance) /\ Len(s) = Newest
  BY <1>2, Now, ExceptSeq DEF InstanceTypes
<1>4. \A i \in 1..Newest : InstanceTypes(s[i]) /\ Gone(s[i])
  BY <1>2, Now DEF IInv, Types, OldAreGone
<1>. HIDE DEF s
<1>. QED
  BY <1>1, <1>3, <1>4, NewestFollows DEF Reload, s

LEMMA DeleteReloadsIInv ==
  ASSUME IInv, DeleteReloads
  PROVE  IInv'
<1>1. /\ delete.by = Newest /\ instance[Newest].sealed /\ instance[Newest].layerSealed
      /\ instance[Newest].queue = <<>> /\ instance[Newest].inFlight = {}
      /\ instance[Newest].writes = {}
  BY Now DEF DeleteReloads, Fits, QueueFits, SealsFit, DeleteFits
<1>. QED
  BY <1>1, ReloadIInv DEF DeleteReloads

LEMMA StartReloadsIInv ==
  ASSUME IInv, StartReloads(Newest)
  PROVE  IInv'
<1>1. /\ instance[Newest].sealed /\ instance[Newest].layerSealed
      /\ instance[Newest].queue = <<>> /\ instance[Newest].inFlight = {}
      /\ instance[Newest].writes = {} /\ delete = NoDelete
  BY Now, Stages DEF StartReloads, Fits, QueueFits, SealsFit, DeleteFits
<1>. QED
  BY <1>1, ReloadIInv DEF StartReloads

LEMMA RestartIInv ==
  ASSUME IInv, Restart
  PROVE  IInv'
<1>. DEFINE s == [i \in 1..Newest |-> Dead]
<1>1. s \in Seq(Instance) /\ Len(s) = Newest
  BY Now, FreshInstance DEF InstanceTypes
<1>2. \A i \in 1..Newest : InstanceTypes(s[i]) /\ Gone(s[i])
  BY FreshInstance
<1>. HIDE DEF s
<1>. QED
  BY <1>1, <1>2, NewestFollows DEF Restart, s

LEMMA UnloadIInv ==
  ASSUME IInv, Unload(Newest)
  PROVE  IInv'
<1>. DEFINE x == instance[Newest]
<1>1. PICK y \in Unloaded(x) : instance' = [instance EXCEPT ![Newest] = y]
  BY DEF Unload
<1>2. /\ InstanceTypes(y) /\ y.mode = "unloaded" /\ y.retired
      /\ y.sealed = x.sealed /\ y.layerSealed = x.layerSealed
      /\ y.writes = x.writes /\ y.inFlight = x.inFlight
      /\ x.sealed => y.queue = x.queue
  BY Now, UnloadedInstance
<1>3. \/ y.queue = x.queue
      \/ \E e \in Entry : e.op.do \in Saving /\ ~e.read /\ y.queue = Append(x.queue, e)
  BY Now, UnloadedInstance
<1>4. x.mode = "running"
  BY DEF Unload
<1>5. SealsFit(y, delete.at) /\ RemovalFits(y, file, layer, delete.at, Newest, removedBy, wiped)
  BY <1>2, <1>4, Now DEF Fits, SealsFit, RemovalFits
<1>6. CASE x.sealed
  BY <1>1, <1>2, <1>4, <1>5, <1>6, Now, NewestMoves
  DEF Unload, Fits, QueueFits, Awaits, SealsFit, ReadIsFile
<1>7. CASE ~x.sealed
  <2>1. delete.at \in {"none", "abandoned"}
    BY <1>7, Now DEF Fits, SealsFit
  <2>2. \A n \in DOMAIN x.queue : x.queue[n].op.do \in Saving
    BY <1>4, <2>1, Now DEF Fits, QueueFits
  <2>3. /\ \A n \in DOMAIN y.queue : y.queue[n].op.do \in Saving
        /\ ReadIsFile(y, file)
    <3>1. CASE y.queue = x.queue
      BY <2>2, <3>1, Now DEF Fits, ReadIsFile
    <3>2. CASE \E e \in Entry : e.op.do \in Saving /\ ~e.read /\ y.queue = Append(x.queue, e)
      BY <2>2, <3>2, Now DEF Fits, ReadIsFile
    <3>. QED
      BY <1>3, <3>1, <3>2
  <2>4. QueueFits(y, delete.at)
    BY <1>2, <1>7, <2>1, <2>3 DEF QueueFits
  <2>5. Fits(y, file, layer, delete, Newest, removedBy, wiped)
    BY <1>5, <2>3, <2>4, Now DEF Fits
  <2>. QED
    BY <1>1, <1>2, <2>5, Now, NewestMoves DEF Unload
<1>. QED
  BY <1>6, <1>7

LEMMA StartIInv ==
  ASSUME IInv, Start(Newest)
  PROVE  IInv'
<1>. DEFINE x == instance[Newest]
            z == [x EXCEPT !.mode = "starting"]
            op == [do |-> "lift"]
            y == Enqueued(z, op)
<1>1. x.mode = "held" /\ delete.at = "none" /\ x.queue = <<>>
  BY Now, Stages DEF Start, Fits, SealsFit, QueueFits
<1>2. /\ z \in Instance /\ z.mode = "starting" /\ z.queue = <<>> /\ z.sealed = x.sealed
      /\ z.layerSealed = x.layerSealed /\ z.retired = x.retired
      /\ z.writes = x.writes /\ z.inFlight = x.inFlight
  BY <1>1, Now DEF Instance
<1>3. InstanceTypes(z) /\ op \in Operation /\ op.do = "lift"
  <2>1. op \in Operation /\ op.do = "lift"
    BY DEF Operation, Plain
  <2>2. InstanceTypes(z)
    BY <1>2 DEF InstanceTypes
  <2>. QED
    BY <2>1, <2>2
<1>4. instance' = [instance EXCEPT ![Newest] = y]
  BY DEF Start
<1>. HIDE DEF z, op
<1>5. /\ InstanceTypes(y) /\ y.queue = Append(z.queue, Waiting(op))
      /\ Waiting(op).op = op /\ ~Waiting(op).read
      /\ y = [z EXCEPT !.queue = Append(z.queue, Waiting(op))]
  BY <1>3, EnqueuedInstance
<1>. HIDE DEF y
<1>6. /\ y.mode = "starting" /\ y.sealed = x.sealed /\ y.layerSealed = x.layerSealed
      /\ y.retired = x.retired /\ y.writes = x.writes /\ y.inFlight = x.inFlight
      /\ Len(y.queue) = 1 /\ y.queue[1].op.do = "lift" /\ ~y.queue[1].read
  BY <1>2, <1>3, <1>5 DEF Instance
<1>7. Fits(y, file, layer, delete, Newest, removedBy, wiped)
  BY <1>1, <1>6, Now DEF Fits, QueueFits, Awaits, SealsFit, RemovalFits, ReadIsFile
<1>. QED
  BY <1>4, <1>5, <1>7, Now, NewestMoves DEF Start

LEMMA StartStaysIInv ==
  ASSUME IInv, StartStays(Newest)
  PROVE  IInv'
<1>. DEFINE x == instance[Newest]
            y == [x EXCEPT !.mode = "held"]
<1>1. x.mode = "lifted" /\ delete.at = "none" /\ x.queue = <<>>
  BY Now, Stages DEF StartStays, Fits, SealsFit, QueueFits
<1>2. /\ y \in Instance /\ y.mode = "held" /\ y.queue = <<>> /\ y.sealed = x.sealed
      /\ y.layerSealed = x.layerSealed /\ y.retired = x.retired
      /\ y.writes = x.writes /\ y.inFlight = x.inFlight
  BY <1>1, Now DEF Instance
<1>3. InstanceTypes(y) /\ instance' = [instance EXCEPT ![Newest] = y]
  BY <1>2, Now DEF InstanceTypes, StartStays
<1>. HIDE DEF y
<1>4. Fits(y, file, layer, delete, Newest, removedBy, wiped)
  BY <1>1, <1>2, Now DEF Fits, QueueFits, SealsFit, RemovalFits, ReadIsFile
<1>. QED
  BY <1>3, <1>4, Now, NewestMoves DEF StartStays

\* Where the newest instance and the delete stand when an operation is first in the queue.
LEMMA HeadFits ==
  ASSUME IInv, NEW x, x = instance[Newest], x.queue # <<>>, NEW do, do = x.queue[1].op.do
  PROVE  /\ do \in Saving \cup Plain \cup Reads
         /\ do = "barrier" => delete.at = "sealing" /\ Len(x.queue) = 1
         /\ do \in {"mark", "purge", "clear", "reset"} => delete.at = do /\ Len(x.queue) = 1
         /\ do = "look" => delete.at = "none" /\ x.mode = "loading" /\ Len(x.queue) = 1
         /\ do = "lift" => delete.at = "none" /\ x.mode = "starting" /\ Len(x.queue) = 1
         /\ do \in Saving => \/ delete.at = "sealing" /\ Len(x.queue) > 1
                             \/ /\ delete.at \in {"none", "abandoned"} /\ ~x.sealed
                                /\ x.mode \in {"running", "unloaded"}
<1>1. /\ x.queue \in Seq(Entry) /\ Len(x.queue) \in Nat /\ Len(x.queue) > 0
      /\ 1 \in DOMAIN x.queue
  BY Now
<1>2. do \in Saving \cup Plain \cup Reads
  <2>1. x.queue[1] \in Entry
    BY <1>1
  <2>2. x.queue[1].op \in Operation
    BY <2>1 DEF Entry
  <2>. QED
    BY <2>2, OperationCases
<1>3. delete.at \in At /\ QueueFits(x, delete.at) /\ SealsFit(x, delete.at) /\ x \in Instance
  BY Now DEF Fits
<1>4. CASE delete.at = "sealing"
  <2>1. IF Len(x.queue) = 1 THEN do = "barrier" ELSE do \in Saving
    BY <1>1, <1>3, <1>4 DEF QueueFits
  <2>2. CASE Len(x.queue) = 1
    BY <1>2, <1>4, <2>1, <2>2 DEF Saving
  <2>3. CASE Len(x.queue) > 1
    BY <1>2, <1>4, <2>1, <2>3 DEF Saving
  <2>4. Len(x.queue) = 1 \/ Len(x.queue) > 1
    <3>1. \A n \in Nat : n > 0 => n = 1 \/ n > 1
      OBVIOUS
    <3>. QED
      BY <1>1, <3>1, Zenon
  <2>. QED
    BY <2>2, <2>3, <2>4, Zenon
<1>5. CASE delete.at \in {"mark", "purge", "clear", "reset"}
  <2>1. Len(x.queue) = 1 /\ do = delete.at
    BY <1>3, <1>5 DEF QueueFits, Awaits
  <2>. QED
    BY <1>2, <1>5, <2>1 DEF Saving
<1>6. CASE delete.at \in {"none", "abandoned"}
  <2>1. CASE x.mode \in {"loading", "starting"}
    <3>1. delete.at = "none"
      BY <1>3, <1>6, <2>1 DEF SealsFit
    <3>2. /\ x.mode = "loading" => Len(x.queue) = 1 /\ do = "look"
          /\ x.mode = "starting" => Len(x.queue) = 1 /\ do = "lift"
      BY <1>3, <3>1 DEF QueueFits, Awaits
    <3>. QED
      BY <1>2, <2>1, <3>1, <3>2 DEF Saving
  <2>2. CASE x.mode \in {"held", "lifted", "dead"}
    BY <1>1, <1>3, <1>6, <2>2 DEF QueueFits
  <2>3. CASE x.mode \in {"running", "unloaded"}
    BY <1>1, <1>3, <1>6, <2>3 DEF QueueFits, Saving
  <2>. QED
    BY <1>3, <2>1, <2>2, <2>3 DEF Instance
<1>7. CASE delete.at \in {"draining", "drafts", "artifacts", "remaining", "reload"}
  BY <1>1, <1>3, <1>7 DEF QueueFits
<1>. QED
  BY <1>2, <1>3, <1>4, <1>5, <1>6, <1>7, Stages

LEMMA LoadsIInv ==
  ASSUME IInv, Loads(Newest)
  PROVE  IInv'
<1>. DEFINE x == instance[Newest]
            e == x.queue[1]
            q == [x.queue EXCEPT ![1] = Seen(e, file)]
            y == [x EXCEPT !.queue = q]
<1>1. /\ 1 \in DOMAIN x.queue /\ x.queue \in Seq(Entry) /\ e \in Entry
      /\ ~e.read /\ e.op.do \notin Reads
      /\ instance' = [instance EXCEPT ![Newest].queue[1] = Seen(e, file)]
  BY Now DEF Loads, Turn
<1>2. instance' = [instance EXCEPT ![Newest] = y]
  BY <1>1, Now
<1>3. /\ Seen(e, file) \in Entry /\ Seen(e, file).op = e.op /\ Seen(e, file).saw = file
  BY <1>1, Now DEF Seen, Entry
<1>4. /\ q \in Seq(Entry) /\ Len(q) = Len(x.queue) /\ q[1] = Seen(e, file)
      /\ \A n \in 1..Len(q) : n # 1 => q[n] = x.queue[n]
  BY <1>1, <1>3, ExceptSeq
<1>5. \A n \in 1..Len(q) : q[n].op = x.queue[n].op /\ (q[n].read => n = 1)
  BY <1>1, <1>3, <1>4, Now DEF InstanceTypes
<1>. HIDE DEF q
<1>6. /\ y \in Instance /\ y.mode = x.mode /\ y.sealed = x.sealed /\ y.retired = x.retired
      /\ y.layerSealed = x.layerSealed /\ y.writes = x.writes /\ y.inFlight = x.inFlight
      /\ y.queue = q
  BY <1>4, Now DEF Instance, Entry
<1>. HIDE DEF y
<1>7. InstanceTypes(y)
  BY <1>4, <1>5, <1>6 DEF InstanceTypes
<1>8. QueueFits(y, delete.at)
  <2>1. QueueFits(x, delete.at) /\ x.queue # <<>> /\ q # <<>>
    BY <1>1, <1>4, Now DEF Fits
  <2>2. DOMAIN q = 1..Len(q) /\ DOMAIN x.queue = 1..Len(q)
    BY <1>1, <1>4
  <2>3. /\ \A at : Awaits(y, at) <=> Awaits(x, at)
        /\ Len(q) = Len(x.queue) /\ 1 \in DOMAIN q
    BY <1>1, <1>4, <1>5, <1>6, <2>2 DEF Awaits
  <2>. QED
    BY <1>5, <1>6, <2>1, <2>2, <2>3 DEF QueueFits
<1>9. ReadIsFile(y, file)
  BY <1>1, <1>3, <1>4, <1>6 DEF ReadIsFile
<1>10. Fits(y, file, layer, delete, Newest, removedBy, wiped)
  BY <1>6, <1>8, <1>9, Now DEF Fits, SealsFit, RemovalFits
<1>. QED
  BY <1>2, <1>7, <1>10, Now, NewestMoves DEF Loads

\* The first operation of the newest instance is done, and what was behind it is first.
LEMMA HeadDone ==
  ASSUME IInv, NEW x, x = instance[Newest], x.queue # <<>>,
         NEW y, y = [x EXCEPT !.queue = Tail(x.queue)]
  PROVE  /\ InstanceTypes(y) /\ y \in Instance
         /\ Len(y.queue) = Len(x.queue) - 1 /\ y.queue \in Seq(Entry)
         /\ \A n \in 1..Len(y.queue) : n + 1 \in 1..Len(x.queue) /\ y.queue[n] = x.queue[n + 1]
                                      /\ ~y.queue[n].read
         /\ y.mode = x.mode /\ y.sealed = x.sealed /\ y.retired = x.retired
         /\ y.layerSealed = x.layerSealed /\ y.writes = x.writes /\ y.inFlight = x.inFlight
         /\ Len(x.queue) = 1 => y.queue = <<>>
         /\ \A f : ReadIsFile(y, f)
         /\ Advanced(Newest) = [instance EXCEPT ![Newest] = y]
<1>1. /\ InstanceTypes(y) /\ y.queue = Tail(x.queue) /\ Len(y.queue) = Len(x.queue) - 1
      /\ \A n \in DOMAIN y.queue : n + 1 \in DOMAIN x.queue /\ y.queue[n] = x.queue[n + 1]
                                    /\ ~y.queue[n].read
  BY Now, AdvancedInstance
<1>2. y \in Instance /\ y.queue \in Seq(Entry)
  BY <1>1 DEF InstanceTypes, Instance, Entry
<1>7. DOMAIN y.queue = 1..Len(y.queue) /\ DOMAIN x.queue = 1..Len(x.queue)
  BY <1>2, Now
<1>3. /\ y.mode = x.mode /\ y.sealed = x.sealed /\ y.retired = x.retired
      /\ y.layerSealed = x.layerSealed /\ y.writes = x.writes /\ y.inFlight = x.inFlight
  BY Now DEF Instance
<1>4. \A f : ReadIsFile(y, f)
  <2>1. y.queue # <<>> => 1 \in DOMAIN y.queue
    BY <1>2
  <2>. QED
    BY <1>1, <2>1 DEF ReadIsFile
<1>5. Len(x.queue) = 1 => y.queue = <<>>
  BY <1>1, <1>2
<1>6. Advanced(Newest) = [instance EXCEPT ![Newest] = y]
  BY Now DEF Advanced
<1>. QED
  BY <1>1, <1>2, <1>3, <1>4, <1>5, <1>6, <1>7

LEMMA SealTurnsIInv ==
  ASSUME IInv, SealTurns(Newest)
  PROVE  IInv'
<1>. DEFINE x == instance[Newest]
            y == [x EXCEPT !.queue = Tail(x.queue)]
<1>1. x.queue # <<>> /\ x.queue[1].op.do = "barrier"
  BY DEF SealTurns, HeadDo, Head1
<1>2. delete.at = "sealing" /\ Len(x.queue) = 1
  BY <1>1, HeadFits
<1>3. /\ InstanceTypes(y) /\ y.queue = <<>>
      /\ y.mode = x.mode /\ y.sealed = x.sealed /\ y.retired = x.retired
      /\ y.layerSealed = x.layerSealed /\ y.writes = x.writes /\ y.inFlight = x.inFlight
      /\ Advanced(Newest) = [instance EXCEPT ![Newest] = y]
  BY <1>1, <1>2, HeadDone
<1>. HIDE DEF y
<1>4. Goes("draining", [instance EXCEPT ![Newest] = y])
  BY <1>3, Stages DEF SealTurns
<1>5. /\ delete.by = Newest /\ file.device < MaxDeletes /\ ~wiped
      /\ SealsFit(y, "draining")
  BY <1>2, <1>3, Now DEF Fits, SealsFit, DeleteFits, RemovalFits
<1>6. RemovalFits(y, file, layer, "draining", Newest, removedBy, wiped)
  BY <1>3, <1>5, Now DEF Fits, RemovalFits
<1>7. "draining" \in At \ {"none", "abandoned", "sealing"}
  BY Stages
<1>. QED
  BY <1>3, <1>4, <1>5, <1>6, <1>7, Now, GoesOn DEF SealTurns

LEMMA LooksIInv ==
  ASSUME IInv, Looks(Newest)
  PROVE  IInv'
<1>. DEFINE x == instance[Newest]
            z == [x EXCEPT !.queue = Tail(x.queue)]
<1>1. x.queue # <<>> /\ x.queue[1].op.do = "look"
  BY DEF Looks, HeadDo, Head1
<1>2. delete.at = "none" /\ x.mode = "loading" /\ Len(x.queue) = 1
  BY <1>1, HeadFits
<1>3. /\ InstanceTypes(z) /\ z \in Instance /\ z.queue = <<>>
      /\ z.mode = x.mode /\ z.sealed = x.sealed /\ z.retired = x.retired
      /\ z.layerSealed = x.layerSealed /\ z.writes = x.writes /\ z.inFlight = x.inFlight
      /\ Advanced(Newest) = [instance EXCEPT ![Newest] = z]
  BY <1>1, <1>2, HeadDone
<1>. HIDE DEF z
<1>. DEFINE y == IF file.marker
                 THEN [z EXCEPT !.mode = "held", !.sealed = TRUE, !.layerSealed = TRUE]
                 ELSE [z EXCEPT !.mode = "running"]
<1>4. instance' = [instance EXCEPT ![Newest] = y]
  BY <1>3, Now DEF Looks
<1>5. /\ y \in Instance /\ y.queue = <<>> /\ y.retired = x.retired
      /\ y.writes = x.writes /\ y.inFlight = x.inFlight
      /\ IF file.marker THEN y.mode = "held" /\ y.sealed /\ y.layerSealed
         ELSE y.mode = "running" /\ y.sealed = x.sealed /\ y.layerSealed = x.layerSealed
  BY <1>3 DEF Instance
<1>6. InstanceTypes(y)
  BY <1>5 DEF InstanceTypes
<1>. HIDE DEF y
<1>7. Fits(y, file, layer, delete, Newest, removedBy, wiped)
  BY <1>2, <1>5, Now DEF Fits, QueueFits, SealsFit, RemovalFits, ReadIsFile
<1>. QED
  BY <1>4, <1>6, <1>7, Now, NewestMoves DEF Looks

\* A save of a store is done, or failed: the next operation is first.
LEMMA SavingDone ==
  ASSUME IInv, instance[Newest].queue # <<>>,
         instance[Newest].queue[1].op.do \in Saving,
         instance' = Advanced(Newest), file' \in File,
         file'.device = file.device, file'.marker = file.marker,
         UNCHANGED <<layer, delete, removedBy, wiped>>, failures' \in 0..MaxFailures
  PROVE  IInv'
<1>. DEFINE x == instance[Newest]
            y == [x EXCEPT !.queue = Tail(x.queue)]
<1>1. /\ InstanceTypes(y) /\ y \in Instance
      /\ Len(y.queue) = Len(x.queue) - 1 /\ y.queue \in Seq(Entry)
      /\ \A n \in 1..Len(y.queue) : n + 1 \in 1..Len(x.queue) /\ y.queue[n] = x.queue[n + 1]
                                   /\ ~y.queue[n].read
      /\ y.mode = x.mode /\ y.sealed = x.sealed /\ y.retired = x.retired
      /\ y.layerSealed = x.layerSealed /\ y.writes = x.writes /\ y.inFlight = x.inFlight
      /\ \A f : ReadIsFile(y, f)
      /\ Advanced(Newest) = [instance EXCEPT ![Newest] = y]
  BY HeadDone
<1>. HIDE DEF y
<1>2. \/ delete.at = "sealing" /\ Len(x.queue) > 1
      \/ /\ delete.at \in {"none", "abandoned"} /\ ~x.sealed
         /\ x.mode \in {"running", "unloaded"}
  BY HeadFits
<1>3. ~wiped
  BY <1>2, Now DEF Fits, RemovalFits
<1>4. x.queue \in Seq(Entry) /\ Len(x.queue) \in Nat /\ DOMAIN x.queue = 1..Len(x.queue)
      /\ DOMAIN y.queue = 1..Len(y.queue)
  BY <1>1, Now
<1>5. QueueFits(y, delete.at)
  <2>1. CASE delete.at = "sealing"
    <3>1. Len(x.queue) > 1 /\ y.queue # <<>>
      BY <1>1, <1>2, <1>4, <2>1
    <3>2. \A n \in DOMAIN x.queue :
            IF n = Len(x.queue) THEN x.queue[n].op.do = "barrier"
            ELSE x.queue[n].op.do \in Saving
      BY <2>1, Now DEF Fits, QueueFits
    <3>3. \A n \in DOMAIN y.queue :
            IF n = Len(y.queue) THEN y.queue[n].op.do = "barrier"
            ELSE y.queue[n].op.do \in Saving
      <4>. SUFFICES ASSUME NEW n \in 1..Len(y.queue)
                    PROVE  IF n = Len(y.queue) THEN y.queue[n].op.do = "barrier"
                           ELSE y.queue[n].op.do \in Saving
        BY <1>4
      <4>1. n + 1 \in DOMAIN x.queue /\ y.queue[n] = x.queue[n + 1]
        BY <1>1, <1>4
      <4>2. n = Len(y.queue) <=> n + 1 = Len(x.queue)
        BY <1>1, <1>4
      <4>. QED
        BY <3>2, <4>1, <4>2
    <3>. QED
      BY <2>1, <3>1, <3>3 DEF QueueFits
  <2>2. CASE delete.at \in {"none", "abandoned"} /\ ~x.sealed /\ x.mode \in {"running", "unloaded"}
    <3>1. \A n \in DOMAIN x.queue : x.queue[n].op.do \in Saving
      BY <2>2, Now DEF Fits, QueueFits
    <3>2. \A n \in DOMAIN y.queue : y.queue[n].op.do \in Saving
      <4>. SUFFICES ASSUME NEW n \in 1..Len(y.queue)
                    PROVE  y.queue[n].op.do \in Saving
        BY <1>4
      <4>1. n + 1 \in DOMAIN x.queue /\ y.queue[n] = x.queue[n + 1]
        BY <1>1, <1>4
      <4>. QED
        BY <3>1, <4>1
    <3>. QED
      BY <1>1, <2>2, <3>2 DEF QueueFits
  <2>. QED
    BY <1>2, <2>1, <2>2
<1>6. Fits(y, file', layer, delete, Newest, removedBy, wiped)
  BY <1>1, <1>3, <1>5, Now DEF Fits, SealsFit, DeleteFits, RemovalFits
<1>. QED
  BY <1>1, <1>6, Now, NewestMoves

LEMMA LandsIInv ==
  ASSUME IInv, Lands(Newest)
  PROVE  IInv'
<1>. DEFINE x == instance[Newest]
            op == x.queue[1].op
            z == [x EXCEPT !.queue = Tail(x.queue)]
<1>1. /\ x.queue # <<>> /\ x.queue[1].read /\ HeadDo(Newest) = op.do
      /\ UNCHANGED <<layer, failures>>
  BY DEF Lands, HeadDo, Head1
<1>2. op.do \notin Reads /\ x.queue[1].saw = file
  BY <1>1, Now DEF Fits, ReadIsFile
<1>3. file' = Applied(op, file)
  BY <1>2 DEF Lands, Head1
<1>4. op \in Operation
  <2>1. x.queue[1] \in Entry
    BY <1>1, Now
  <2>. QED
    BY <2>1 DEF Entry
<1>5. op.do = "reset" => file.device < MaxDeletes
  BY <1>1, HeadFits, Now DEF Fits, DeleteFits
<1>. HIDE DEF op
<1>6. /\ file' \in File
      /\ op.do # "reset" => file'.device = file.device
      /\ op.do = "mark" => file'.marker
      /\ op.do \notin {"mark", "lift"} => file'.marker = file.marker
      /\ op.do # "store" /\ file.content = {} => file'.content = {}
      /\ op.do = "clear" => file'.content = {}
  BY <1>3, <1>4, <1>5, Now, AppliedFile
<1>7. /\ InstanceTypes(z) /\ z \in Instance
      /\ z.mode = x.mode /\ z.sealed = x.sealed /\ z.retired = x.retired
      /\ z.layerSealed = x.layerSealed /\ z.writes = x.writes /\ z.inFlight = x.inFlight
      /\ Len(x.queue) = 1 => z.queue = <<>>
      /\ Advanced(Newest) = [instance EXCEPT ![Newest] = z]
  BY <1>1, HeadDone
<1>. HIDE DEF z
<1>8. CASE op.do \in {"mark", "purge", "clear", "reset"}
  <2>. DEFINE at == NextPhase(op.do)
  <2>1. delete.at = op.do /\ z.queue = <<>>
    BY <1>1, <1>7, <1>8, HeadFits DEF op
  <2>2. /\ op.do = "mark" => at = "purge"
        /\ op.do = "purge" => at = "drafts"
        /\ op.do = "clear" => at = "reset"
        /\ op.do = "reset" => at = "reload"
        /\ at \in At \ {"none", "abandoned", "sealing"}
    BY <1>8, Stages
  <2>3. Goes(at, [instance EXCEPT ![Newest] = z])
    BY <1>1, <1>7, <1>8 DEF Lands
  <2>. HIDE DEF at
  <2>4. /\ removedBy' = IF op.do \in {"purge", "clear"} THEN Newest ELSE removedBy
        /\ wiped' = IF op.do = "clear" THEN TRUE ELSE wiped
    BY <1>1, <1>8 DEF Lands
  <2>5. removedBy' \in 0..Newest /\ wiped' \in BOOLEAN
    <3>1. Newest \in 0..Newest
      BY Now
    <3>2. removedBy' \in 0..Newest
      BY <2>4, <3>1, Now
    <3>3. wiped' \in BOOLEAN
      BY <2>4, Now
    <3>. QED
      BY <3>2, <3>3
  <2>6. /\ delete.by = Newest /\ file.device < MaxDeletes
        /\ op.do # "mark" => file.marker
        /\ op.do \in {"clear", "reset"} => layer = {}
        /\ wiped => op.do = "reset"
        /\ z.inFlight = {} /\ z.sealed /\ z.layerSealed /\ z.mode \in {"running", "unloaded"}
        /\ z.retired <=> z.mode = "unloaded"
        /\ z.writes \subseteq z.inFlight
    BY <1>7, <1>8, <2>1, Now DEF Fits, DeleteFits, SealsFit, RemovalFits
  <2>7. SealsFit(z, at)
    BY <2>2, <2>6, <1>8 DEF SealsFit
  <2>8. file'.marker /\ (at # "reload" => file'.device < MaxDeletes)
    BY <1>6, <1>8, <2>2, <2>6
  <2>9. RemovalFits(z, file', layer', at, Newest, removedBy', wiped')
    BY <1>1, <1>6, <1>7, <1>8, <2>2, <2>4, <2>6, <2>8, Now DEF Fits, RemovalFits
  <2>10. at \in {"clear", "reset", "reload"} => layer = {}
    BY <1>8, <2>2, <2>6
  <2>. QED
    BY <1>1, <1>6, <1>7, <2>1, <2>2, <2>3, <2>5, <2>6, <2>7, <2>8, <2>9, <2>10, GoesOn
<1>9. CASE op.do = "lift"
  <2>. DEFINE y == [z EXCEPT !.mode = "lifted"]
  <2>1. delete.at = "none" /\ x.mode = "starting" /\ z.queue = <<>>
    BY <1>1, <1>7, <1>9, HeadFits DEF op
  <2>2. instance' = [instance EXCEPT ![Newest] = y] /\ UNCHANGED delete
        /\ removedBy' = 0 /\ wiped' = FALSE
    BY <1>1, <1>7, <1>9, Now DEF Lands
  <2>3. /\ y \in Instance /\ y.queue = <<>> /\ y.mode = "lifted" /\ y.retired = x.retired
        /\ y.sealed = x.sealed /\ y.layerSealed = x.layerSealed
        /\ y.writes = x.writes /\ y.inFlight = x.inFlight
    BY <1>7, <2>1 DEF Instance
  <2>4. InstanceTypes(y)
    BY <2>3 DEF InstanceTypes
  <2>. HIDE DEF y
  <2>5. Fits(y, file', layer', delete', Newest, removedBy', wiped')
    BY <1>1, <2>1, <2>2, <2>3, Now
    DEF Fits, QueueFits, SealsFit, DeleteFits, RemovalFits, ReadIsFile
  <2>. QED
    <3>1. 0 \in 0..Newest
      BY Now
    <3>2. removedBy' \in 0..Newest /\ wiped' \in BOOLEAN
      BY <2>2, <3>1, Zenon
    <3>. QED
      BY <1>1, <1>6, <2>2, <2>4, <2>5, <3>2, Now, NewestMoves
<1>10. CASE op.do \in Saving
  <2>1. instance' = Advanced(Newest) /\ UNCHANGED <<delete, removedBy, wiped>>
    BY <1>1, <1>10 DEF Lands, Saving
  <2>2. file'.device = file.device /\ file'.marker = file.marker
    BY <1>6, <1>10 DEF Saving
  <2>. QED
    BY <1>1, <1>6, <1>10, <2>1, <2>2, Now, SavingDone DEF op
<1>. QED
  BY <1>2, <1>4, <1>8, <1>9, <1>10, OperationCases DEF Plain

LEMMA OperationFailsIInv ==
  ASSUME IInv, OperationFails(Newest)
  PROVE  IInv'
<1>. DEFINE x == instance[Newest]
            do == x.queue[1].op.do
            z == [x EXCEPT !.queue = Tail(x.queue)]
<1>1. x.queue # <<>> /\ HeadDo(Newest) = do /\ UNCHANGED <<file, layer, removedBy>>
  BY DEF OperationFails, HeadDo, Head1
<1>2. failures' \in 0..MaxFailures
  BY Now, Bounds DEF OperationFails, Fails
<1>3. /\ InstanceTypes(z) /\ z \in Instance
      /\ z.mode = x.mode /\ z.sealed = x.sealed /\ z.retired = x.retired
      /\ z.layerSealed = x.layerSealed /\ z.writes = x.writes /\ z.inFlight = x.inFlight
      /\ Len(x.queue) = 1 => z.queue = <<>>
      /\ Advanced(Newest) = [instance EXCEPT ![Newest] = z]
  BY <1>1, HeadDone
<1>. HIDE DEF z
<1>4. CASE do = "barrier"
  <2>. DEFINE y == [z EXCEPT !.sealed = FALSE]
  <2>1. delete.at = "sealing" /\ z.queue = <<>>
    BY <1>1, <1>3, <1>4, HeadFits
  <2>2. /\ instance' = [instance EXCEPT ![Newest] = y] /\ UNCHANGED wiped
        /\ delete' = [delete EXCEPT !.at = "abandoned"]
    BY <1>1, <1>3, <1>4, Now DEF OperationFails
  <2>3. /\ y \in Instance /\ y.queue = <<>> /\ y.mode = x.mode /\ y.retired = x.retired
        /\ ~y.sealed /\ y.layerSealed = x.layerSealed
        /\ y.writes = x.writes /\ y.inFlight = x.inFlight
    BY <1>3, <2>1 DEF Instance
  <2>4. InstanceTypes(y)
    BY <2>3 DEF InstanceTypes
  <2>5. /\ delete' = [by |-> Newest, at |-> "abandoned", todo |-> delete.todo]
        /\ delete' \in [by : 0..Newest, at : At, todo : SUBSET Files]
    BY <2>1, <2>2, Now, Stages DEF Fits, DeleteFits
  <2>. HIDE DEF y
  <2>6. Fits(y, file, layer, delete', Newest, removedBy, wiped)
    BY <2>1, <2>3, <2>5, Now
    DEF Fits, QueueFits, SealsFit, DeleteFits, RemovalFits, ReadIsFile
  <2>. QED
    BY <1>1, <1>2, <2>2, <2>4, <2>5, <2>6, Now, NewestMoves
<1>5. CASE do \in {"mark", "purge", "clear", "reset"}
  <2>1. delete.at = do /\ z.queue = <<>>
    BY <1>1, <1>3, <1>5, HeadFits
  <2>2. Ends([instance EXCEPT ![Newest] = z])
    BY <1>1, <1>3, <1>5 DEF OperationFails
  <2>3. z.sealed /\ z.layerSealed
    BY <1>3, <1>5, <2>1, Now DEF Fits, SealsFit
  <2>. QED
    BY <1>1, <1>2, <1>3, <1>5, <2>1, <2>2, <2>3, EndsIInv
<1>6. CASE do \in {"look", "lift"}
  <2>. DEFINE y == [z EXCEPT !.mode = IF do = "look" THEN "dead" ELSE "held"]
  <2>1. /\ delete.at = "none" /\ z.queue = <<>>
        /\ x.mode = IF do = "look" THEN "loading" ELSE "starting"
    BY <1>1, <1>3, <1>6, HeadFits
  <2>2. instance' = [instance EXCEPT ![Newest] = y] /\ UNCHANGED <<delete, wiped>>
    BY <1>1, <1>3, <1>6, Now DEF OperationFails
  <2>3. /\ y \in Instance /\ y.queue = <<>> /\ y.retired = x.retired
        /\ y.mode = IF do = "look" THEN "dead" ELSE "held"
        /\ y.sealed = x.sealed /\ y.layerSealed = x.layerSealed
        /\ y.writes = x.writes /\ y.inFlight = x.inFlight
    BY <1>3, <2>1 DEF Instance
  <2>4. InstanceTypes(y)
    BY <2>3 DEF InstanceTypes
  <2>. HIDE DEF y
  <2>5. Fits(y, file, layer, delete, Newest, removedBy, wiped)
    BY <1>6, <2>1, <2>3, Now
    DEF Fits, QueueFits, SealsFit, DeleteFits, RemovalFits, ReadIsFile
  <2>. QED
    BY <1>1, <1>2, <2>2, <2>4, <2>5, Now, NewestMoves
<1>7. CASE do \in Saving
  <2>1. instance' = Advanced(Newest) /\ UNCHANGED <<delete, wiped>>
    BY <1>1, <1>7 DEF OperationFails, Saving
  <2>. QED
    BY <1>1, <1>2, <1>7, <2>1, Now, SavingDone
<1>. QED
  BY <1>1, <1>4, <1>5, <1>6, <1>7, HeadFits DEF Plain, Reads

\* So does a step.
LEMMA NextIInv == IInv /\ [Next]_vars => IInv'
<1>. SUFFICES ASSUME IInv, [Next]_vars
              PROVE  IInv'
  OBVIOUS
<1>1. CASE UNCHANGED vars
  BY <1>1
  DEF vars, IInv, Types, Newest, OldAreGone, Fits, QueueFits, SealsFit, DeleteFits, RemovalFits,
      ReadIsFile
<1>2. ASSUME NEW i \in 1..Newest,
             Save(i) \/ Write(i) \/ WriteSettles(i) \/ Click(i) \/ QueueTurns(i) \/ Start(i)
             \/ StartReloads(i) \/ StartStays(i) \/ Unload(i)
      PROVE  IInv'
  <2>1. i = Newest
    BY <1>2, OnlyNewestActs
  <2>2. CASE QueueTurns(i)
    BY <2>1, <2>2, LoadsIInv, LandsIInv, SealTurnsIInv, LooksIInv, OperationFailsIInv
    DEF QueueTurns
  <2>. QED
    BY <1>2, <2>1, <2>2, SaveIInv, WriteIInv, WriteSettlesIInv, ClickIInv, StartIInv,
       StartReloadsIInv, StartStaysIInv, UnloadIInv
<1>3. CASE DeleteSteps
  BY <1>3, DrainedIInv, AbandonedIInv, RemovesIInv, RemoveFailsIInv, RemovedIInv,
     DeleteReloadsIInv, DeleteStaysIInv
  DEF DeleteSteps
<1>. QED
  BY <1>1, <1>2, <1>3, RestartIInv DEF Next

LEMMA InitIInv == Init => IInv
<1>. SUFFICES ASSUME Init
              PROVE  IInv
  OBVIOUS
<1>1. instance \in Seq(Instance) /\ Newest = 1 /\ instance[1] = Fresh
  BY FreshInstance DEF Init, Newest, InstanceTypes
<1>2. file \in File /\ layer \subseteq Files
  BY Assumption DEF Init, Unread, File
<1>3. delete = NoDelete /\ delete \in [by : 0..Newest, at : At, todo : SUBSET Files]
  BY <1>1, Stages DEF Init, NoDelete
<1>4. /\ removedBy = 0 /\ removedBy \in 0..Newest /\ Newest \in 1..MaxInstances
      /\ failures \in 0..MaxFailures
  BY <1>1, Bounds, Assumption DEF Init
<1>5. wiped = FALSE
  BY DEF Init
<1>6. Types
  <2>1. \A i \in 1..Newest : InstanceTypes(instance[i])
    BY <1>1, FreshInstance
  <2>2. wiped \in BOOLEAN
    BY <1>5
  <2>. QED
    BY <1>1, <1>2, <1>3, <1>4, <2>1, <2>2 DEF Types
<1>7. OldAreGone
  BY <1>1 DEF OldAreGone
<1>8. Fits(Fresh, file, layer, delete, Newest, removedBy, wiped)
  BY <1>3, <1>4, <1>5, FreshInstance
  DEF Fits, QueueFits, SealsFit, DeleteFits, RemovalFits, ReadIsFile, NoDelete
<1>. QED
  BY <1>1, <1>6, <1>7, <1>8 DEF IInv

\* The settings file changes only by a save that lands: one operation is applied to the file
\* as it stands, and the device id is replaced only once nothing is left under `.olea/`.
LEMMA FileChanges ==
  ASSUME IInv, [Next]_vars, file' # file
  PROVE  \E op \in Operation : /\ file' = Applied(op, file)
                               /\ op.do = "reset" => layer = {} /\ file.device < MaxDeletes
<1>1. Lands(Newest)
  <2>1. CASE UNCHANGED vars
    BY <2>1 DEF vars
  <2>2. ASSUME NEW i \in 1..Newest,
               Save(i) \/ Write(i) \/ WriteSettles(i) \/ Click(i) \/ QueueTurns(i) \/ Start(i)
               \/ StartReloads(i) \/ StartStays(i) \/ Unload(i)
        PROVE  Lands(i) /\ i = Newest
    BY <2>2, OnlyNewestActs
    DEF Save, Write, WriteSettles, WriteLands, WriteFails, Click, QueueTurns, Loads, SealTurns,
        Looks, OperationFails, Start, StartReloads, StartStays, Unload
  <2>3. CASE DeleteSteps \/ Restart
    BY <2>3
    DEF DeleteSteps, Drained, Abandoned, Removes, RemoveFails, Removed, DeleteReloads,
        DeleteStays, Restart
  <2>. QED
    BY <2>1, <2>2, <2>3 DEF Next
<1>. DEFINE x == instance[Newest]
            op == x.queue[1].op
<1>2. x.queue # <<>> /\ x.queue[1].read
  BY <1>1 DEF Lands, Head1
<1>3. x.queue[1].saw = file
  BY <1>2, Now DEF Fits, ReadIsFile
<1>4. file' = Applied(op, file)
  BY <1>1, <1>3 DEF Lands, Head1
<1>5. op \in Operation
  <2>1. x.queue[1] \in Entry
    BY <1>2, Now
  <2>. QED
    BY <2>1 DEF Entry
<1>6. op.do = "reset" => layer = {} /\ file.device < MaxDeletes
  BY <1>2, HeadFits, Now DEF Fits, DeleteFits
<1>. QED
  BY <1>4, <1>5, <1>6

LEMMA DeviceChanges ==
  ASSUME IInv, [Next]_vars
  PROVE  file'.device # file.device => layer = {}
<1>1. CASE file' = file
  BY <1>1
<1>2. CASE file' # file
  <2>1. PICK op \in Operation : /\ file' = Applied(op, file)
                                /\ op.do = "reset" => layer = {} /\ file.device < MaxDeletes
    BY <1>2, FileChanges
  <2>. DEFINE new == file'
  <2>2. file \in File
    BY Now
  <2>3. op.do # "reset" => new.device = file.device
    BY <2>1, <2>2, AppliedFile
  <2>. QED
    BY <2>1, <2>3
<1>. QED
  BY <1>1, <1>2

-----------------------------------------------------------------------------
(* Theorems. *)

\* IInv holds at first and after every step.
THEOREM Invariance == Spec => []IInv
  BY InitIInv, NextIInv, PTL DEF Spec

\* The settings file, the files, the instances and the delete keep their types, and only the
\* first operation of a queue has read (serializing-data-host.ts:153-157).
THEOREM TypeCorrect == Spec => []TypeOK
<1>1. IInv => TypeOK
  BY DEF IInv, Types, InstanceTypes, TypeOK, At
<1>. QED
  BY <1>1, Invariance, PTL

\* No writer puts back what a delete cleared, and once a delete removed anything no later
\* instance runs, until she chooses Start (settings-section.ts:17-25, full-delete.ts:9-16).
THEOREM NothingReturns == Spec => []NothingComesBack
<1>1. IInv => NothingComesBack
  <2>. SUFFICES ASSUME IInv
                PROVE  NothingComesBack
    OBVIOUS
  <2>1. wiped => file.content = {} /\ layer = {}
    BY Now DEF Fits, RemovalFits
  <2>2. ASSUME removedBy # 0, NEW i \in 1..Newest, i > removedBy
        PROVE  instance[i].mode # "running"
    <3>1. CASE i = Newest
      BY <2>2, <3>1, Now DEF Fits, RemovalFits
    <3>2. CASE i # Newest
      BY <3>2, Now DEF IInv, OldAreGone, Gone
    <3>. QED
      BY <3>1, <3>2
  <2>. QED
    BY <2>1, <2>2 DEF NothingComesBack
<1>. QED
  BY <1>1, Invariance, PTL

\* An instance that runs on after a delete writes again, in both places
\* (settings-section.ts:26-29).
THEOREM WritesAgain == Spec => []RunsUnsealed
<1>1. IInv => RunsUnsealed
  <2>. SUFFICES ASSUME IInv, NEW i \in 1..Newest, instance[i].mode = "running", delete.by # i
                PROVE  ~instance[i].sealed /\ ~instance[i].layerSealed
    BY DEF RunsUnsealed
  <2>1. i = Newest
    BY Now DEF IInv, OldAreGone, Gone
  <2>. QED
    BY <2>1, Now DEF Fits, SealsFit, DeleteFits
<1>. QED
  BY <1>1, Invariance, PTL

\* The device id is replaced only when no file it names is left (full-delete.ts:84-86).
THEOREM IdOutlivesFiles == Spec => IdKeptWhileFilesRemain
<1>1. IInv /\ [Next]_vars => [file'.device # file.device => layer = {}]_vars
  BY DeviceChanges
<1>. QED
  BY <1>1, Invariance, PTL DEF Spec, IdKeptWhileFilesRemain

\* A save changes its own key and loses nothing another save wrote: what it read is still the
\* file, whatever instance wrote before (serializing-data-host.ts:123-129).
THEOREM NoSaveIsLost == Spec => SavesMerge
<1>1. IInv /\ [Next]_vars => [file' # file => \E op \in Operation : file' = Applied(op, file)]_vars
  BY FileChanges
<1>. QED
  BY <1>1, Invariance, PTL DEF Spec, SavesMerge

================================================================================
