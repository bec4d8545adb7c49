------------------------------ MODULE SpendLedger ------------------------------
(***************************************************************************)
(* The spend ledger of the model calls a student pays for: each device's   *)
(* append-only file (packages/plugin/src/spend/vault-spend-ledger.ts), its *)
(* arithmetic over every device's file (core/src/spend/ledger.ts), the     *)
(* sending of one call under it (plugin/src/spend/allowance.ts), and the   *)
(* count of refusals that holds a part of a paper back                     *)
(* (plugin/src/scope-reading/demand-driver.ts).                            *)
(*                                                                         *)
(* A device reads its own file, and of another's what the sync of her      *)
(* vault brought last.  Its appends and reservations go one at a time      *)
(* through the queue of its file.                                          *)
(*                                                                         *)
(* Abstractions.  A file is the set of its lines; an append is one step,   *)
(* its reading back another.  Amounts are small naturals.  Every line is   *)
(* within the period of 120 days that counts.  The Worker never bills more *)
(* than the hold, nor more than it reports when it says it made one call.  *)
(* Left out: lines no reader can trust, which count as a worst-case hold,  *)
(* the full delete, two instances of the plugin on one device.             *)
(***************************************************************************)
EXTENDS Integers, Sequences, FiniteSets, SequencesExt, FiniteSetsExt, Functions

CONSTANTS
  Devices,
  Calls,         \* calls of the model, each made once
  Scoped,        \* the calls that read the scope of a paper
  Part,          \* Part[c]: the part of a paper call c reads
  On,            \* On[c]: the device that makes call c
  Hold,          \* Hold[c]: the most call c can cost
  Reported,      \* costs a response reports
  Limit,         \* `SPEND_LIMIT_USD`
  Pause,         \* the share of it the scope reads stop at
  RefusedLimit,  \* `REFUSED_PART_LIMIT`
  \* Bounds.
  MaxMishaps     \* accesses that fail and deaths of a device's process

ASSUME Assumption ==
  /\ IsFiniteSet(Calls) /\ Scoped \subseteq Calls
  /\ On \in [Calls -> Devices]
  /\ Hold \in [Calls -> Nat \ {0}]
  /\ Reported \subseteq Nat
  /\ {Limit, Pause, RefusedLimit, MaxMishaps} \subseteq Nat
  /\ Pause <= Limit

VARIABLES
  file,      \* file[d]: the lines of device d's file
  view,      \* view[d][e]: the lines of e's file that reached d
  queue,     \* queue[d]: the tasks on d's file
  unwritten, \* unwritten[d]: the calls whose refusal could not be written since d started
  call,      \* the calls
  mishaps,
  spent,     \* history: spent[c], the most call c was billed
  apart,     \* history: the calls let through by a device that did not know of another's
  forgotten  \* history: refused calls whose unwritten refusal went with the process

vars == <<file, view, queue, unwritten, call, mishaps, spent, apart, forgotten>>

Line == [kind : {"hold", "settle", "release", "refusal"}, call : Calls, usd : Nat]

Task == [do : {"hold", "settle", "release", "refusal"}, call : Calls,
         at : {"waiting", "admitted", "written", "dropped"}]

\* Outcome extraction asks at once; a scope read looks for refusals first.
New(c) ==
  [at |-> IF c \in Scoped THEN "new" ELSE "asks", cost |-> 0, refused |-> FALSE, before |-> 0]

-----------------------------------------------------------------------------
(* The arithmetic. *)

\* The lines in the vault of device d: of its own file, and of its copies of the others'.
Known(d) == UNION {IF e = d THEN file[d] ELSE view[d][e] : e \in Devices}

\* Bug: only the file of the device is read.
ReadOwn(d) == file[d]

\* `readAll`.
ReadAll(d) == Known(d)

Of(c, lines) == {l \in lines : l.call = c /\ l.kind # "refusal"}
Costs(lines, kind) == {l.usd : l \in {m \in lines : m.kind = kind}}

\* What the lines of a call count for: its settled cost, nothing when it was released, its
\* hold otherwise.
Value(c, lines) ==
  LET own == Of(c, lines) IN
  CASE own = {}                   -> 0
    [] Costs(own, "settle") # {}  -> Max(Costs(own, "settle"))
    [] Costs(own, "release") # {} -> 0
    [] OTHER                      -> Max(Costs(own, "hold"))

\* `summarizeSpendLedger`.
Summary(lines) == SumFunctionOnSet([c \in Calls |-> Value(c, lines)], Calls)

\* Bug: the pause of the scope reads is not looked at.
CeilingForAll(c) == Limit

\* The spending a call of this task may reach.
Ceiling(c) == IF c \in Scoped THEN Pause ELSE Limit

\* `admitSpend`.
Admits(c, lines) == Summary(lines) + Hold[c] <= Ceiling(c)

RefusalLines(p, lines) == {l \in lines : l.kind = "refusal" /\ Part[l.call] = p}

\* Bug: only the refusals of this session count.
RefusalsOfSession(d, p) == Cardinality({c \in unwritten[d] : Part[c] = p})

\* `refusalCount`.
Refusals(d, p) ==
  Cardinality(RefusalLines(p, ReadAll(d))) + Cardinality({c \in unwritten[d] : Part[c] = p})

-----------------------------------------------------------------------------
(* Sending a call. *)

Mishap == mishaps < MaxMishaps /\ mishaps' = mishaps + 1

Queued(d, do, c) ==
  queue' = [queue EXCEPT ![d] = Append(@, [do |-> do, call |-> c, at |-> "waiting"])]

Moves(c, at) == call' = [call EXCEPT ![c].at = at]

\* The refusals of a part on a device, but those lost with a process.
Standing(d, p) ==
  {c \in Calls \ forgotten :
     On[c] = d /\ Part[c] = p /\ call[c].at = "done" /\ call[c].refused}

\* A driver reaches a part: it is read unless it was refused too often.
Starts(c) ==
  LET d == On[c] IN
  /\ call[c].at = "new"
  /\ call' = [call EXCEPT ![c].before = Cardinality(Standing(d, Part[c])),
                          ![c].at = IF Refusals(d, Part[c]) >= RefusedLimit THEN "heldBack"
                                    ELSE "asks"]
  /\ UNCHANGED <<file, view, queue, unwritten, mishaps, spent, apart, forgotten>>

\* A count that cannot be read holds the part back.
StartFails(c) ==
  /\ call[c].at = "new" /\ Mishap
  /\ Moves(c, "heldBack")
  /\ UNCHANGED <<file, view, queue, unwritten, spent, apart, forgotten>>

\* `reserve`: once a refusal could not be written nothing is let through.
Asks(c) ==
  LET d == On[c] IN
  /\ call[c].at = "asks"
  /\ IF unwritten[d] # {}
     THEN Moves(c, "declined") /\ UNCHANGED queue
     ELSE Moves(c, "waits") /\ Queued(d, "hold", c)
  /\ UNCHANGED <<file, view, unwritten, mishaps, spent, apart, forgotten>>

\* It may be billed its hold from here on, whatever comes back.
Sends(c) ==
  /\ call[c].at = "granted"
  /\ spent' = [spent EXCEPT ![c] = Hold[c]]
  /\ Moves(c, "sent")
  /\ UNCHANGED <<file, view, queue, unwritten, mishaps, apart, forgotten>>

\* The request could not be made: its hold is released.
NeverSent(c) ==
  /\ call[c].at = "granted" /\ Mishap
  /\ Moves(c, "releases") /\ Queued(On[c], "release", c)
  /\ UNCHANGED <<file, view, unwritten, spent, apart, forgotten>>

\* What is left of a call that was answered is the record of a refusal.
Ended(refused) == IF refused THEN "refused" ELSE "done"

\* Bug: any cost the response reports is settled.
ProvenByCost(attempts) == TRUE

\* `settle` takes a cost when one billable call was made for it.
Proven(attempts) == attempts = 1

\* The Worker's answer.  One attempt was billed what it reports at most; a cost reported after a
\* retry, or of no known number of attempts, is the last attempt's.
Answered(c) ==
  /\ call[c].at = "sent"
  /\ \E attempts \in 0..2, cost \in {x \in Reported : x <= Hold[c]}, refused \in BOOLEAN :
       /\ refused => c \in Scoped
       /\ spent' = IF attempts = 1 THEN [spent EXCEPT ![c] = cost] ELSE spent
       /\ IF Proven(attempts)
          THEN /\ call' = [call EXCEPT ![c].cost = cost, ![c].refused = refused,
                                       ![c].at = "settles"]
               /\ Queued(On[c], "settle", c)
          ELSE /\ call' = [call EXCEPT ![c].refused = refused, ![c].at = Ended(refused)]
               /\ UNCHANGED queue
  /\ UNCHANGED <<file, view, unwritten, mishaps, apart, forgotten>>

\* Bug: the hold of a call whose transport threw is released.
LostReleases(c) == Queued(On[c], "release", c)

\* The hold of a call whose transport threw stays.
LostKeeps(c) == UNCHANGED queue

\* The transport throws; the call may have reached the Worker.
Lost(c) ==
  /\ call[c].at = "sent" /\ Mishap
  /\ Moves(c, "done") /\ LostKeeps(c)
  /\ UNCHANGED <<file, view, unwritten, spent, apart, forgotten>>

\* The driver records that the service refused the part.
Records(c) ==
  /\ call[c].at = "refused"
  /\ Moves(c, "records") /\ Queued(On[c], "refusal", c)
  /\ UNCHANGED <<file, view, unwritten, mishaps, spent, apart, forgotten>>

-----------------------------------------------------------------------------
(* The queue of a file. *)

\* Bug: a task does not wait for the one before it.
TurnOfAny(d) == DOMAIN queue[d]

Turn(d) == {1} \cap DOMAIN queue[d]

Nth(d, n) == queue[d][n]
Without(d, n) == [queue EXCEPT ![d] = RemoveAt(@, n)]

\* Bug: a task that failed holds the queue.
AfterFailureStuck(d, n) == [queue EXCEPT ![d][n].at = "dropped"]

\* The queue goes on after a task that failed.
AfterFailure(d, n) == Without(d, n)

\* Reservations let through whose hold is on no line d can see.
Unseen(d) ==
  {c \in Calls :
     /\ On[c] # d
     /\ \/ \E l \in file[On[c]] : l.call = c /\ l.kind = "hold"
        \/ \E n \in DOMAIN queue[On[c]] :
             queue[On[c]][n].call = c /\ queue[On[c]][n].at = "admitted"
     /\ ~ \E l \in Known(d) : l.call = c /\ l.kind = "hold"}

\* `reserve` reads every file and lets the call through, or declines it.
Reads(d) ==
  /\ \E n \in Turn(d) :
       LET t == Nth(d, n) IN
       /\ t.do = "hold" /\ t.at = "waiting"
       /\ IF Admits(t.call, ReadAll(d))
          THEN /\ queue' = [queue EXCEPT ![d][n].at = "admitted"]
               /\ apart' = IF Unseen(d) = {} THEN apart ELSE apart \cup {t.call}
               /\ UNCHANGED call
          ELSE /\ queue' = Without(d, n)
               /\ Moves(t.call, "declined")
               /\ UNCHANGED apart
  /\ UNCHANGED <<file, view, unwritten, mishaps, spent, forgotten>>

LineOf(t) ==
  [kind |-> t.do, call |-> t.call,
   usd |-> CASE t.do = "hold"   -> Hold[t.call]
             [] t.do = "settle" -> call[t.call].cost
             [] OTHER           -> 0]

\* The write of `appendUnderQueue`.
Appends(d) ==
  /\ \E n \in Turn(d) :
       LET t == Nth(d, n) IN
       /\ t.at = IF t.do = "hold" THEN "admitted" ELSE "waiting"
       /\ file' = [file EXCEPT ![d] = @ \cup {LineOf(t)}]
       /\ queue' = [queue EXCEPT ![d][n].at = "written"]
  /\ UNCHANGED <<view, unwritten, call, mishaps, spent, apart, forgotten>>

\* A sealed layer drops the write without an error.
Drops(d) ==
  /\ Mishap
  /\ \E n \in Turn(d) :
       LET t == Nth(d, n) IN
       /\ t.at = IF t.do = "hold" THEN "admitted" ELSE "waiting"
       /\ queue' = [queue EXCEPT ![d][n].at = "dropped"]
  /\ UNCHANGED <<file, view, unwritten, call, spent, apart, forgotten>>

\* Bug: the file is not read back.
LandedUnread(t) == TRUE

\* The read-back finds the line.
Landed(t) == t.at = "written"

\* Where a call goes on once its task is done.
GoesOn(c) ==
  CASE call[c].at = "waits"                   -> "granted"
    [] call[c].at = "settles"                 -> Ended(call[c].refused)
    [] call[c].at \in {"records", "releases"} -> "done"
    [] OTHER                                  -> call[c].at

\* What a task that failed does to its call: a reservation is declined, a refusal is
\* counted in memory, and a call that could not be settled or released keeps its hold.
Failed(d, t) ==
  /\ Moves(t.call, IF t.do = "hold" THEN "declined" ELSE GoesOn(t.call))
  /\ unwritten' = IF t.do = "refusal" THEN [unwritten EXCEPT ![d] = @ \cup {t.call}]
                  ELSE unwritten

ReadsBack(d) ==
  /\ \E n \in Turn(d) :
       LET t == Nth(d, n) IN
       /\ t.at \in {"written", "dropped"}
       /\ IF Landed(t)
          THEN /\ queue' = Without(d, n)
               /\ Moves(t.call, GoesOn(t.call))
               /\ UNCHANGED unwritten
          ELSE /\ queue' = AfterFailure(d, n)
               /\ Failed(d, t)
  /\ UNCHANGED <<file, view, mishaps, spent, apart, forgotten>>

\* The folder, a file of it or the read-back cannot be read, or the write fails.
TaskFails(d) ==
  /\ Mishap
  /\ \E n \in Turn(d) : queue' = AfterFailure(d, n) /\ Failed(d, Nth(d, n))
  /\ UNCHANGED <<file, view, spent, apart, forgotten>>

-----------------------------------------------------------------------------
(* Her devices. *)

Sync(d, e) ==
  /\ d # e /\ view[d][e] # file[e]
  /\ view' = [view EXCEPT ![d][e] = file[e]]
  /\ UNCHANGED <<file, queue, unwritten, call, mishaps, spent, apart, forgotten>>

\* The calls under way on a device.
UnderWay(d) ==
  {c \in Calls : On[c] = d /\ call[c].at \notin {"new", "heldBack", "declined", "done"}}

HasLine(d, kind, c) == \E l \in file[d] : l.kind = kind /\ l.call = c

\* The process dies, and is started again.
Crash(d) ==
  /\ Mishap
  /\ queue' = [queue EXCEPT ![d] = <<>>]
  /\ unwritten' = [unwritten EXCEPT ![d] = {}]
  /\ call' = [c \in Calls |-> IF c \in UnderWay(d) THEN [call[c] EXCEPT !.at = "done"] ELSE call[c]]
  /\ forgotten' = forgotten \cup {c \in unwritten[d] \cup UnderWay(d) : ~HasLine(d, "refusal", c)}
  /\ UNCHANGED <<file, view, spent, apart>>

Init ==
  /\ file = [d \in Devices |-> {}]
  /\ view = [d \in Devices |-> [e \in Devices |-> {}]]
  /\ queue = [d \in Devices |-> <<>>]
  /\ unwritten = [d \in Devices |-> {}]
  /\ call = [c \in Calls |-> New(c)]
  /\ mishaps = 0
  /\ spent = [c \in Calls |-> 0]
  /\ apart = {} /\ forgotten = {}

QueueTurns(d) == Reads(d) \/ Appends(d) \/ Drops(d) \/ ReadsBack(d) \/ TaskFails(d)

Next ==
  \/ \E c \in Calls : Starts(c) \/ StartFails(c) \/ Asks(c) \/ Sends(c) \/ NeverSent(c)
                      \/ Answered(c) \/ Lost(c) \/ Records(c)
  \/ \E d \in Devices : QueueTurns(d) \/ Crash(d)
  \/ \E d, e \in Devices : Sync(d, e)

Fairness == \A d \in Devices : WF_vars(QueueTurns(d))

Spec == Init /\ [][Next]_vars /\ Fairness

-----------------------------------------------------------------------------
(* Properties. *)

Call == [at : {"new", "heldBack", "asks", "waits", "declined", "granted", "sent", "settles",
               "releases", "refused", "records", "done"},
         cost : Nat, refused : BOOLEAN, before : 0..Cardinality(Calls)]

\* Types; only the first task of a queue has begun (path-queue.ts:67-80).
TypeOK ==
  /\ \A d \in Devices :
       /\ file[d] \subseteq Line
       /\ \A e \in Devices \ {d} : view[d][e] \subseteq file[e]
       /\ queue[d] \in Seq(Task)
       /\ \A n \in DOMAIN queue[d] : queue[d][n].at = "waiting" \/ n = 1
       /\ unwritten[d] \subseteq Calls
  /\ call \in [Calls -> Call]
  /\ mishaps \in 0..MaxMishaps
  /\ \A c \in Calls : spent[c] \in 0..Hold[c]
  /\ apart \subseteq Calls /\ forgotten \subseteq Calls

SpentOn(calls) == SumFunctionOnSet(spent, calls)
HeldBy(calls) == SumFunctionOnSet(Hold, calls)

\* What a device reads is never less than what its own calls, and the calls it knows of, were
\* billed: not after a dropped or failed write, a retry, a lost answer, or
\* a crash between any two steps (vault-spend-ledger.ts:30-40, ledger.ts:26-38).
NeverUnderCounts ==
  \A d \in Devices :
    Summary(Known(d)) >=
      SpentOn({c \in Calls : On[c] = d \/ \E l \in Known(d) : l.call = c})

\* The calls were never billed more than the limit, but for calls let through on a device that
\* did not know of another's hold (vault-spend-ledger.ts:43-45); the scope reads stop earlier,
\* and leave the rest to outcome extraction (ledger.ts:45-49).
WithinLimit ==
  /\ SpentOn(Calls) <= Limit + HeldBy(apart)
  /\ SpentOn(Scoped) <= Pause + HeldBy(Scoped \cap apart)

\* A part refused as often as the limit on a device is not read by it again, after a restart
\* either, unless a refusal that could not be written went with the process (drivers.ts:45-53).
RefusedIsHeldBack == \A c \in Scoped : call[c].at = "sent" => call[c].before < RefusedLimit

\* Every call that waits for its reservation is answered, whatever fails before it in the
\* queue (path-queue.ts:62-66).
ReservationEnds == \A c \in Calls : call[c].at = "waits" ~> call[c].at # "waits"
================================================================================
