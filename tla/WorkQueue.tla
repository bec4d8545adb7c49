------------------------------ MODULE WorkQueue ------------------------------
(***************************************************************************)
(* What the ingestion queue promises of its durable record (the module doc *)
(* of packages/core/src/ingestion/engine.ts): a job once accepted is never *)
(* dropped; it is pending, running, or at rest; only a pending job starts; *)
(* a completion is final; a restart finds every interrupted job pending.   *)
(***************************************************************************)
CONSTANT Work           \* the jobs that can be asked for

VARIABLE state          \* where each job stands

States == {"absent", "pending", "running", "done", "failed"}

Init == state = [w \in Work |-> "absent"]

Moved(from, to) == {w \in Work : state[w] = from /\ state'[w] = to}

\* Nothing moves but the jobs of W.
Only(W) == \A w \in Work \ W : state'[w] = state[w]

\* A job comes in; the pending jobs it replaces are given up.
Accept(w) ==
  /\ state[w] = "absent" /\ state'[w] = "pending"
  /\ Only({w} \cup Moved("pending", "failed"))

Start(w) == state[w] = "pending" /\ state' = [state EXCEPT ![w] = "running"]

\* A run ends: it is done, given up, or waits to be tried again.
Finish(w) ==
  /\ state[w] = "running"
  /\ \E s \in {"pending", "done", "failed"} : state' = [state EXCEPT ![w] = s]

\* After a crash what was running is pending again, and jobs given up for want
\* of a runner may be taken up.
Recover ==
  /\ \A w \in Work : state'[w] # "running"
  /\ Only(Moved("running", "pending") \cup Moved("failed", "pending"))

Next ==
  \/ \E w \in Work : Accept(w) \/ Start(w) \/ Finish(w)
  \/ Recover

Spec == Init /\ [][state' \in [Work -> States] /\ Next]_state
=============================================================================
